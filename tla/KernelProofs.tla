---------------------------- MODULE KernelProofs ----------------------------
(***************************************************************************)
(* What Kernel guarantees for every number of entries and programs.        *)
(***************************************************************************)
EXTENDS RoundRobin

USE KernelAssumption

LEMMA SomeSlots == MAX_PROCESSES \in Nat \ {0}
BY GeometryAssumption

-----------------------------------------------------------------------------
(*                            Types of the operators                       *)

(* The fields of a register file, for the leaves below. *)
LEMMA RegistersFields ==
  ASSUME NEW c \in Registers
  PROVE  /\ c.slot \in Slots \union {NoSlot} /\ c.pid \in Nat /\ c.RB \in Int /\ c.RL \in Int
         /\ c.RX \in Nat /\ c.interruptEnable \in BOOLEAN /\ c.timerLimit \in Nat
         /\ c.cyclesCounter \in Nat /\ c.again \in Instruction
         /\ c = [slot |-> c.slot, pid |-> c.pid, RB |-> c.RB, RL |-> c.RL, RX |-> c.RX,
                 interruptEnable |-> c.interruptEnable, timerLimit |-> c.timerLimit,
                 cyclesCounter |-> c.cyclesCounter, again |-> c.again]
BY DEF Registers

LEMMA InstructionType ==
  /\ None \in Instruction /\ WildFetch \in Instruction /\ Plain({}) \in Instruction
  /\ Instructions \subseteq Instruction
  /\ \A ins \in Instruction : ins.n \in Nat /\ ins.raises \subseteq InterruptCode
BY DEF None, WildFetch, Plain, Instruction

LEMMA ResetCPUType == ResetCPU \in Registers
BY InstructionType DEF ResetCPU, Registers

LEMMA NextInstructionsType ==
  ASSUME CPU \in Registers PROVE NextInstructions \subseteq Instruction
BY InstructionType, RegistersFields DEF NextInstructions

LEMMA CountedType ==
  ASSUME NEW c \in Registers
  PROVE  Counted(c) \in Registers
<1> DEFINE cycles == IF TimerFires(c) THEN 0
                     ELSE IF c.cyclesCounter >= CycleBound THEN CycleBound
                     ELSE c.cyclesCounter + 1
<1>1. cycles \in Nat
  BY RegistersFields
<1>2. Counted(c) = [c EXCEPT !.cyclesCounter = cycles]
  BY DEF Counted
<1> HIDE DEF cycles
<1> QED
  BY <1>1, <1>2 DEF Registers

LEMMA ExecutedType ==
  ASSUME CPU \in Registers, NEW ins \in Instruction
  PROVE  Executed(ins) \in Registers
<1> DEFINE enable == (ins.op = "hab") \/ (CPU.interruptEnable /\ ins.op # "dhab")
           limit == IF ins.op = "tti" THEN ins.n ELSE CPU.timerLimit
<1>1. enable \in BOOLEAN /\ limit \in Nat
  BY InstructionType, RegistersFields
<1>2. Executed(ins) = [CPU EXCEPT !.again = None, !.interruptEnable = enable, !.timerLimit = limit]
  BY DEF Executed
<1> HIDE DEF enable, limit
<1> QED
  BY <1>1, <1>2, InstructionType DEF Registers

(* What the kernel answers to a system call. *)
Answer ==
  {a \in [status : {"on", "halt", "block"}, wait : {"EXECUTING", "BLOCKED", "BLOCKED_IO"}, tics : Int] :
     /\ a.status = "block" => a.wait # "EXECUTING"
     /\ a.wait = "BLOCKED" => a.status = "block" /\ a.tics > 0
     /\ a.wait = "BLOCKED_IO" => a.status = "block"}

LEMMA handleSyscallType ==
  ASSUME NEW service PROVE handleSyscall(service) \subseteq Answer
<1>1. GoOn \in Answer /\ Halt \in Answer /\ BlockIO \in Answer
  BY DEF GoOn, Halt, BlockIO, Answer
<1>2. WithMonitor \in Answer
  BY <1>1 DEF WithMonitor
<1>3. ASSUME NEW n \in SleepTimes PROVE SleepAnswer(n) \in Answer
  <2>1. n > 0 => Sleep(n) \in Answer
    BY DEF Sleep, Answer
  <2> QED
    BY <1>1, <2>1 DEF SleepAnswer
<1> QED
  BY <1>1, <1>2, <1>3 DEF handleSyscall

LEMMA NewContextType ==
  ASSUME TypeOK
  PROVE  NewContext \in Registers
<1>1. GET_BASE_REGISTER(console.start) \in Int
  BY GeometryAssumption DEF TypeOK, ConsoleState, GET_BASE_REGISTER, Blocks
<1>2. GET_LIMIT_REGISTER(GET_BASE_REGISTER(console.start), console.blocks) \in Int
  BY <1>1, GeometryAssumption DEF TypeOK, ConsoleState, GET_LIMIT_REGISTER
<1> QED
  BY <1>1, <1>2, InstructionType DEF NewContext, Registers, TypeOK, ConsoleState

-----------------------------------------------------------------------------
(*                             Type correctness                            *)

LEMMA PromptType == Prompt \in ConsoleState
BY SomeSlots DEF Prompt, ConsoleState, Blocks

LEMMA AfterStepType ==
  ASSUME NEW outcome, AfterStep(outcome)
  PROVE  worker' \in WorkerState
BY SomeSlots DEF AfterStep, WorkerState

LEMMA InitTypeOK == Init => TypeOK
<1> SUFFICES ASSUME Init PROVE TypeOK
  OBVIOUS
<1>1. /\ state \in [Slots -> ProcessState] /\ pid \in [Slots -> Nat \union {-1}]
      /\ startBlock \in [Slots -> Blocks] /\ blockCount \in [Slots -> 0 .. MAX_PROCESSES]
      /\ sleepTics \in [Slots -> Nat] /\ context \in [Slots -> Registers]
  BY SomeSlots, ResetCPUType DEF Init, ProcessState, Blocks
<1>2. /\ FREE_PARTITIONS \in [Blocks -> BOOLEAN] /\ nextPid \in Nat
      /\ currentActiveProcess \in Slots \union {NoSlot} /\ osRunning \in BOOLEAN
      /\ OS_MONITOR_ACTIVE \in BOOLEAN /\ RAM \subseteq Nat /\ CPU \in Registers
      /\ interruptBitmap \subseteq InterruptCode
  BY ResetCPUType DEF Init
<1>3. worker \in WorkerState /\ console \in ConsoleState
  BY SomeSlots, PromptType DEF Init, WorkerState
<1> QED
  BY <1>1, <1>2, <1>3 DEF TypeOK, WorkerState, ConsoleState

LEMMA CheckInterruptsType ==
  ASSUME TypeOK, NEW c \in Registers, NEW bitmap \in SUBSET InterruptCode,
         NEW ins \in Instruction, NEW outcome,
         CheckInterrupts(c, bitmap, ins, outcome)
  PROVE  /\ state' \in [Slots -> ProcessState] /\ sleepTics' \in [Slots -> Nat]
         /\ CPU' \in Registers /\ interruptBitmap' \subseteq InterruptCode
<1>1. CASE bitmap = {} \/ ~c.interruptEnable
  BY <1>1 DEF CheckInterrupts, TypeOK
<1>2. CASE bitmap # {} /\ c.interruptEnable
  <2> DEFINE code == ToHandle(bitmap)
  <2>1. interruptBitmap' \subseteq InterruptCode
    BY <1>2 DEF CheckInterrupts
  <2>2. CASE code # "IC_SYSCALL"
    <3>1. /\ CPU' = [c EXCEPT !.interruptEnable = TRUE]
          /\ UNCHANGED <<state, sleepTics>>
      BY <1>2, <2>2 DEF CheckInterrupts
    <3>2. CPU' \in Registers
      BY <3>1 DEF Registers
    <3> QED
      BY <2>1, <3>1, <3>2 DEF TypeOK
  <2>3. CASE code = "IC_SYSCALL"
    <3>0. PICK service \in IF ins.op = "svc" THEN {ins.n} ELSE Services :
            \E answer \in handleSyscall(service) : Serve(answer, ins, c, outcome)
      BY <1>2, <2>3 DEF CheckInterrupts
    <3>1. PICK answer \in handleSyscall(service) : Serve(answer, ins, c, outcome)
      BY <3>0
    <3>2. answer \in Answer
      BY <3>1, handleSyscallType
    <3>3. state' \in [Slots -> ProcessState]
      BY <3>1, <3>2 DEF Serve, Answer, TypeOK, ProcessState
    <3>4. sleepTics' \in [Slots -> Nat]
      <4>1. answer.wait = "BLOCKED" => answer.tics \in Nat
        BY <3>2 DEF Answer
      <4>2. sleepTics' = IF answer.wait = "BLOCKED"
                           THEN [sleepTics EXCEPT ![currentActiveProcess] = answer.tics]
                           ELSE sleepTics
        BY <3>1 DEF Serve
      <4> QED
        BY <4>1, <4>2 DEF TypeOK
    <3>5. CPU' \in Registers
      <4> DEFINE again == IF answer.wait = "BLOCKED_IO" THEN ins ELSE None
      <4>1. again \in Instruction /\ CPU' = [c EXCEPT !.interruptEnable = TRUE, !.again = again]
        BY <3>1, InstructionType DEF Serve
      <4> HIDE DEF again
      <4> QED
        BY <4>1 DEF Registers
    <3> QED
      BY <2>1, <3>3, <3>4, <3>5
  <2> QED
    BY <2>2, <2>3
<1> QED
  BY <1>1, <1>2

(* What an instruction does to the process table and to the worker: it     *)
(* blocks the current process and yields, or the table stays as it is.     *)
WorkerAt(pc) == [pc |-> pc, i |-> 0]

NothingBlocked ==
  /\ UNCHANGED <<state, sleepTics>>
  /\ worker' \in {WorkerAt("loop"), WorkerAt("clean"), WorkerAt("wake")}

CurrentBlocked ==
  /\ worker' = WorkerAt("wake")
  /\ \/ /\ state' = [state EXCEPT ![currentActiveProcess] = "BLOCKED_IO"]
        /\ UNCHANGED sleepTics
     \/ /\ state' = [state EXCEPT ![currentActiveProcess] = "BLOCKED"]
        /\ \E n \in Nat \ {0} : sleepTics' = [sleepTics EXCEPT ![currentActiveProcess] = n]

LEMMA CheckInterruptsOutcome ==
  ASSUME NEW c, NEW bitmap, NEW ins, NEW outcome,
         CheckInterrupts(c, bitmap, ins, outcome), AfterStep(outcome)
  PROVE  NothingBlocked \/ CurrentBlocked
<1>0. worker' \in {WorkerAt("loop"), WorkerAt("clean"), WorkerAt("wake")}
  BY DEF AfterStep, WorkerAt
<1>1. CASE bitmap = {} \/ ~c.interruptEnable
  BY <1>0, <1>1 DEF CheckInterrupts, NothingBlocked
<1>2. CASE bitmap # {} /\ c.interruptEnable /\ ToHandle(bitmap) # "IC_SYSCALL"
  BY <1>0, <1>2 DEF CheckInterrupts, NothingBlocked
<1>3. CASE bitmap # {} /\ c.interruptEnable /\ ToHandle(bitmap) = "IC_SYSCALL"
  <2>1. PICK service \in IF ins.op = "svc" THEN {ins.n} ELSE Services :
          \E answer \in handleSyscall(service) : Serve(answer, ins, c, outcome)
    BY <1>3 DEF CheckInterrupts
  <2>2. PICK answer \in handleSyscall(service) : Serve(answer, ins, c, outcome)
    BY <2>1
  <2>3. answer \in Answer
    BY <2>2, handleSyscallType
  <2>4. CASE answer.status # "block"
    <3>1. UNCHANGED <<state, sleepTics>>
      BY <2>2, <2>3, <2>4 DEF Serve, Answer
    <3> QED
      BY <1>0, <2>2, <3>1 DEF Serve, NothingBlocked
  <2>5. CASE answer.status = "block"
    <3>1. worker' = WorkerAt("wake")
      BY <2>2, <2>5 DEF Serve, AfterStep, WorkerAt
    <3>2. state' = [state EXCEPT ![currentActiveProcess] = answer.wait]
      BY <2>2, <2>5 DEF Serve
    <3>3. CASE answer.wait = "BLOCKED"
      <4>1. answer.tics \in Nat \ {0}
        BY <2>3, <3>3 DEF Answer
      <4>2. sleepTics' = [sleepTics EXCEPT ![currentActiveProcess] = answer.tics]
        BY <2>2, <3>3 DEF Serve
      <4> QED
        BY <3>1, <3>2, <3>3, <4>1, <4>2 DEF CurrentBlocked
    <3>4. CASE answer.wait = "BLOCKED_IO"
      <4>1. UNCHANGED sleepTics
        BY <2>2, <3>4 DEF Serve
      <4> QED
        BY <3>1, <3>2, <3>4, <4>1 DEF CurrentBlocked
    <3> QED
      BY <2>3, <2>5, <3>3, <3>4 DEF Answer
  <2> QED
    BY <2>4, <2>5
<1> QED
  BY <1>1, <1>2, <1>3

LEMMA cpuStepOutcome ==
  ASSUME NEW ins, cpuStep(ins)
  PROVE  /\ Running
         /\ NothingBlocked \/ CurrentBlocked
         /\ UNCHANGED <<pid, startBlock, blockCount, context, kernel, RAM, console>>
BY CheckInterruptsOutcome DEF cpuStep, Cycle

(* The entry that is dispatched is one of the table, although TypeOK lets  *)
(* the same index run one further during the scan.                         *)
DispatchInv == worker.pc = "dispatch" => worker.i \in Slots

(* The CPU thread's part of Next. *)
LEMMA WorkerTypeOK == TypeOK /\ DispatchInv /\ cpuThreadWorker => TypeOK'
<1> SUFFICES ASSUME TypeOK, DispatchInv, cpuThreadWorker PROVE TypeOK'
  OBVIOUS
<1>0. CPU \in Registers /\ worker \in WorkerState
  BY DEF TypeOK, WorkerState
<1>1. ASSUME NEW ins \in NextInstructions, cpuStep(ins) PROVE TypeOK'
  <2>1. ins \in Instruction
    BY <1>0, NextInstructionsType
  <2> DEFINE c == Executed(ins)
             bitmap == interruptBitmap \union ins.raises
                         \union (IF TimerFires(c) THEN {"IC_TIMER"} ELSE {})
  <2>2. Counted(c) \in Registers
    BY <1>0, <2>1, ExecutedType, CountedType
  <2>3. bitmap \subseteq InterruptCode
    BY <2>1, InstructionType DEF TypeOK, InterruptCode
  <2>4. PICK outcome \in Outcomes : CheckInterrupts(Counted(c), bitmap, ins, outcome) /\ AfterStep(outcome)
    BY <1>1 DEF cpuStep, Cycle
  <2>5. /\ state' \in [Slots -> ProcessState] /\ sleepTics' \in [Slots -> Nat]
        /\ CPU' \in Registers /\ interruptBitmap' \subseteq InterruptCode
        /\ worker' \in WorkerState
    <3> HIDE DEF c, bitmap
    <3> QED
      BY <2>1, <2>2, <2>3, <2>4, CheckInterruptsType, AfterStepType
  <2> QED
    BY <1>1, <2>5 DEF cpuStep, Cycle, TypeOK, WorkerState, kernel
<1>2. CASE FetchFails
  BY <1>2, AfterStepType DEF FetchFails, TypeOK, WorkerState, table, kernel
<1>3. CASE FreePartition
  <2>1. worker.i < MAX_PROCESSES
    BY <1>3, <1>0, SomeSlots DEF FreePartition, TypeOK, WorkerState
  <2>2. worker' \in WorkerState
    BY <1>3, <1>0, <2>1, SomeSlots DEF FreePartition, WorkerState
  <2>3. FREE_PARTITIONS' \in [Blocks -> BOOLEAN]
    BY <1>3 DEF FreePartition, TypeOK
  <2> QED
    BY <1>3, <2>2, <2>3 DEF FreePartition, TypeOK, WorkerState, table
<1>4. CASE Finish
  BY <1>4, <1>0, SomeSlots DEF Finish, TypeOK, WorkerState, kernel, ProcessState
<1>5. CASE CleanNoProcess
  BY <1>5, <1>0 DEF CleanNoProcess, TypeOK, WorkerState, table, kernel
<1>6. CASE IdleLoop
  BY <1>6, <1>0, SomeSlots DEF IdleLoop, TypeOK, WorkerState, table, kernel
<1>7. CASE StopLoop
  BY <1>7, <1>0 DEF StopLoop, TypeOK, WorkerState, table, kernel
<1>8. CASE TickWake
  <2>1. sleepTics' \in [Slots -> Nat]
    BY <1>8 DEF TickWake, Asleep, TypeOK
  <2>2. state' \in [Slots -> ProcessState]
    BY <1>8 DEF TickWake, TypeOK, ProcessState
  <2>3. worker' \in WorkerState
    BY <1>8, <1>0 DEF TickWake, WorkerState
  <2> QED
    BY <1>8, <2>1, <2>2, <2>3 DEF TickWake, TypeOK, WorkerState, kernel
<1>9. CASE TickSave
  <2>1. context' \in [Slots -> Registers] /\ state' \in [Slots -> ProcessState]
    BY <1>8, <1>9 DEF TickSave, Outgoing, TypeOK, ProcessState
  <2> QED
    BY <1>9, <2>1, SomeSlots DEF TickSave, TypeOK, WorkerState, kernel
<1>10. CASE TickScan
  <2>1. checkIndex \in Slots
    BY SomeSlots DEF checkIndex, startIndex, TypeOK, WorkerState, Slots, NoSlot
  <2>2. worker' \in WorkerState
    BY <1>10, <1>0, <2>1, SomeSlots DEF TickScan, WorkerState, Slots
  <2> QED
    BY <1>10, <2>2 DEF TickScan, TypeOK, WorkerState, table, kernel
<1>11. CASE TickDispatch
  <2>1. worker.i \in Slots
    BY <1>11 DEF DispatchInv, TickDispatch
  <2>2. CPU' \in Registers /\ state' \in [Slots -> ProcessState]
        /\ currentActiveProcess' \in Slots \union {NoSlot}
    BY <1>11, <2>1 DEF TickDispatch, Incoming, TypeOK, ProcessState
  <2>3. worker' \in WorkerState
    BY <1>11, SomeSlots DEF TickDispatch, WorkerState
  <2> QED
    BY <1>11, <2>2, <2>3 DEF TickDispatch, TypeOK, WorkerState
<1>12. CASE TickNoReady
  BY <1>12, SomeSlots DEF TickNoReady, TypeOK, WorkerState, table, NoSlot
<1> QED
  BY <1>1, <1>2, <1>3, <1>4, <1>5, <1>6, <1>7, <1>8, <1>9, <1>10, <1>11, <1>12
     DEF cpuThreadWorker, schedulerTick

(* The console thread's part. *)
LEMMA ConsoleTypeOK ==
  ASSUME TypeOK,
         \/ ReservePCB \/ createProcess \/ OpenMonitor \/ CloseMonitor
         \/ RestartCPU \/ handleRestartCommand \/ Shutdown \/ Join
  PROVE  TypeOK'
<1>0. console \in ConsoleState
  BY DEF TypeOK, ConsoleState
<1>1. CASE ReservePCB
  <2>1. PICK s \in Slots :
          /\ state' = [state EXCEPT ![s] = "NEW"]
          /\ console' = [Prompt EXCEPT !.pc = "reserved", !.slot = s]
    BY <1>1 DEF ReservePCB
  <2>2. console' \in ConsoleState
    <3>1. console' = [pc |-> "reserved", slot |-> s, words |-> 0, start |-> 0, blocks |-> 0]
      BY <2>1 DEF Prompt
    <3> QED
      BY <3>1, SomeSlots DEF ConsoleState, Blocks
  <2>3. state' \in [Slots -> ProcessState]
    BY <2>1 DEF TypeOK, ProcessState
  <2> QED
    BY <1>1, <2>2, <2>3 DEF ReservePCB, TypeOK, ConsoleState, kernel
<1>2. CASE VerifyFile
  <2>1. console' \in ConsoleState
    <3>1. ASSUME NEW w \in WordCounts, console' = [console EXCEPT !.pc = "verified", !.words = w]
          PROVE  console' \in ConsoleState
      <4>1. w \in Nat
        OBVIOUS
      <4> QED
        BY <1>0, <3>1, <4>1 DEF ConsoleState
    <3> QED
      BY <1>2, <3>1, PromptType DEF VerifyFile, GiveUp
  <2>2. state' \in [Slots -> ProcessState]
    BY <1>2 DEF VerifyFile, GiveUp, TypeOK, ProcessState
  <2> QED
    BY <1>2, <2>1, <2>2 DEF VerifyFile, TypeOK, ConsoleState, kernel
<1>3. CASE Allocate
  <2> DEFINE required == CalculateRequiredBlocks(console.words)
  <2>0. required \in 0 .. MAX_PROCESSES
    BY <1>0, RequiredBlocksType DEF ConsoleState
  <2> HIDE DEF required
  <2>1. CASE GiveUp /\ UNCHANGED FREE_PARTITIONS
    <3>1. console' \in ConsoleState /\ state' \in [Slots -> ProcessState]
      BY <2>1, PromptType DEF GiveUp, TypeOK, ProcessState
    <3> QED
      BY <1>3, <2>1, <3>1 DEF Allocate, TypeOK, ConsoleState
  <2>2. ASSUME NEW start \in FreeRuns(FREE_PARTITIONS, required),
               FREE_PARTITIONS' = [b \in Blocks |->
                 FREE_PARTITIONS[b] /\ b \notin Run(start, required)],
               console' = [console EXCEPT !.pc = "allocated", !.start = start,
                                          !.blocks = required],
               UNCHANGED state
        PROVE  TypeOK'
    <3>1. start \in Blocks
      BY DEF FreeRuns
    <3>2. console' \in ConsoleState
      BY <1>0, <2>0, <2>2, <3>1 DEF ConsoleState
    <3>3. FREE_PARTITIONS' \in [Blocks -> BOOLEAN]
      BY <2>2
    <3> QED
      BY <1>3, <2>2, <3>2, <3>3 DEF Allocate, TypeOK, ConsoleState
  <2> QED
    BY <1>3, <2>1, <2>2 DEF Allocate, required
<1>4. CASE FillPCB
  <2>1. NewContext \in Registers /\ nextPid \in Nat
    BY NewContextType DEF TypeOK
  <2>2. nextPid' \in Nat /\ RAM' \subseteq Nat
    BY <1>4, <2>1 DEF FillPCB, TypeOK
  <2>9. pid' \in [Slots -> Nat \union {-1}]
    BY <1>4, <2>1 DEF FillPCB, TypeOK
  <2>5. console.start \in Blocks /\ console.blocks \in 0 .. MAX_PROCESSES
    BY <1>0 DEF ConsoleState
  <2>6. startBlock' \in [Slots -> Blocks]
    BY <1>4, <2>5 DEF FillPCB, TypeOK
  <2>7. blockCount' \in [Slots -> 0 .. MAX_PROCESSES]
    BY <1>4, <2>5 DEF FillPCB, TypeOK
  <2>8. sleepTics' \in [Slots -> Nat]
    BY <1>4 DEF FillPCB, TypeOK
  <2>3. context' \in [Slots -> Registers]
    BY <1>4, <2>1 DEF FillPCB, TypeOK
  <2>4. console' \in ConsoleState
    BY <1>0, <1>4 DEF FillPCB, ConsoleState
  <2>10. UNCHANGED <<state, FREE_PARTITIONS, currentActiveProcess, osRunning,
                     OS_MONITOR_ACTIVE, CPU, interruptBitmap, worker>>
    BY <1>4 DEF FillPCB
  <2> QED
    BY <2>2, <2>3, <2>4, <2>6, <2>7, <2>8, <2>9, <2>10 DEF TypeOK, ConsoleState
<1>5. CASE MakeReady
  BY <1>5, PromptType DEF MakeReady, TypeOK, ConsoleState, ProcessState, kernel
<1>6. CASE OpenMonitor
  BY <1>6, <1>0 DEF OpenMonitor, TypeOK, ConsoleState, table
<1>7. CASE CloseMonitor
  BY <1>7, PromptType DEF CloseMonitor, TypeOK, ConsoleState, table
<1>8. CASE RestartCPU
  BY <1>8, <1>0, ResetCPUType DEF RestartCPU, TypeOK, ConsoleState, table, kernel
<1>9. CASE RestartMemory
  <2>1. console' \in ConsoleState
    BY <1>0, <1>9 DEF RestartMemory, ConsoleState
  <2> QED
    BY <1>9, <2>1 DEF RestartMemory, TypeOK, ConsoleState, table
<1>10. CASE RestartTable
  <2>1. console' \in ConsoleState
    BY <1>0, <1>10 DEF RestartTable, ConsoleState
  <2> QED
    BY <1>10, <2>1 DEF RestartTable, TypeOK, ConsoleState, ProcessState, kernel
<1>11. CASE RestartActive
  BY <1>11, PromptType DEF RestartActive, TypeOK, ConsoleState, table
<1>12. CASE Shutdown
  BY <1>12, <1>0 DEF Shutdown, TypeOK, ConsoleState, table
<1>13. CASE Join
  BY <1>13, <1>0 DEF Join, TypeOK, ConsoleState, table, kernel
<1> QED
  BY <1>1, <1>2, <1>3, <1>4, <1>5, <1>6, <1>7, <1>8, <1>9, <1>10, <1>11, <1>12, <1>13
     DEF createProcess, handleRestartCommand

(* DispatchInv is inductive with TypeOK, which gives the range of the scan. *)
LEMMA DispatchStep == TypeOK /\ DispatchInv /\ [Next]_vars => DispatchInv'
<1> SUFFICES ASSUME TypeOK, DispatchInv, [Next]_vars PROVE DispatchInv'
  OBVIOUS
<1>1. CASE TickScan
  <2>1. checkIndex \in Slots
    BY SomeSlots DEF checkIndex, startIndex, TypeOK, WorkerState, Slots, NoSlot
  <2>2. CASE state[checkIndex] = "READY"
    BY <1>1, <2>1, <2>2 DEF TickScan, DispatchInv
  <2>3. CASE state[checkIndex] # "READY"
    BY <1>1, <2>3 DEF TickScan, DispatchInv, TypeOK
  <2> QED
    BY <2>2, <2>3
<1>2. ASSUME worker'.pc # "dispatch" PROVE DispatchInv'
  BY <1>2 DEF DispatchInv
<1>3. ASSUME UNCHANGED worker PROVE DispatchInv'
  BY <1>3 DEF DispatchInv
<1>4. ASSUME NEW ins \in NextInstructions, cpuStep(ins) PROVE worker'.pc # "dispatch"
  BY <1>4, cpuStepOutcome DEF NothingBlocked, CurrentBlocked, WorkerAt
<1>5. CASE FetchFails
  BY <1>2, <1>5 DEF FetchFails, AfterStep
<1>6. CASE FreePartition \/ Finish \/ CleanNoProcess \/ IdleLoop \/ StopLoop
  BY <1>2, <1>6 DEF FreePartition, Finish, CleanNoProcess, IdleLoop, StopLoop, TypeOK, WorkerState
<1>7. CASE TickWake \/ TickSave \/ TickDispatch \/ TickNoReady
  BY <1>2, <1>7 DEF TickWake, TickSave, TickDispatch, TickNoReady, TypeOK, WorkerState
<1>8. CASE ReservePCB \/ createProcess
  BY <1>3, <1>8 DEF ReservePCB, createProcess, VerifyFile, Allocate, FillPCB, MakeReady
<1>9. CASE OpenMonitor \/ CloseMonitor \/ RestartCPU \/ handleRestartCommand \/ Shutdown \/ Join
  BY <1>3, <1>9 DEF OpenMonitor, CloseMonitor, RestartCPU, handleRestartCommand, RestartMemory,
                    RestartTable, RestartActive, Shutdown, Join
<1>10. CASE UNCHANGED vars
  BY <1>3, <1>10 DEF vars
<1> QED
  BY <1>1, <1>2, <1>4, <1>5, <1>6, <1>7, <1>8, <1>9, <1>10 DEF Next, cpuThreadWorker, schedulerTick

LEMMA TypeStep == TypeOK /\ DispatchInv /\ [Next]_vars => TypeOK'
<1> SUFFICES ASSUME TypeOK, DispatchInv, [Next]_vars PROVE TypeOK'
  OBVIOUS
<1>1. CASE Next
  BY <1>1, WorkerTypeOK, ConsoleTypeOK DEF Next
<1>2. CASE UNCHANGED vars
  BY <1>2 DEF vars, table, kernel, TypeOK
<1> QED
  BY <1>1, <1>2

(* Every variable keeps its type, whatever is typed and executed. *)
THEOREM TypeCorrect == Spec => []TypeOK
<1>1. Init => TypeOK /\ DispatchInv
  BY InitTypeOK DEF Init, DispatchInv
<1>2. TypeOK /\ DispatchInv /\ [Next]_vars => TypeOK' /\ DispatchInv'
  BY TypeStep, DispatchStep
<1> QED
  BY <1>1, <1>2, PTL DEF Spec

-----------------------------------------------------------------------------
(*                               Shutdown                                  *)

(* The steps the CPU thread has left when it is asked to stop: the rest of *)
(* the clean-up, which frees one partition at a time, and of the tick.     *)
TurnLeft ==
  [loop |-> 1, dispatch |-> 2, scan |-> 3 + MAX_PROCESSES - worker.i,
   save |-> 4 + MAX_PROCESSES, wake |-> 5 + MAX_PROCESSES,
   clean |-> 6 + 2 * MAX_PROCESSES - worker.i, stopped |-> 0, undefined |-> 0][worker.pc]

(* Once osStop has been called the CPU thread comes nearer to its end with *)
(* every step: it executes no instruction and frees no partition twice.    *)
ShutdownAdvances ==
  [][~osRunning =>
       /\ ~osRunning'
       /\ IF cpuThreadWorker THEN TurnLeft' < TurnLeft ELSE UNCHANGED worker]_vars

LEMMA WorkerNearer ==
  ASSUME TypeOK, DispatchInv, ~osRunning, cpuThreadWorker
  PROVE  UNCHANGED osRunning /\ TurnLeft' < TurnLeft
<1> DEFINE M == MAX_PROCESSES
<1>0. /\ worker \in WorkerState /\ M \in Nat \ {0} /\ worker.i \in 0 .. M
      /\ blockCount \in [Slots -> 0 .. M]
  BY SomeSlots DEF TypeOK, WorkerState
<1>1. ~Running
  BY DEF Running
<1>2. CASE FreePartition
  <2>1. /\ worker.pc = "clean" /\ worker'.pc = "clean" /\ worker'.i = worker.i + 1
        /\ UNCHANGED osRunning
    BY <1>0, <1>2 DEF FreePartition, WorkerState
  <2> QED
    BY <1>0, <2>1 DEF TurnLeft
<1>3. CASE Finish
  <2>1. worker.pc = "clean" /\ worker'.pc = "wake" /\ UNCHANGED osRunning
    BY <1>3 DEF Finish, kernel
  <2> QED
    BY <1>0, <2>1 DEF TurnLeft
<1>4. CASE CleanNoProcess
  <2>1. worker.pc = "clean" /\ worker'.pc = "undefined" /\ UNCHANGED osRunning
    BY <1>0, <1>4 DEF CleanNoProcess, WorkerState, kernel
  <2> QED
    BY <1>0, <2>1 DEF TurnLeft
<1>5. ~IdleLoop
  BY DEF IdleLoop
<1>6. CASE StopLoop
  <2>1. worker.pc = "loop" /\ worker'.pc = "stopped" /\ UNCHANGED osRunning
    BY <1>0, <1>6 DEF StopLoop, WorkerState, kernel
  <2> QED
    BY <1>0, <2>1 DEF TurnLeft
<1>7. CASE TickWake
  <2>1. worker.pc = "wake" /\ worker'.pc = "save" /\ UNCHANGED osRunning
    BY <1>0, <1>7 DEF TickWake, WorkerState, kernel
  <2> QED
    BY <1>0, <2>1 DEF TurnLeft
<1>8. CASE TickSave
  <2>1. worker.pc = "save" /\ worker'.pc = "scan" /\ worker'.i = 0 /\ UNCHANGED osRunning
    BY <1>8 DEF TickSave, kernel
  <2> QED
    BY <1>0, <2>1 DEF TurnLeft
<1>9. CASE TickScan
  <2>1. /\ worker.pc = "scan" /\ worker.i < M /\ UNCHANGED osRunning
        /\ \/ worker'.pc = "dispatch"
           \/ worker'.pc = "scan" /\ worker'.i = worker.i + 1
    BY <1>0, <1>9 DEF TickScan, WorkerState, kernel
  <2> QED
    BY <1>0, <2>1 DEF TurnLeft
<1>10. CASE TickDispatch
  <2>1. worker.pc = "dispatch" /\ worker'.pc = "loop" /\ UNCHANGED osRunning
    BY <1>10 DEF TickDispatch
  <2> QED
    BY <1>0, <2>1 DEF TurnLeft
<1>11. CASE TickNoReady
  <2>1. worker.pc = "scan" /\ worker.i = M /\ worker'.pc = "loop" /\ UNCHANGED osRunning
    BY <1>11 DEF TickNoReady
  <2> QED
    BY <1>0, <2>1 DEF TurnLeft
<1> QED
  BY <1>1, <1>2, <1>3, <1>4, <1>5, <1>6, <1>7, <1>8, <1>9, <1>10, <1>11
     DEF cpuThreadWorker, schedulerTick, cpuStep, FetchFails

(* osStop's join waits for a bounded number of steps of the CPU thread,    *)
(* wherever it was when shutdown was typed, also after restarts.           *)
THEOREM ShutdownEnds == Spec => ShutdownAdvances
<1> DEFINE Advance == ~osRunning =>
             /\ ~osRunning'
             /\ IF cpuThreadWorker THEN TurnLeft' < TurnLeft ELSE UNCHANGED worker
<1>1. Init => TypeOK /\ DispatchInv
  BY InitTypeOK DEF Init, DispatchInv
<1>2. TypeOK /\ DispatchInv /\ [Next]_vars => TypeOK' /\ DispatchInv'
  BY TypeStep, DispatchStep
<1>3. TypeOK /\ DispatchInv /\ [Next]_vars => [Advance]_vars
  <2> SUFFICES ASSUME TypeOK, DispatchInv, Next, ~osRunning
               PROVE  /\ ~osRunning'
                      /\ IF cpuThreadWorker THEN TurnLeft' < TurnLeft ELSE UNCHANGED worker
    OBVIOUS
  <2>1. ASSUME cpuThreadWorker PROVE ~osRunning' /\ TurnLeft' < TurnLeft
    <3>1. UNCHANGED osRunning /\ TurnLeft' < TurnLeft
      BY <2>1, WorkerNearer
    <3> QED
      BY <3>1
  <2>2. ASSUME ~cpuThreadWorker PROVE ~osRunning' /\ UNCHANGED worker
    <3>1. CASE ReservePCB \/ createProcess
      <4>1. UNCHANGED <<osRunning, worker>>
        BY <3>1 DEF ReservePCB, createProcess, VerifyFile, Allocate, FillPCB, MakeReady, kernel
      <4> QED
        BY <4>1
    <3>2. CASE OpenMonitor \/ CloseMonitor \/ Join
      BY <3>2 DEF OpenMonitor, CloseMonitor, Join, kernel
    <3>3. CASE Shutdown
      BY <3>3 DEF Shutdown
    <3>4. CASE RestartCPU \/ handleRestartCommand
      BY <3>4 DEF RestartCPU, handleRestartCommand, RestartMemory, RestartTable, RestartActive,
         kernel
    <3> QED
      BY <2>2, <3>1, <3>2, <3>3, <3>4 DEF Next
  <2> QED
    BY <2>1, <2>2
<1> QED
  BY <1>1, <1>2, <1>3, PTL DEF Spec, ShutdownAdvances

-----------------------------------------------------------------------------
(*                  The safety of the process table                          *)

(* It holds as long as restart is not typed: restart empties the table     *)
(* under the feet of the CPU thread (README, and MCRestart's run).         *)

(* createProcess has an entry, and not yet made it ready. *)
Creating == console.pc \in {"reserved", "verified", "allocated", "filled"}

(* What makes OneExecuting inductive.  Between the moment schedulerTick    *)
(* has saved the outgoing process and the dispatch nobody is EXECUTING;    *)
(* the entry found READY stays READY until it is dispatched, since only    *)
(* the CPU thread takes an entry out of that state; and createProcess's    *)
(* entry is NEW, a state the CPU thread neither sets nor leaves.           *)
ScanInv ==
  /\ worker.pc \in {"scan", "dispatch"} => \A s \in Slots : state[s] # "EXECUTING"
  /\ worker.pc = "dispatch" => worker.i \in Slots /\ state[worker.i] = "READY"

CreateInv == Creating => console.slot \in Slots /\ state[console.slot] = "NEW"

CleanInv == worker.pc = "clean" => currentActiveProcess # NoSlot

NoRestartInv == console.pc \notin {"mmuInit", "flush", "noActive"}

ExecInv == TypeOK /\ OneExecuting /\ ScanInv /\ CreateInv /\ CleanInv /\ NoRestartInv

NoRestart == "restart" \notin Commands

(* The current process, when there is one, is an entry of the table. *)
LEMMA CurrentIsSlot ==
  ASSUME TypeOK, currentActiveProcess # NoSlot
  PROVE  currentActiveProcess \in Slots
BY DEF TypeOK

LEMMA NoSlotIsNone == NoSlot \notin Slots
BY DEF NoSlot, Slots

LEMMA checkIndexType ==
  ASSUME TypeOK
  PROVE  checkIndex \in Slots
<1>1. currentActiveProcess + 1 \in Nat /\ worker.i \in Nat /\ MAX_PROCESSES \in Nat \ {0}
  BY SomeSlots DEF TypeOK, WorkerState, Slots, NoSlot
<1>2. \A n \in Nat : n % MAX_PROCESSES \in Slots
  BY <1>1 DEF Slots
<1>3. startIndex \in Nat
  BY <1>1, <1>2 DEF startIndex, Slots
<1> QED
  BY <1>1, <1>2, <1>3 DEF checkIndex

LEMMA InitExec == Init => ExecInv
<1> SUFFICES ASSUME Init PROVE ExecInv
  OBVIOUS
<1>1. TypeOK
  BY InitTypeOK
<1>2. OneExecuting
  BY DEF Init, OneExecuting
<1>3. ScanInv /\ CreateInv /\ CleanInv /\ NoRestartInv
  BY DEF Init, Prompt, ScanInv, CreateInv, Creating, CleanInv, NoRestartInv
<1> QED
  BY <1>1, <1>2, <1>3 DEF ExecInv

-----------------------------------------------------------------------------
(* The CPU thread's steps. *)
LEMMA WorkerExec ==
  ASSUME ExecInv, cpuThreadWorker
  PROVE  OneExecuting' /\ ScanInv' /\ CreateInv' /\ CleanInv' /\ NoRestartInv'
<1>0. /\ TypeOK /\ OneExecuting /\ ScanInv /\ CreateInv /\ CleanInv /\ NoRestartInv
      /\ state \in [Slots -> ProcessState]
  BY DEF ExecInv, TypeOK
<1>1. ASSUME NEW ins \in NextInstructions, cpuStep(ins)
      PROVE  OneExecuting' /\ ScanInv' /\ CreateInv' /\ CleanInv' /\ NoRestartInv'
  <2>1. /\ Running
        /\ NothingBlocked \/ CurrentBlocked
        /\ UNCHANGED <<currentActiveProcess, console>>
    BY <1>1, cpuStepOutcome DEF kernel
  <2>2. currentActiveProcess \in Slots /\ state[currentActiveProcess] = "EXECUTING"
    BY <1>0, <2>1, CurrentIsSlot DEF Running, OneExecuting
  <2>3. CASE NothingBlocked
    BY <1>0, <2>1, <2>2, <2>3 DEF NothingBlocked, WorkerAt, Running, OneExecuting, ScanInv,
       CreateInv, Creating, CleanInv, NoRestartInv
  <2>4. CASE CurrentBlocked
    <3>1. /\ worker'.pc = "wake"
          /\ \A s \in Slots : s # currentActiveProcess => state'[s] = state[s]
          /\ state'[currentActiveProcess] \in {"BLOCKED", "BLOCKED_IO"}
      BY <1>0, <2>2, <2>4 DEF CurrentBlocked, WorkerAt
    <3> QED
      BY <1>0, <2>1, <2>2, <3>1 DEF OneExecuting, ScanInv, CreateInv, Creating, CleanInv, NoRestartInv
  <2> QED
    BY <2>1, <2>3, <2>4
<1>2. CASE FetchFails
  BY <1>0, <1>2 DEF FetchFails, AfterStep, Running, table, kernel, OneExecuting, ScanInv,
     CreateInv, Creating, CleanInv, NoRestartInv
<1>3. CASE FreePartition
  <2>1. worker'.pc = "clean"
    BY <1>0, <1>3 DEF FreePartition, TypeOK
  <2> QED
    BY <1>0, <1>3, <2>1 DEF FreePartition, table, OneExecuting, ScanInv,
       CreateInv, Creating, CleanInv, NoRestartInv
<1>4. CASE Finish
  <2>1. currentActiveProcess \in Slots /\ state[currentActiveProcess] = "EXECUTING"
    BY <1>0, <1>4, CurrentIsSlot DEF Finish, OneExecuting
  <2>2. /\ worker'.pc = "wake" /\ UNCHANGED <<currentActiveProcess, console>>
        /\ \A s \in Slots : state'[s] = IF s = currentActiveProcess THEN "FINISHED" ELSE state[s]
    BY <1>0, <1>4 DEF Finish, kernel
  <2> QED
    BY <1>0, <2>1, <2>2 DEF OneExecuting, ScanInv, CreateInv, Creating, CleanInv, NoRestartInv
<1>5. CASE CleanNoProcess
  BY <1>0, <1>5 DEF CleanNoProcess, CleanInv
<1>6. CASE IdleLoop
  BY <1>0, <1>6 DEF IdleLoop, table, kernel, OneExecuting, ScanInv,
     CreateInv, Creating, CleanInv, NoRestartInv
<1>7. CASE StopLoop
  <2>1. worker'.pc = "stopped"
    BY <1>0, <1>7 DEF StopLoop, TypeOK
  <2> QED
    BY <1>0, <1>7, <2>1 DEF StopLoop, table, kernel, OneExecuting, ScanInv,
       CreateInv, Creating, CleanInv, NoRestartInv
<1>8. CASE TickWake
  <2>1. /\ worker'.pc = "save" /\ UNCHANGED <<currentActiveProcess, console>>
    BY <1>0, <1>8 DEF TickWake, TypeOK, kernel
  <2>2. \A s \in Slots : \/ state'[s] = state[s]
                         \/ state[s] \in {"BLOCKED", "BLOCKED_IO"} /\ state'[s] = "READY"
    BY <1>0, <1>8 DEF TickWake, SleptEnough, Asleep, MonitorAwaited
  <2> QED
    BY <1>0, <2>1, <2>2 DEF OneExecuting, ScanInv, CreateInv, Creating, CleanInv, NoRestartInv
<1>9. CASE TickSave
  <2>1. /\ worker'.pc = "scan" /\ UNCHANGED <<currentActiveProcess, console>>
    BY <1>0, <1>9 DEF TickSave, kernel
  <2>2. \A s \in Slots : /\ state'[s] # "EXECUTING"
                         /\ state[s] # "EXECUTING" => state'[s] = state[s]
    BY <1>0, <1>9, NoSlotIsNone DEF TickSave, Outgoing, OneExecuting
  <2> QED
    BY <1>0, <2>1, <2>2 DEF OneExecuting, ScanInv, CreateInv, Creating, CleanInv, NoRestartInv
<1>10. CASE TickScan
  <2>1. checkIndex \in Slots
    BY <1>0, checkIndexType
  <2>2. UNCHANGED <<state, currentActiveProcess, console>>
    BY <1>10 DEF TickScan, table, kernel
  <2>3. CASE state[checkIndex] = "READY"
    <3>1. worker'.pc = "dispatch" /\ worker'.i = checkIndex
      BY <1>10, <2>3 DEF TickScan
    <3> QED
      BY <1>0, <1>10, <2>1, <2>2, <2>3, <3>1 DEF TickScan, OneExecuting, ScanInv,
         CreateInv, Creating, CleanInv, NoRestartInv
  <2>4. CASE state[checkIndex] # "READY"
    <3>1. worker'.pc = "scan"
      BY <1>0, <1>10, <2>4 DEF TickScan, TypeOK
    <3> QED
      BY <1>0, <1>10, <2>2, <3>1 DEF TickScan, OneExecuting, ScanInv,
         CreateInv, Creating, CleanInv, NoRestartInv
  <2> QED
    BY <2>3, <2>4
<1>11. CASE TickDispatch
  <2>1. worker.i \in Slots /\ state[worker.i] = "READY" /\ \A s \in Slots : state[s] # "EXECUTING"
    BY <1>0, <1>11 DEF TickDispatch, ScanInv
  <2>2. /\ worker'.pc = "loop" /\ currentActiveProcess' = worker.i /\ UNCHANGED console
        /\ \A s \in Slots : state'[s] = IF s = worker.i THEN "EXECUTING" ELSE state[s]
    BY <1>0, <1>11 DEF TickDispatch
  <2> QED
    BY <1>0, <2>1, <2>2 DEF OneExecuting, ScanInv, CreateInv, Creating, CleanInv, NoRestartInv
<1>12. CASE TickNoReady
  BY <1>0, <1>12 DEF TickNoReady, table, OneExecuting, ScanInv,
     CreateInv, Creating, CleanInv, NoRestartInv
<1> QED
  BY <1>1, <1>2, <1>3, <1>4, <1>5, <1>6, <1>7, <1>8, <1>9, <1>10, <1>11, <1>12
     DEF cpuThreadWorker, schedulerTick

(* The console thread's steps. *)
LEMMA ConsoleExec ==
  ASSUME NoRestart, ExecInv,
         \/ ReservePCB \/ createProcess \/ OpenMonitor \/ CloseMonitor
         \/ RestartCPU \/ handleRestartCommand \/ Shutdown \/ Join
  PROVE  OneExecuting' /\ ScanInv' /\ CreateInv' /\ CleanInv' /\ NoRestartInv'
<1>0. /\ TypeOK /\ OneExecuting /\ ScanInv /\ CreateInv /\ CleanInv /\ NoRestartInv
      /\ state \in [Slots -> ProcessState]
  BY DEF ExecInv, TypeOK
<1>1. CASE RestartCPU \/ handleRestartCommand
  BY <1>0, <1>1 DEF NoRestart, RestartCPU, handleRestartCommand, RestartMemory, RestartTable,
     RestartActive, NoRestartInv
<1>2. CASE ReservePCB
  <2>1. PICK s \in Slots : /\ getFreePCBIndex(s)
                           /\ state' = [state EXCEPT ![s] = "NEW"]
                           /\ console' = [Prompt EXCEPT !.pc = "reserved", !.slot = s]
    BY <1>2 DEF ReservePCB
  <2>2. /\ state[s] = "FINISHED"
        /\ \A t \in Slots : state'[t] = IF t = s THEN "NEW" ELSE state[t]
        /\ console'.pc = "reserved" /\ console'.slot = s
        /\ UNCHANGED <<worker, currentActiveProcess>>
    BY <1>0, <1>2, <2>1 DEF getFreePCBIndex, ReservePCB, Prompt, kernel
  <2> QED
    BY <1>0, <2>1, <2>2, CurrentIsSlot DEF OneExecuting, ScanInv, CreateInv, Creating, CleanInv, NoRestartInv
<1>3. ASSUME GiveUp, Creating, UNCHANGED <<worker, currentActiveProcess>>
      PROVE  OneExecuting' /\ ScanInv' /\ CreateInv' /\ CleanInv' /\ NoRestartInv'
  <2>1. /\ console.slot \in Slots /\ state[console.slot] = "NEW"
        /\ \A t \in Slots : state'[t] = IF t = console.slot THEN "FINISHED" ELSE state[t]
        /\ console'.pc = "prompt"
    BY <1>0, <1>3 DEF GiveUp, CreateInv, Prompt
  <2> QED
    BY <1>0, <1>3, <2>1, CurrentIsSlot DEF OneExecuting, ScanInv, CreateInv, Creating, CleanInv, NoRestartInv
<1>4. ASSUME UNCHANGED <<state, worker, currentActiveProcess>>,
             \/ console'.pc \in {"monitor", "join", "down", "prompt"}
             \/ Creating /\ Creating' /\ console'.slot = console.slot
      PROVE  OneExecuting' /\ ScanInv' /\ CreateInv' /\ CleanInv' /\ NoRestartInv'
  BY <1>0, <1>4 DEF OneExecuting, ScanInv, CreateInv, Creating, CleanInv, NoRestartInv
<1>5. CASE VerifyFile
  <2>1. ASSUME NEW w \in WordCounts, console' = [console EXCEPT !.pc = "verified", !.words = w],
               UNCHANGED state
        PROVE  OneExecuting' /\ ScanInv' /\ CreateInv' /\ CleanInv' /\ NoRestartInv'
    <3>1. console'.pc = "verified" /\ console'.slot = console.slot
      BY <1>0, <2>1 DEF TypeOK
    <3> QED
      BY <1>4, <1>5, <2>1, <3>1 DEF VerifyFile, Creating, kernel
  <2> QED
    BY <1>3, <1>5, <2>1 DEF VerifyFile, Creating, kernel
<1>6. CASE Allocate
  <2>1. CASE GiveUp
    BY <1>3, <1>6, <2>1 DEF Allocate, Creating
  <2>2. CASE UNCHANGED state /\ console'.pc = "allocated" /\ console'.slot = console.slot
    BY <1>4, <1>6, <2>2 DEF Allocate, Creating
  <2> QED
    BY <1>0, <1>6, <2>1, <2>2 DEF Allocate, TypeOK, ConsoleState
<1>7. CASE FillPCB
  <2>1. console'.pc = "filled" /\ console'.slot = console.slot
    BY <1>0, <1>7 DEF FillPCB, TypeOK
  <2> QED
    BY <1>4, <1>7, <2>1 DEF FillPCB, Creating
<1>8. CASE MakeReady
  <2>1. /\ console.slot \in Slots /\ state[console.slot] = "NEW"
        /\ \A t \in Slots : state'[t] = IF t = console.slot THEN "READY" ELSE state[t]
        /\ console'.pc = "prompt" /\ UNCHANGED <<worker, currentActiveProcess>>
    BY <1>0, <1>8 DEF MakeReady, CreateInv, Creating, Prompt, kernel
  <2> QED
    BY <1>0, <2>1, CurrentIsSlot DEF OneExecuting, ScanInv, CreateInv, Creating, CleanInv, NoRestartInv
<1>9. CASE OpenMonitor \/ CloseMonitor \/ Shutdown \/ Join
  <2>1. console'.pc \in {"monitor", "join", "down", "prompt"}
    BY <1>0, <1>9 DEF OpenMonitor, CloseMonitor, Shutdown, Join, Prompt, TypeOK, ConsoleState
  <2> QED
    <3>1. UNCHANGED <<state, worker, currentActiveProcess>>
      BY <1>9 DEF OpenMonitor, CloseMonitor, Shutdown, Join, table, kernel
    <3> QED
      BY <1>4, <2>1, <3>1
<1> QED
  BY <1>1, <1>2, <1>5, <1>6, <1>7, <1>8, <1>9 DEF createProcess

LEMMA ExecStep == NoRestart => (ExecInv /\ DispatchInv /\ [Next]_vars => ExecInv' /\ DispatchInv')
<1> SUFFICES ASSUME NoRestart, ExecInv, DispatchInv, [Next]_vars PROVE ExecInv' /\ DispatchInv'
  OBVIOUS
<1>1. TypeOK' /\ DispatchInv'
  BY TypeStep, DispatchStep DEF ExecInv
<1>2. CASE Next
  BY <1>1, <1>2, WorkerExec, ConsoleExec DEF Next, ExecInv
<1>3. CASE UNCHANGED vars
  <2>1. UNCHANGED <<state, currentActiveProcess, worker, console>>
    BY <1>3 DEF vars, table, kernel
  <2> QED
    BY <1>1, <2>1 DEF ExecInv, OneExecuting, ScanInv, CreateInv, Creating, CleanInv, NoRestartInv
<1> QED
  BY <1>2, <1>3

(* Never two processes EXECUTING, and the CPU runs no other process: the   *)
(* main promise of the round robin, whatever the console thread is doing.  *)
THEOREM Exclusion == NoRestart => (Spec => []OneExecuting)
<1> SUFFICES ASSUME NoRestart PROVE Spec => []OneExecuting
  OBVIOUS
<1>1. Init => ExecInv /\ DispatchInv
  BY InitExec DEF Init, DispatchInv
<1>2. ExecInv /\ DispatchInv /\ [Next]_vars => ExecInv' /\ DispatchInv'
  BY ExecStep
<1>3. ExecInv => OneExecuting
  BY DEF ExecInv
<1> QED
  BY <1>1, <1>2, <1>3, PTL DEF Spec
-----------------------------------------------------------------------------
(*              Partitions: what the bitmap says and who holds what        *)

Holding == console.pc \in {"allocated", "filled"}

(* What makes PartitionsExactlyOwned inductive: runs are not empty and end *)
(* inside the user RAM, and createProcess's locals are what it writes into *)
(* the entry.                                                              *)
RunsInv ==
  /\ \A s \in Live : blockCount[s] # 0 /\ startBlock[s] + blockCount[s] <= MAX_PROCESSES
  /\ Holding => console.blocks # 0 /\ console.start + console.blocks <= MAX_PROCESSES
  /\ console.pc = "filled" => /\ startBlock[console.slot] = console.start
                              /\ blockCount[console.slot] = console.blocks

PartInv == PartitionsExactlyOwned /\ RunsInv

(* Owned, element by element. *)
LEMMA OwnedMembers ==
  ASSUME NEW s \in Slots, NEW b
  PROVE  b \in Owned(s) <=>
           \/ /\ s \in Live /\ b \in Run(startBlock[s], blockCount[s])
              /\ worker.pc = "clean" /\ s = currentActiveProcess => b >= startBlock[s] + worker.i
           \/ /\ state[s] = "NEW" /\ s = console.slot /\ Holding
              /\ b \in Run(console.start, console.blocks)
BY DEF Owned, Holding, Live

LEMMA OwnedMembersNext ==
  ASSUME NEW s \in Slots, NEW b
  PROVE  b \in Owned(s)' <=>
           \/ /\ s \in Live' /\ b \in Run(startBlock'[s], blockCount'[s])
              /\ worker'.pc = "clean" /\ s = currentActiveProcess' => b >= startBlock'[s] + worker'.i
           \/ /\ state'[s] = "NEW" /\ s = console'.slot /\ Holding'
              /\ b \in Run(console'.start, console'.blocks)
BY DEF Owned, Holding, Live

(* The steps of ProcessManager that change nobody's partitions.            *)
SameHolds == \A s \in Slots : Owned(s)' = Owned(s)

ManagerStep == [Manager!Next]_(Manager!pvars)

LEMMA SameHoldsMeans ==
  ASSUME \A s \in Slots : \A b : b \in Owned(s)' <=> b \in Owned(s)
  PROVE  SameHolds
<1> SUFFICES ASSUME NEW s \in Slots PROVE Owned(s)' = Owned(s)
  BY DEF SameHolds
<1>1. \A b : b \in Owned(s)' <=> b \in Owned(s)
  OBVIOUS
<1> QED
  BY <1>1

LEMMA ManagerStays ==
  ASSUME SameHolds, UNCHANGED state
  PROVE  ManagerStep
BY DEF ManagerStep, SameHolds, Manager!pvars

LEMMA ManagerMove ==
  ASSUME SameHolds, NEW e \in Slots, NEW to, state' = [state EXCEPT ![e] = to],
         \/ state[e] = "FINISHED" /\ to = "NEW"
         \/ state[e] = "NEW" /\ to = "FINISHED" /\ Owned(e) = {}
         \/ state[e] = "NEW" /\ to = "READY" /\ Owned(e) # {}
         \/ state[e] = "READY" /\ to = "EXECUTING" /\ \A f \in Slots : state[f] # "EXECUTING"
         \/ state[e] = "EXECUTING" /\ to \in {"READY", "BLOCKED", "BLOCKED_IO"}
         \/ state[e] = "EXECUTING" /\ to = "FINISHED" /\ Owned(e) = {}
  PROVE  ManagerStep
<1>1. UNCHANGED [s \in Slots |-> Owned(s)]
  BY DEF SameHolds
<1>2. \/ Manager!Reserve(e) \/ Manager!Abandon(e) \/ Manager!Start(e) \/ Manager!Dispatch(e)
      \/ Manager!Preempt(e) \/ Manager!Wait(e) \/ Manager!Finish(e)
  BY <1>1 DEF Manager!Reserve, Manager!Abandon, Manager!Start, Manager!Dispatch, Manager!Preempt,
              Manager!Wait, Manager!Finish, Manager!Move
<1> QED
  BY <1>2 DEF ManagerStep, Manager!Next

LEMMA ManagerWakeUp ==
  ASSUME SameHolds, NEW awake \in SUBSET Slots,
         \A e \in awake : state[e] \in {"BLOCKED", "BLOCKED_IO"},
         state' = [e \in Slots |-> IF e \in awake THEN "READY" ELSE state[e]]
  PROVE  ManagerStep
<1>1. UNCHANGED [s \in Slots |-> Owned(s)]
  BY DEF SameHolds
<1>2. Manager!WakeUp(awake)
  BY <1>1 DEF Manager!WakeUp
<1> QED
  BY <1>2 DEF ManagerStep, Manager!Next

(* A step that changes neither the bitmap nor what anybody holds. *)
LEMMA OwnedFrame ==
  ASSUME PartitionsExactlyOwned, UNCHANGED FREE_PARTITIONS,
         \A s \in Slots : \A b : b \in Owned(s)' <=> b \in Owned(s)
  PROVE  PartitionsExactlyOwned'
<1>1. \A b \in Blocks : ~FREE_PARTITIONS'[b] <=> \E s \in Slots : b \in Owned(s)'
  BY DEF PartitionsExactlyOwned
<1>2. \A s, t \in Slots : s # t => Owned(s)' \cap Owned(t)' = {}
  BY DEF PartitionsExactlyOwned
<1> QED
  BY <1>1, <1>2 DEF PartitionsExactlyOwned

(* The steps of the CPU thread that free nothing. *)
LEMMA WorkerFrame ==
  ASSUME TypeOK, PartInv,
         UNCHANGED <<startBlock, blockCount, console, FREE_PARTITIONS>>,
         \A s \in Slots : state'[s] = "NEW" <=> state[s] = "NEW",
         \A s \in Slots : s \in Live' <=> s \in Live,
         worker.pc # "clean", worker'.pc = "clean" => worker'.i = 0
  PROVE  PartInv' /\ SameHolds
<1>1. \A s \in Slots : \A b : b \in Owned(s)' <=> b \in Owned(s)
  <2> SUFFICES ASSUME NEW s \in Slots, NEW b PROVE b \in Owned(s)' <=> b \in Owned(s)
    OBVIOUS
  <2>1. startBlock[s] \in Int /\ blockCount[s] \in Int
    BY GeometryAssumption DEF TypeOK, Blocks
  <2>2. b \in Run(startBlock[s], blockCount[s]) => b >= startBlock[s]
    BY <2>1 DEF Run
  <2>3. Holding' <=> Holding
    BY DEF Holding
  <2> QED
    BY <2>1, <2>2, <2>3, OwnedMembers, OwnedMembersNext
<1>2. PartitionsExactlyOwned'
  BY <1>1, OwnedFrame DEF PartInv
<1>3. RunsInv'
  BY DEF PartInv, RunsInv, Holding, Live
<1> QED
  BY <1>1, <1>2, <1>3, SameHoldsMeans DEF PartInv

LEMMA LiveStates ==
  ASSUME NEW s \in Slots
  PROVE  /\ s \in Live <=> state[s] \in {"READY", "EXECUTING", "BLOCKED", "BLOCKED_IO"}
         /\ s \in Live' <=> state'[s] \in {"READY", "EXECUTING", "BLOCKED", "BLOCKED_IO"}
BY DEF Live

(* freeMemory gives one partition of the current process back, and it is   *)
(* one the process still held.                                             *)
LEMMA FreePartitionFrees ==
  ASSUME ExecInv, PartInv, FreePartition
  PROVE  \E c \in Slots, f \in Blocks :
           /\ c = currentActiveProcess /\ state[c] = "EXECUTING" /\ f \in Owned(c)
           /\ FREE_PARTITIONS' = [FREE_PARTITIONS EXCEPT ![f] = TRUE]
           /\ worker.pc = "clean" /\ worker'.pc = "clean"
           /\ UNCHANGED <<state, startBlock, blockCount, currentActiveProcess, console>>
           /\ \A b : b \in Owned(c)' <=> b \in Owned(c) /\ b # f
           /\ \A s \in Slots : s # c => \A b : b \in Owned(s)' <=> b \in Owned(s)
<1>1. TypeOK /\ OneExecuting /\ state \in [Slots -> ProcessState]
  BY DEF ExecInv, TypeOK
<1>2. PICK c \in Slots : c = currentActiveProcess
  BY <1>1, CurrentIsSlot DEF FreePartition
<1>3. c \in Live /\ c # NoSlot /\ state[c] # "NEW" /\ worker.pc = "clean"
  BY <1>1, <1>2, LiveStates DEF FreePartition, OneExecuting
<1>4. /\ startBlock[c] \in Nat /\ blockCount[c] \in Nat /\ worker.i \in Nat
      /\ worker.i < blockCount[c] /\ startBlock[c] + blockCount[c] <= MAX_PROCESSES
  BY <1>1, <1>2, <1>3, GeometryAssumption
     DEF FreePartition, TypeOK, WorkerState, Blocks, PartInv, RunsInv
<1>5. PICK f \in Int : f = startBlock[c] + worker.i
  BY <1>4
<1>6. f \in Blocks /\ f \in Run(startBlock[c], blockCount[c])
  BY <1>4, <1>5, GeometryAssumption DEF Blocks, Run
<1>7. /\ FREE_PARTITIONS' = [FREE_PARTITIONS EXCEPT ![f] = TRUE]
      /\ worker'.pc = "clean" /\ worker'.i = worker.i + 1
      /\ UNCHANGED <<state, startBlock, blockCount, currentActiveProcess, console>>
  BY <1>1, <1>2, <1>5 DEF FreePartition, FreedPartition, TypeOK, table
<1>8. f \in Owned(c)
  BY <1>2, <1>3, <1>4, <1>6, <1>5, OwnedMembers
<1>9. \A b : b \in Owned(c)' <=> b \in Owned(c) /\ b # f
  <2> SUFFICES ASSUME NEW b PROVE b \in Owned(c)' <=> b \in Owned(c) /\ b # f
    OBVIOUS
  <2>1. b \in Owned(c) <=> b \in Run(startBlock[c], blockCount[c]) /\ b >= f
    BY <1>2, <1>3, <1>5, OwnedMembers
  <2>2. b \in Owned(c)' <=> b \in Run(startBlock[c], blockCount[c]) /\ b >= f + 1
    BY <1>2, <1>3, <1>4, <1>7, <1>5, OwnedMembersNext, LiveStates
  <2>3. b \in Run(startBlock[c], blockCount[c]) => b \in Int
    BY <1>4 DEF Run
  <2> QED
    BY <1>4, <2>1, <2>2, <2>3
<1>10. \A s \in Slots : s # c => \A b : b \in Owned(s)' <=> b \in Owned(s)
  <2> SUFFICES ASSUME NEW s \in Slots, s # c, NEW b PROVE b \in Owned(s)' <=> b \in Owned(s)
    OBVIOUS
  <2>1. Holding' <=> Holding
    BY <1>7 DEF Holding
  <2> QED
    BY <1>2, <1>7, <2>1, OwnedMembers, OwnedMembersNext, LiveStates
<1>11. state[c] = "EXECUTING"
  BY <1>1, <1>2, <1>3 DEF OneExecuting
<1> QED
  BY <1>2, <1>3, <1>6, <1>7, <1>8, <1>9, <1>10, <1>11

LEMMA WorkerPart ==
  ASSUME ExecInv, PartInv, cpuThreadWorker
  PROVE  PartInv' /\ ManagerStep
<1>0. /\ TypeOK /\ OneExecuting /\ ScanInv /\ CreateInv /\ CleanInv
      /\ state \in [Slots -> ProcessState]
  BY DEF ExecInv, TypeOK
<1>1. ASSUME NEW ins \in NextInstructions, cpuStep(ins) PROVE PartInv' /\ ManagerStep
  <2>1. /\ Running
        /\ NothingBlocked \/ CurrentBlocked
        /\ UNCHANGED <<startBlock, blockCount, currentActiveProcess, console, FREE_PARTITIONS>>
    BY <1>1, cpuStepOutcome DEF kernel
  <2>2. /\ currentActiveProcess \in Slots /\ state[currentActiveProcess] = "EXECUTING"
        /\ worker.pc = "loop"
    BY <1>0, <2>1, CurrentIsSlot DEF Running, OneExecuting
  <2>3. /\ worker'.i = 0
        /\ \A s \in Slots : \/ state'[s] = state[s]
                            \/ s = currentActiveProcess /\ state'[s] \in {"BLOCKED", "BLOCKED_IO"}
    BY <1>0, <2>1, <2>2 DEF NothingBlocked, CurrentBlocked, WorkerAt
  <2>4. PartInv' /\ SameHolds
    BY <1>0, <2>1, <2>2, <2>3, LiveStates, WorkerFrame
  <2>5. CASE NothingBlocked
    BY <2>4, <2>5, ManagerStays DEF NothingBlocked
  <2>6. CASE CurrentBlocked
    <3>1. PICK to \in {"BLOCKED", "BLOCKED_IO"} : state' = [state EXCEPT ![currentActiveProcess] = to]
      BY <2>6 DEF CurrentBlocked
    <3> QED
      BY <2>2, <2>4, <3>1, ManagerMove
  <2> QED
    BY <2>1, <2>4, <2>5, <2>6
<1>2. CASE FetchFails
  <2>1. /\ UNCHANGED <<state, startBlock, blockCount, console, FREE_PARTITIONS>>
        /\ worker.pc # "clean" /\ worker'.i = 0
    BY <1>2 DEF FetchFails, Running, AfterStep, table, kernel
  <2> QED
    BY <1>0, <2>1, LiveStates, WorkerFrame, ManagerStays
<1>3. CASE FreePartition
  <2>1. PICK c \in Slots, f \in Blocks :
          /\ c = currentActiveProcess /\ state[c] = "EXECUTING" /\ f \in Owned(c)
          /\ FREE_PARTITIONS' = [FREE_PARTITIONS EXCEPT ![f] = TRUE]
          /\ worker.pc = "clean" /\ worker'.pc = "clean"
          /\ UNCHANGED <<state, startBlock, blockCount, currentActiveProcess, console>>
          /\ \A b : b \in Owned(c)' <=> b \in Owned(c) /\ b # f
          /\ \A s \in Slots : s # c => \A b : b \in Owned(s)' <=> b \in Owned(s)
    BY <1>3, FreePartitionFrees
  <2>2. FREE_PARTITIONS \in [Blocks -> BOOLEAN]
    BY <1>0 DEF TypeOK
  <2>3. \A b \in Blocks : ~FREE_PARTITIONS'[b] <=> \E s \in Slots : b \in Owned(s)'
    <3> SUFFICES ASSUME NEW b \in Blocks
                 PROVE  ~FREE_PARTITIONS'[b] <=> \E s \in Slots : b \in Owned(s)'
      OBVIOUS
    <3>1. ~FREE_PARTITIONS[b] <=> \E s \in Slots : b \in Owned(s)
      BY DEF PartInv, PartitionsExactlyOwned
    <3>2. CASE b = f
      <4>1. \A s \in Slots : s # c => b \notin Owned(s)
        BY <2>1, <3>2 DEF PartInv, PartitionsExactlyOwned
      <4>2. FREE_PARTITIONS'[b]
        BY <2>1, <2>2, <3>2
      <4> QED
        BY <2>1, <3>2, <4>1, <4>2
    <3>3. CASE b # f
      <4>1. FREE_PARTITIONS'[b] <=> FREE_PARTITIONS[b]
        BY <2>1, <2>2, <3>3
      <4> QED
        BY <2>1, <3>1, <3>3, <4>1
    <3> QED
      BY <3>2, <3>3
  <2>4. \A s, t \in Slots : s # t => Owned(s)' \cap Owned(t)' = {}
    <3>1. \A s \in Slots : \A b : b \in Owned(s)' => b \in Owned(s)
      BY <2>1
    <3> QED
      BY <3>1 DEF PartInv, PartitionsExactlyOwned
  <2>5. RunsInv'
    BY <2>1 DEF PartInv, RunsInv, Holding, Live
  <2>6. ManagerStep
    <3>1. Owned(c)' = Owned(c) \ {f}
      BY <2>1
    <3>2. \A s \in Slots : s # c => Owned(s)' = Owned(s)
      BY <2>1
    <3>3. [s \in Slots |-> Owned(s)]' = [[s \in Slots |-> Owned(s)] EXCEPT ![c] = @ \ {f}]
      BY <3>1, <3>2
    <3>4. Manager!GiveBack(c, f)
      BY <2>1, <3>3 DEF Manager!GiveBack
    <3> QED
      BY <3>4 DEF ManagerStep, Manager!Next
  <2> QED
    BY <2>3, <2>4, <2>5, <2>6 DEF PartInv, PartitionsExactlyOwned
<1>4. CASE Finish
  <2>0. PICK c \in Slots : c = currentActiveProcess
    BY <1>0, <1>4, CurrentIsSlot DEF Finish
  <2>1. c \in Live /\ c # NoSlot /\ state[c] = "EXECUTING" /\ worker.pc = "clean"
    BY <1>0, <1>4, <2>0, LiveStates DEF Finish, OneExecuting
  <2>2. /\ startBlock[c] \in Nat /\ blockCount[c] \in Nat /\ worker.i \in Nat
        /\ worker.i >= blockCount[c]
    BY <1>0, <1>4, <2>0, <2>1, GeometryAssumption DEF Finish, TypeOK, WorkerState, Blocks
  <2>3. /\ \A s \in Slots : state'[s] = IF s = c THEN "FINISHED" ELSE state[s]
        /\ worker'.pc = "wake"
        /\ UNCHANGED <<startBlock, blockCount, FREE_PARTITIONS, console, currentActiveProcess>>
    BY <1>0, <1>4, <2>0 DEF Finish, kernel
  <2>6. Owned(c) = {}
    <3> SUFFICES ASSUME NEW b PROVE b \notin Owned(c)
      OBVIOUS
    <3>1. b \in Run(startBlock[c], blockCount[c]) => b \in Int /\ b < startBlock[c] + blockCount[c]
      BY <2>2 DEF Run
    <3> QED
      BY <2>0, <2>1, <2>2, <3>1, OwnedMembers
  <2>4. \A s \in Slots : \A b : b \in Owned(s)' <=> b \in Owned(s)
    <3> SUFFICES ASSUME NEW s \in Slots, NEW b PROVE b \in Owned(s)' <=> b \in Owned(s)
      OBVIOUS
    <3>1. CASE s = c
      <4>1. b \notin Owned(s)
        BY <2>6, <3>1
      <4>2. b \notin Owned(s)'
        BY <2>3, <3>1, OwnedMembersNext, LiveStates
      <4> QED
        BY <4>1, <4>2
    <3>2. CASE s # c
      <4>1. Holding' <=> Holding
        BY <2>3 DEF Holding
      <4> QED
        BY <2>0, <2>3, <3>2, <4>1, OwnedMembers, OwnedMembersNext, LiveStates
    <3> QED
      BY <3>1, <3>2
  <2>5. RunsInv'
    BY <2>3 DEF PartInv, RunsInv, Holding, Live
  <2>7. ManagerStep
    <3>1. state' = [state EXCEPT ![c] = "FINISHED"]
      BY <1>4, <2>0 DEF Finish
    <3> QED
      BY <2>1, <2>4, <2>6, <3>1, SameHoldsMeans, ManagerMove
  <2> QED
    BY <2>3, <2>4, <2>5, <2>7, OwnedFrame DEF PartInv
<1>5. CASE CleanNoProcess
  BY <1>0, <1>5 DEF CleanNoProcess, CleanInv
<1>6. CASE IdleLoop \/ StopLoop \/ TickScan \/ TickNoReady
  <2>1. /\ UNCHANGED <<state, startBlock, blockCount, console, FREE_PARTITIONS>>
        /\ worker.pc # "clean" /\ worker'.pc # "clean"
    BY <1>0, <1>6 DEF IdleLoop, StopLoop, TickScan, TickNoReady, table, kernel, TypeOK, WorkerState
  <2> QED
    BY <1>0, <2>1, LiveStates, WorkerFrame, ManagerStays
<1>7. CASE TickWake
  <2>1. /\ UNCHANGED <<startBlock, blockCount, console, FREE_PARTITIONS>>
        /\ worker.pc # "clean" /\ worker'.pc # "clean"
    BY <1>0, <1>7 DEF TickWake, kernel, TypeOK
  <2>2. \A s \in Slots : \/ state'[s] = state[s]
                         \/ state[s] \in {"BLOCKED", "BLOCKED_IO"} /\ state'[s] = "READY"
    BY <1>0, <1>7 DEF TickWake, SleptEnough, Asleep, MonitorAwaited
  <2>3. PartInv' /\ SameHolds
    BY <1>0, <2>1, <2>2, LiveStates, WorkerFrame
  <2> DEFINE awake == {s \in Slots : SleptEnough(s) \/ MonitorAwaited(s)}
  <2>4. /\ state' = [s \in Slots |-> IF s \in awake THEN "READY" ELSE state[s]]
        /\ awake \in SUBSET Slots
    BY <1>7 DEF TickWake
  <2>5. \A s \in awake : state[s] \in {"BLOCKED", "BLOCKED_IO"}
    BY DEF SleptEnough, Asleep, MonitorAwaited
  <2> HIDE DEF awake
  <2> QED
    BY <2>3, <2>4, <2>5, ManagerWakeUp
<1>8. CASE TickSave
  <2>1. /\ UNCHANGED <<startBlock, blockCount, console, FREE_PARTITIONS>>
        /\ worker.pc # "clean" /\ worker'.pc # "clean"
    BY <1>8 DEF TickSave, kernel
  <2>2. \A s \in Slots : \/ state'[s] = state[s]
                         \/ state[s] = "EXECUTING" /\ state'[s] = "READY"
    BY <1>0, <1>8 DEF TickSave, Outgoing
  <2>3. PartInv' /\ SameHolds
    BY <1>0, <2>1, <2>2, LiveStates, WorkerFrame
  <2>4. CASE UNCHANGED state
    BY <2>3, <2>4, ManagerStays
  <2>5. CASE state' # state
    <3>1. /\ currentActiveProcess \in Slots
          /\ state' = [state EXCEPT ![currentActiveProcess] = Outgoing(state[currentActiveProcess])]
      BY <1>0, <1>8, <2>5, CurrentIsSlot DEF TickSave
    <3>2. state[currentActiveProcess] = "EXECUTING"
      BY <1>0, <2>5, <3>1 DEF Outgoing
    <3> QED
      BY <2>3, <3>1, <3>2, ManagerMove DEF Outgoing
  <2> QED
    BY <2>3, <2>4, <2>5
<1>9. CASE TickDispatch
  <2>1. /\ UNCHANGED <<startBlock, blockCount, console, FREE_PARTITIONS>>
        /\ worker.pc # "clean" /\ worker'.pc # "clean"
    BY <1>9 DEF TickDispatch
  <2>2. \A s \in Slots : \/ state'[s] = state[s]
                         \/ state[s] = "READY" /\ state'[s] = "EXECUTING"
    BY <1>0, <1>9 DEF TickDispatch, ScanInv
  <2>3. PartInv' /\ SameHolds
    BY <1>0, <2>1, <2>2, LiveStates, WorkerFrame
  <2>4. /\ worker.i \in Slots /\ state[worker.i] = "READY" /\ \A s \in Slots : state[s] # "EXECUTING"
        /\ state' = [state EXCEPT ![worker.i] = "EXECUTING"]
    BY <1>0, <1>9 DEF TickDispatch, ScanInv
  <2> QED
    BY <2>3, <2>4, ManagerMove
<1> QED
  BY <1>1, <1>2, <1>3, <1>4, <1>5, <1>6, <1>7, <1>8, <1>9 DEF cpuThreadWorker, schedulerTick

(* The console's steps in which it neither holds nor gets partitions. *)
LEMMA NotHoldingFrame ==
  ASSUME PartInv, ~Holding, ~Holding', console'.pc # "filled",
         UNCHANGED <<startBlock, blockCount, worker, currentActiveProcess, FREE_PARTITIONS>>,
         \A s \in Slots : s \in Live' <=> s \in Live
  PROVE  PartInv' /\ SameHolds
<1>1. \A s \in Slots : \A b : b \in Owned(s)' <=> b \in Owned(s)
  BY OwnedMembers, OwnedMembersNext
<1>2. RunsInv'
  BY DEF PartInv, RunsInv, Live
<1> QED
  BY <1>1, <1>2, OwnedFrame, SameHoldsMeans DEF PartInv

LEMMA ConsolePart ==
  ASSUME NoRestart, ExecInv, PartInv,
         \/ ReservePCB \/ createProcess \/ OpenMonitor \/ CloseMonitor
         \/ RestartCPU \/ handleRestartCommand \/ Shutdown \/ Join
  PROVE  PartInv' /\ ManagerStep
<1>0. /\ TypeOK /\ OneExecuting /\ CreateInv /\ CleanInv /\ NoRestartInv
      /\ state \in [Slots -> ProcessState]
  BY DEF ExecInv, TypeOK
<1>1. CASE RestartCPU \/ handleRestartCommand
  BY <1>0, <1>1 DEF NoRestart, RestartCPU, handleRestartCommand, RestartMemory, RestartTable,
     RestartActive, NoRestartInv
<1>2. CASE ReservePCB
  <2>1. PICK s \in Slots : /\ getFreePCBIndex(s)
                           /\ state' = [state EXCEPT ![s] = "NEW"]
                           /\ console' = [Prompt EXCEPT !.pc = "reserved", !.slot = s]
    BY <1>2 DEF ReservePCB
  <2>2. state[s] = "FINISHED" /\ \A t \in Slots : state'[t] = IF t = s THEN "NEW" ELSE state[t]
    BY <1>0, <2>1 DEF getFreePCBIndex
  <2>3. console.pc = "prompt" /\ console'.pc = "reserved"
    BY <1>2, <2>1 DEF ReservePCB, Prompt
  <2>4. UNCHANGED <<startBlock, blockCount, worker, currentActiveProcess, FREE_PARTITIONS>>
    BY <1>2 DEF ReservePCB, kernel
  <2>5. PartInv' /\ SameHolds
    BY <2>2, <2>3, <2>4, NotHoldingFrame, LiveStates DEF Holding
  <2> QED
    BY <2>1, <2>2, <2>5, ManagerMove
<1>3. ASSUME GiveUp, Creating, ~Holding,
             UNCHANGED <<startBlock, blockCount, worker, currentActiveProcess, FREE_PARTITIONS>>
      PROVE  PartInv' /\ ManagerStep
  <2>1. /\ console.slot \in Slots /\ state[console.slot] = "NEW"
        /\ \A t \in Slots : state'[t] = IF t = console.slot THEN "FINISHED" ELSE state[t]
        /\ console'.pc = "prompt"
    BY <1>0, <1>3 DEF GiveUp, CreateInv, Prompt
  <2>2. PartInv' /\ SameHolds
    BY <1>3, <2>1, NotHoldingFrame, LiveStates DEF Holding
  <2>3. Owned(console.slot) = {}
    BY <1>3, <2>1 DEF Owned, Live, Holding
  <2> QED
    BY <1>3, <2>1, <2>2, <2>3, ManagerMove DEF GiveUp
<1>4. CASE VerifyFile
  <2>1. /\ UNCHANGED <<startBlock, blockCount, worker, currentActiveProcess, FREE_PARTITIONS>>
        /\ Creating /\ ~Holding
    BY <1>4 DEF VerifyFile, kernel, Creating, Holding
  <2>2. ASSUME NEW w \in WordCounts, console' = [console EXCEPT !.pc = "verified", !.words = w],
               UNCHANGED state
        PROVE  PartInv' /\ ManagerStep
    <3>1. console'.pc = "verified"
      BY <1>0, <2>2 DEF TypeOK
    <3> QED
      BY <2>1, <2>2, <3>1, NotHoldingFrame, LiveStates, ManagerStays DEF Holding
  <2> QED
    BY <1>3, <1>4, <2>1, <2>2 DEF VerifyFile
<1>5. CASE Allocate
  <2>1. PICK required \in 0 .. MAX_PROCESSES :
          \/ GiveUp /\ UNCHANGED FREE_PARTITIONS
          \/ required # 0 /\ \E start \in FreeRuns(FREE_PARTITIONS, required) :
               /\ FREE_PARTITIONS' = [b \in Blocks |->
                    FREE_PARTITIONS[b] /\ b \notin Run(start, required)]
               /\ console' = [console EXCEPT !.pc = "allocated", !.start = start,
                                             !.blocks = required]
               /\ UNCHANGED state
    <3> DEFINE required == CalculateRequiredBlocks(console.words)
    <3>1. required \in 0 .. MAX_PROCESSES
      BY <1>0, RequiredBlocksType DEF TypeOK, ConsoleState
    <3> QED
      BY <1>5, <3>1 DEF Allocate
  <2>2. /\ UNCHANGED <<startBlock, blockCount, worker, currentActiveProcess>>
        /\ console.pc = "verified"
    BY <1>5 DEF Allocate
  <2>3. CASE GiveUp /\ UNCHANGED FREE_PARTITIONS
    BY <1>3, <2>2, <2>3 DEF Creating, Holding
  <2>4. ASSUME NEW start \in FreeRuns(FREE_PARTITIONS, required),
               FREE_PARTITIONS' = [b \in Blocks |->
                 FREE_PARTITIONS[b] /\ b \notin Run(start, required)],
               console' = [console EXCEPT !.pc = "allocated", !.start = start,
                                          !.blocks = required],
               UNCHANGED state, required # 0
        PROVE  PartInv' /\ ManagerStep
    <3>1. /\ start \in Blocks /\ start + required <= MAX_PROCESSES
          /\ \A b \in Run(start, required) : b \in Blocks /\ FREE_PARTITIONS[b]
      BY SomeSlots DEF FreeRuns, Run, Blocks
    <3>2. PICK n \in Slots : n = console.slot /\ state[n] = "NEW"
      BY <1>0, <2>2 DEF CreateInv, Creating
    <3>3. /\ console'.pc = "allocated" /\ console'.start = start /\ console'.blocks = required
          /\ console'.slot = n
      BY <1>0, <2>4, <3>2 DEF TypeOK
    <3>4. \A s \in Slots : \A b :
            b \in Owned(s)' <=> \/ b \in Owned(s)
                                \/ s = n /\ b \in Run(start, required)
      BY <2>2, <2>4, <3>2, <3>3, OwnedMembers, OwnedMembersNext, LiveStates DEF Holding
    <3>5. \A s \in Slots : \A b \in Run(start, required) : b \notin Owned(s)
      BY <3>1 DEF PartInv, PartitionsExactlyOwned
    <3>6. \A b \in Blocks : FREE_PARTITIONS'[b] <=> FREE_PARTITIONS[b] /\ b \notin Run(start, required)
      BY <1>0, <2>4 DEF TypeOK
    <3>7. \A b \in Blocks : ~FREE_PARTITIONS'[b] <=> \E s \in Slots : b \in Owned(s)'
      BY <3>2, <3>4, <3>6 DEF PartInv, PartitionsExactlyOwned
    <3>8. \A s, t \in Slots : s # t => Owned(s)' \cap Owned(t)' = {}
      <4> SUFFICES ASSUME NEW s \in Slots, NEW t \in Slots, s # t,
                          NEW b, b \in Owned(s)', b \in Owned(t)'
                   PROVE  FALSE
        OBVIOUS
      <4>1. ~(b \in Owned(s) /\ b \in Owned(t))
        BY DEF PartInv, PartitionsExactlyOwned
      <4> QED
        BY <3>4, <3>5, <4>1
    <3>9. RunsInv'
      BY <2>2, <2>4, <3>1, <3>3 DEF PartInv, RunsInv, Holding, Live
    <3>10. ManagerStep
      <4> DEFINE parts == Run(start, required)
      <4>1. parts # {} /\ parts \in SUBSET Blocks
        <5>1. start \in parts
          BY <2>4, SomeSlots DEF FreeRuns, Run, Blocks
        <5> QED
          BY <3>1, <5>1
      <4>2. Owned(n) = {}
        BY <2>2, <3>2 DEF Owned, Live, Holding
      <4> HIDE DEF parts
      <4>3. \A s \in Slots : s # n => Owned(s)' = Owned(s)
        BY <3>4
      <4>4. Owned(n)' = parts
        BY <3>2, <3>4, <4>2 DEF parts
      <4>5. [s \in Slots |-> Owned(s)]' = [[s \in Slots |-> Owned(s)] EXCEPT ![n] = parts]
        BY <4>3, <4>4
      <4>6. \A s \in Slots : Owned(s) \cap parts = {}
        BY <3>5 DEF parts
      <4>7. Manager!Admit(n, parts)
        BY <2>4, <3>2, <4>1, <4>2, <4>5, <4>6 DEF Manager!Admit
      <4> QED
        BY <4>1, <4>7 DEF ManagerStep, Manager!Next
    <3> QED
      BY <3>7, <3>8, <3>9, <3>10 DEF PartInv, PartitionsExactlyOwned
  <2> QED
    BY <2>1, <2>3, <2>4
<1>6. CASE FillPCB
  <2>1. PICK n \in Slots : n = console.slot /\ state[n] = "NEW"
    BY <1>0, <1>6 DEF FillPCB, CreateInv, Creating
  <2>2. /\ console.pc = "allocated" /\ console'.pc = "filled"
        /\ console'.slot = n /\ console'.start = console.start /\ console'.blocks = console.blocks
        /\ UNCHANGED <<state, worker, currentActiveProcess, FREE_PARTITIONS>>
    BY <1>0, <1>6, <2>1 DEF FillPCB, TypeOK
  <2>3. \A s \in Slots :
          /\ startBlock'[s] = IF s = n THEN console.start ELSE startBlock[s]
          /\ blockCount'[s] = IF s = n THEN console.blocks ELSE blockCount[s]
    BY <1>0, <1>6, <2>1 DEF FillPCB, TypeOK
  <2>4. n \notin Live
    BY <2>1, LiveStates
  <2>5. \A s \in Slots : \A b : b \in Owned(s)' <=> b \in Owned(s)
    BY <2>1, <2>2, <2>3, <2>4, OwnedMembers, OwnedMembersNext, LiveStates DEF Holding
  <2>6. RunsInv'
    BY <2>1, <2>2, <2>3, <2>4 DEF PartInv, RunsInv, Holding, Live
  <2> QED
    BY <2>2, <2>5, <2>6, OwnedFrame, SameHoldsMeans, ManagerStays DEF PartInv
<1>7. CASE MakeReady
  <2>1. PICK n \in Slots : n = console.slot /\ state[n] = "NEW"
    BY <1>0, <1>7 DEF MakeReady, CreateInv, Creating
  <2>2. /\ console.pc = "filled" /\ console'.pc = "prompt"
        /\ \A s \in Slots : state'[s] = IF s = n THEN "READY" ELSE state[s]
        /\ UNCHANGED <<startBlock, blockCount, worker, currentActiveProcess, FREE_PARTITIONS>>
    BY <1>0, <1>7, <2>1 DEF MakeReady, Prompt, kernel
  <2>3. startBlock[n] = console.start /\ blockCount[n] = console.blocks
        /\ console.start + console.blocks <= MAX_PROCESSES
    BY <2>1, <2>2 DEF PartInv, RunsInv, Holding
  <2>4. worker.pc = "clean" => n # currentActiveProcess
    BY <1>0, <2>1 DEF OneExecuting, CleanInv
  <2>5. \A s \in Slots : \A b : b \in Owned(s)' <=> b \in Owned(s)
    BY <2>1, <2>2, <2>3, <2>4, OwnedMembers, OwnedMembersNext, LiveStates DEF Holding
  <2>6. RunsInv'
    <3>1. \A s \in Slots : s \in Live' => s = n \/ s \in Live
      BY <2>1, <2>2, LiveStates
    <3> QED
      BY <2>1, <2>2, <2>3, <3>1 DEF PartInv, RunsInv, Holding, Live
  <2>7. ManagerStep
    <3>1. console.start \in Run(console.start, console.blocks)
      BY <1>0, <2>2, GeometryAssumption DEF PartInv, RunsInv, Holding, Run, TypeOK, ConsoleState, Blocks
    <3>2. console.start \in Owned(n)
      BY <2>1, <2>2, <3>1, OwnedMembers DEF Holding
    <3>3. state' = [state EXCEPT ![n] = "READY"]
      BY <1>7, <2>1 DEF MakeReady
    <3> QED
      BY <2>1, <2>5, <3>2, <3>3, SameHoldsMeans, ManagerMove
  <2> QED
    BY <2>2, <2>5, <2>6, <2>7, OwnedFrame DEF PartInv
<1>8. CASE OpenMonitor \/ CloseMonitor \/ Shutdown \/ Join
  <2>1. ~Holding /\ ~Holding' /\ console'.pc # "filled"
    BY <1>0, <1>8 DEF OpenMonitor, CloseMonitor, Shutdown, Join, Prompt, TypeOK, ConsoleState, Holding
  <2>2. UNCHANGED <<state, startBlock, blockCount, worker, currentActiveProcess, FREE_PARTITIONS>>
    BY <1>8 DEF OpenMonitor, CloseMonitor, Shutdown, Join, table, kernel
  <2> QED
    BY <2>1, <2>2, NotHoldingFrame, LiveStates, ManagerStays
<1> QED
  BY <1>1, <1>2, <1>4, <1>5, <1>6, <1>7, <1>8 DEF createProcess

LEMMA InitPart == Init => PartInv
<1> SUFFICES ASSUME Init PROVE PartInv
  OBVIOUS
<1>1. ~Holding /\ console.pc # "filled" /\ Live = {}
  BY DEF Init, Prompt, Holding, Live
<1>2. \A s \in Slots : Owned(s) = {}
  BY <1>1 DEF Owned, Holding
<1>3. PartitionsExactlyOwned
  BY <1>2 DEF Init, PartitionsExactlyOwned
<1> QED
  BY <1>1, <1>3 DEF PartInv, RunsInv

LEMMA PartStep == NoRestart => (ExecInv /\ PartInv /\ [Next]_vars => PartInv' /\ ManagerStep)
<1> SUFFICES ASSUME NoRestart, ExecInv, PartInv, [Next]_vars PROVE PartInv' /\ ManagerStep
  OBVIOUS
<1>1. CASE Next
  BY <1>1, WorkerPart, ConsolePart DEF Next
<1>2. CASE UNCHANGED vars
  <2>1. /\ UNCHANGED <<state, startBlock, blockCount>>
        /\ UNCHANGED <<FREE_PARTITIONS, currentActiveProcess, worker, console>>
    BY <1>2 DEF vars, table, kernel
  <2>2. \A s \in Slots : \A b : b \in Owned(s)' <=> b \in Owned(s)
    BY <2>1, OwnedMembers, OwnedMembersNext, LiveStates DEF Holding
  <2>3. RunsInv'
    BY <2>1 DEF PartInv, RunsInv, Holding, Live
  <2> QED
    BY <2>1, <2>2, <2>3, OwnedFrame, SameHoldsMeans, ManagerStays DEF PartInv
<1> QED
  BY <1>1, <1>2

(* Nothing leaks and nothing is shared: the bitmap says free exactly of    *)
(* the partitions no process holds, and no two hold the same one, however  *)
(* createProcess and the freeing of a dead process interleave.             *)
THEOREM Ownership == NoRestart => (Spec => []PartitionsExactlyOwned)
<1> SUFFICES ASSUME NoRestart PROVE Spec => []PartitionsExactlyOwned
  OBVIOUS
<1>1. Init => ExecInv /\ DispatchInv /\ PartInv
  BY InitExec, InitPart DEF Init, DispatchInv
<1>2. ExecInv /\ DispatchInv /\ PartInv /\ [Next]_vars => ExecInv' /\ DispatchInv' /\ PartInv'
  BY ExecStep, PartStep
<1>3. PartInv => PartitionsExactlyOwned
  BY DEF PartInv
<1> QED
  BY <1>1, <1>2, <1>3, PTL DEF Spec

(* The kernel implements the life cycle that ProcessManager states: an     *)
(* entry holds partitions from its admission on and until the last one is  *)
(* given back, and runs alone.                                             *)
THEOREM Refinement == NoRestart => (Spec => ImplementsProcessManager)
<1> SUFFICES ASSUME NoRestart PROVE Spec => ImplementsProcessManager
  OBVIOUS
<1>1. Init => ExecInv /\ DispatchInv /\ PartInv
  BY InitExec, InitPart DEF Init, DispatchInv
<1>2. ExecInv /\ DispatchInv /\ PartInv /\ [Next]_vars => ExecInv' /\ DispatchInv' /\ PartInv'
  BY ExecStep, PartStep
<1>3. ExecInv /\ PartInv /\ [Next]_vars => [Manager!Next]_(Manager!pvars)
  BY PartStep DEF ManagerStep
<1>4. Init => Manager!Init
  BY DEF Init, Prompt, Manager!Init, Owned, Live
<1> QED
  BY <1>1, <1>2, <1>3, <1>4, PTL DEF Spec, ImplementsProcessManager, Manager!Spec

-----------------------------------------------------------------------------
(*                     The kernel as user of the allocator                 *)

(* Entry s is the one the run r is handed out to. *)
HeldBy(s, r) ==
  \/ s \in Live /\ ~GivingBack(s) /\ r = <<startBlock[s], blockCount[s]>>
  \/ Holding /\ s = console.slot /\ r = <<console.start, console.blocks>>

PoolStep == [Pool!Next]_(Pool!pvars)

(* The set of runs, run by run. *)
LEMMA HeldRunsMembers ==
  ASSUME CreateInv, NEW r
  PROVE  r \in HeldRuns <=> \E s \in Slots : HeldBy(s, r)
BY DEF HeldRuns, HeldBy, Holding, Live, CreateInv, Creating

LEMMA HeldRunsMembersNext ==
  ASSUME CreateInv', NEW r
  PROVE  r \in HeldRuns' <=> \E s \in Slots : HeldBy(s, r)'
BY DEF HeldRuns, HeldBy, Holding, Live, CreateInv, Creating

(* A run that is handed out is what its entry owns, and not empty, so that *)
(* no two entries have the same one.                                       *)
LEMMA HeldByOwned ==
  ASSUME ExecInv, PartInv, NEW s \in Slots, NEW r, HeldBy(s, r)
  PROVE  /\ r \in Blocks \X (1 .. MAX_PROCESSES)
         /\ Owned(s) = Run(r[1], r[2]) /\ r[1] \in Owned(s)
<1>1. TypeOK /\ CreateInv
  BY DEF ExecInv
<1>2. CASE s \in Live /\ ~GivingBack(s) /\ r = <<startBlock[s], blockCount[s]>>
  <2>1. /\ startBlock[s] \in Blocks /\ blockCount[s] \in 1 .. MAX_PROCESSES
    BY <1>1, <1>2, SomeSlots DEF TypeOK, PartInv, RunsInv
  <2>2. Owned(s) = Run(startBlock[s], blockCount[s])
    BY <1>2 DEF Owned, GivingBack
  <2> QED
    BY <1>2, <2>1, <2>2, SomeSlots DEF Run, Blocks
<1>3. CASE Holding /\ s = console.slot /\ r = <<console.start, console.blocks>>
  <2>1. console.start \in Blocks /\ console.blocks \in 1 .. MAX_PROCESSES
    BY <1>1, <1>3, SomeSlots DEF TypeOK, ConsoleState, PartInv, RunsInv
  <2>2. state[s] = "NEW"
    BY <1>1, <1>3 DEF CreateInv, Creating, Holding
  <2>3. Owned(s) = Run(console.start, console.blocks)
    BY <1>3, <2>2 DEF Owned, Live, Holding
  <2> QED
    BY <1>3, <2>1, <2>3, SomeSlots DEF Run, Blocks
<1> QED
  BY <1>2, <1>3 DEF HeldBy

LEMMA HeldByOne ==
  ASSUME ExecInv, PartInv, NEW s \in Slots, NEW t \in Slots, NEW r, HeldBy(s, r), HeldBy(t, r)
  PROVE  s = t
<1>1. r[1] \in Owned(s) /\ r[1] \in Owned(t)
  BY HeldByOwned
<1> QED
  BY <1>1 DEF PartInv, PartitionsExactlyOwned

(* Steps that neither take nor give back. *)
LEMMA PoolStays ==
  ASSUME UNCHANGED FREE_PARTITIONS, HeldRuns' = HeldRuns, ReturnedBlocks' = ReturnedBlocks
  PROVE  PoolStep
BY DEF PoolStep, Pool!pvars

LEMMA NothingReturned ==
  /\ worker.pc # "clean" => ReturnedBlocks = {}
  /\ worker'.pc # "clean" => ReturnedBlocks' = {}
BY DEF ReturnedBlocks, GivingBack

LEMMA WorkerPoolStays ==
  ASSUME UNCHANGED <<startBlock, blockCount, console, FREE_PARTITIONS>>,
         \A s \in Slots : s \in Live' <=> s \in Live,
         worker.pc # "clean", worker'.pc # "clean"
  PROVE  PoolStep
<1>1. Live' = Live
  BY DEF Live
<1>2. HeldRuns' = HeldRuns
  BY <1>1 DEF HeldRuns, GivingBack
<1> QED
  BY <1>2, NothingReturned, PoolStays

(* The CPU thread starts to free what the current process owns. *)
LEMMA StartsGivingBack ==
  ASSUME ExecInv, PartInv, ExecInv', Running, worker'.pc = "clean", worker'.i = 0,
         UNCHANGED <<state, startBlock, blockCount, currentActiveProcess, console, FREE_PARTITIONS>>
  PROVE  PoolStep
<1>1. PICK c \in Slots : c = currentActiveProcess
  BY CurrentIsSlot DEF Running, ExecInv
<1>2. /\ c \in Live /\ state[c] = "EXECUTING" /\ worker.pc = "loop"
      /\ CreateInv /\ CreateInv' /\ TypeOK
  BY <1>1, LiveStates DEF Running, ExecInv, OneExecuting
<1> DEFINE r == <<startBlock[c], blockCount[c]>>
<1>3. HeldBy(c, r)
  BY <1>1, <1>2 DEF HeldBy, GivingBack
<1>4. r \in HeldRuns
  BY <1>2, <1>3, HeldRunsMembers
<1>5. \A s \in Slots : \A q : HeldBy(s, q)' <=> HeldBy(s, q) /\ s # c
  <2> SUFFICES ASSUME NEW s \in Slots, NEW q PROVE HeldBy(s, q)' <=> HeldBy(s, q) /\ s # c
    OBVIOUS
  <2>1. Live' = Live /\ (Holding' <=> Holding)
    BY DEF Live, Holding
  <2>2. Holding => console.slot # c
    BY <1>2 DEF Holding, CreateInv, Creating
  <2> QED
    BY <1>1, <1>2, <2>1, <2>2 DEF HeldBy, GivingBack
<1>6. HeldRuns' = HeldRuns \ {r}
  <2> HIDE DEF r
  <2>1. ASSUME NEW q PROVE q \in HeldRuns' <=> q \in HeldRuns /\ q # r
    <3>1. \A s \in Slots : HeldBy(s, r) => s = c
      BY <1>3, HeldByOne
    <3>2. HeldBy(c, q) => q = r
      BY <1>2 DEF HeldBy, r, Holding, CreateInv, Creating
    <3> QED
      BY <1>2, <1>5, <3>1, <3>2, HeldRunsMembers, HeldRunsMembersNext
  <2> QED
    BY <2>1
<1>7. ReturnedBlocks = {}
  BY <1>2, NothingReturned
<1>8. ReturnedBlocks' = Run(startBlock[c], blockCount[c])
  <2>1. \A b : b \in Owned(c)' <=> b \in Run(startBlock[c], blockCount[c])
    <3> SUFFICES ASSUME NEW b
                 PROVE  b \in Owned(c)' <=> b \in Run(startBlock[c], blockCount[c])
      OBVIOUS
    <3>1. startBlock[c] \in Int /\ (b \in Run(startBlock[c], blockCount[c]) => b >= startBlock[c] + 0)
      BY <1>2, GeometryAssumption DEF TypeOK, Blocks, Run
    <3> QED
      BY <1>1, <1>2, <3>1, OwnedMembersNext, LiveStates
  <2>2. ReturnedBlocks' = Owned(c)'
    BY <1>1 DEF ReturnedBlocks, GivingBack
  <2> QED
    BY <2>1, <2>2
<1>9. Pool!GiveBack(r)
  BY <1>4, <1>6, <1>7, <1>8 DEF Pool!GiveBack, Pool!Run, Run
<1> QED
  BY <1>4, <1>9 DEF PoolStep, Pool!Next

LEMMA FreePartitionReturns ==
  ASSUME ExecInv, PartInv, FreePartition
  PROVE  PoolStep
<1>1. PICK c \in Slots, f \in Blocks :
        /\ c = currentActiveProcess /\ state[c] = "EXECUTING" /\ f \in Owned(c)
        /\ FREE_PARTITIONS' = [FREE_PARTITIONS EXCEPT ![f] = TRUE]
        /\ worker.pc = "clean" /\ worker'.pc = "clean"
        /\ UNCHANGED <<state, startBlock, blockCount, currentActiveProcess, console>>
        /\ \A b : b \in Owned(c)' <=> b \in Owned(c) /\ b # f
        /\ \A s \in Slots : s # c => \A b : b \in Owned(s)' <=> b \in Owned(s)
  BY FreePartitionFrees
<1>2. HeldRuns' = HeldRuns
  <2>1. Live' = Live
    BY <1>1 DEF Live
  <2> QED
    BY <1>1, <2>1 DEF HeldRuns, GivingBack
<1>3. ReturnedBlocks = Owned(c) /\ ReturnedBlocks' = Owned(c)'
  BY <1>1 DEF ReturnedBlocks, GivingBack
<1>4. f \in ReturnedBlocks /\ ReturnedBlocks' = ReturnedBlocks \ {f}
  BY <1>1, <1>3
<1>5. {b \in Blocks : FREE_PARTITIONS'[b]} = {b \in Blocks : FREE_PARTITIONS[b]} \union {f}
  BY <1>1 DEF ExecInv, TypeOK
<1>6. Pool!Return(f)
  BY <1>2, <1>4, <1>5 DEF Pool!Return
<1> QED
  BY <1>4, <1>6 DEF PoolStep, Pool!Next

(* All that was to be given back is back when the entry becomes FINISHED.  *)
LEMMA FinishReturnedAll ==
  ASSUME ExecInv, PartInv, Finish
  PROVE  PoolStep
<1>1. PICK c \in Slots : c = currentActiveProcess
  BY CurrentIsSlot DEF Finish, ExecInv
<1>2. /\ TypeOK /\ c \in Live /\ state[c] = "EXECUTING" /\ worker.pc = "clean"
      /\ worker.i >= blockCount[c]
  BY <1>1, LiveStates DEF Finish, ExecInv, OneExecuting
<1>3. /\ \A s \in Slots : state'[s] = IF s = c THEN "FINISHED" ELSE state[s]
      /\ worker'.pc = "wake"
      /\ UNCHANGED <<startBlock, blockCount, FREE_PARTITIONS, console, currentActiveProcess>>
  BY <1>1, <1>2 DEF Finish, kernel, TypeOK
<1>4. HeldRuns' = HeldRuns
  <2>1. {t \in Live : ~GivingBack(t)}' = {t \in Live : ~GivingBack(t)}
    BY <1>1, <1>2, <1>3 DEF Live, GivingBack
  <2> QED
    BY <1>3, <2>1 DEF HeldRuns
<1>5. Owned(c) = {}
  <2> SUFFICES ASSUME NEW b PROVE b \notin Owned(c)
    OBVIOUS
  <2>1. startBlock[c] \in Nat /\ blockCount[c] \in Nat /\ worker.i \in Nat
    BY <1>2, GeometryAssumption DEF TypeOK, WorkerState, Blocks
  <2>2. b \in Run(startBlock[c], blockCount[c]) => b \in Int /\ b < startBlock[c] + blockCount[c]
    BY <2>1 DEF Run
  <2> QED
    BY <1>1, <1>2, <2>1, <2>2, OwnedMembers
<1>6. ReturnedBlocks = {} /\ ReturnedBlocks' = {}
  BY <1>1, <1>3, <1>5, NothingReturned DEF ReturnedBlocks, GivingBack
<1> QED
  BY <1>3, <1>4, <1>6, PoolStays

LEMMA WorkerPool ==
  ASSUME ExecInv, PartInv, ExecInv', cpuThreadWorker
  PROVE  PoolStep
<1>1. /\ TypeOK /\ OneExecuting /\ ScanInv /\ CleanInv /\ state \in [Slots -> ProcessState]
  BY DEF ExecInv, TypeOK
<1>2. ASSUME NEW ins \in NextInstructions, cpuStep(ins) PROVE PoolStep
  <2>1. /\ Running
        /\ NothingBlocked \/ CurrentBlocked
        /\ UNCHANGED <<startBlock, blockCount, currentActiveProcess, console, FREE_PARTITIONS>>
    BY <1>2, cpuStepOutcome DEF kernel
  <2>2. /\ currentActiveProcess \in Slots /\ state[currentActiveProcess] = "EXECUTING"
        /\ worker.pc = "loop"
    BY <1>1, <2>1, CurrentIsSlot DEF Running, OneExecuting
  <2>3. CASE worker'.pc = "clean"
    <3>1. UNCHANGED state /\ worker'.i = 0
      BY <2>1, <2>3 DEF NothingBlocked, CurrentBlocked, WorkerAt
    <3> QED
      BY <2>1, <2>3, <3>1, StartsGivingBack
  <2>4. CASE worker'.pc # "clean"
    <3>1. \A s \in Slots : \/ state'[s] = state[s]
                           \/ s = currentActiveProcess /\ state'[s] \in {"BLOCKED", "BLOCKED_IO"}
      BY <1>1, <2>1, <2>2 DEF NothingBlocked, CurrentBlocked
    <3> QED
      BY <2>1, <2>2, <2>4, <3>1, LiveStates, WorkerPoolStays
  <2> QED
    BY <2>3, <2>4
<1>3. CASE FetchFails
  <2>1. /\ Running /\ worker'.pc = "clean" /\ worker'.i = 0
        /\ UNCHANGED <<state, startBlock, blockCount, currentActiveProcess, console, FREE_PARTITIONS>>
    BY <1>3 DEF FetchFails, AfterStep, table, kernel
  <2> QED
    BY <2>1, StartsGivingBack
<1>4. CASE CleanNoProcess
  BY <1>1, <1>4 DEF CleanNoProcess, CleanInv
<1>5. CASE IdleLoop \/ StopLoop \/ TickScan \/ TickNoReady
  <2>1. /\ UNCHANGED <<state, startBlock, blockCount, console, FREE_PARTITIONS>>
        /\ worker.pc # "clean" /\ worker'.pc # "clean"
    BY <1>1, <1>5 DEF IdleLoop, StopLoop, TickScan, TickNoReady, table, kernel, TypeOK, WorkerState
  <2> QED
    BY <2>1, LiveStates, WorkerPoolStays
<1>6. CASE TickWake \/ TickSave \/ TickDispatch
  <2>1. /\ UNCHANGED <<startBlock, blockCount, console, FREE_PARTITIONS>>
        /\ worker.pc # "clean" /\ worker'.pc # "clean"
    <3>1. CASE TickWake
      BY <1>1, <3>1 DEF TickWake, kernel, TypeOK
    <3>2. CASE TickSave
      BY <3>2 DEF TickSave, kernel
    <3>3. CASE TickDispatch
      BY <3>3 DEF TickDispatch
    <3> QED
      BY <1>6, <3>1, <3>2, <3>3
  <2>2. \A s \in Slots : s \in Live' <=> s \in Live
    <3>1. \A s \in Slots :
            \/ state'[s] = state[s]
            \/ /\ state[s] \in {"READY", "EXECUTING", "BLOCKED", "BLOCKED_IO"}
               /\ state'[s] \in {"READY", "EXECUTING"}
      <4>1. CASE TickWake
        BY <1>1, <4>1 DEF TickWake, SleptEnough, Asleep, MonitorAwaited
      <4>2. CASE TickSave
        BY <1>1, <4>2 DEF TickSave, Outgoing
      <4>3. CASE TickDispatch
        BY <1>1, <4>3 DEF TickDispatch, ScanInv
      <4> QED
        BY <1>6, <4>1, <4>2, <4>3
    <3> QED
      BY <3>1, LiveStates
  <2> QED
    BY <2>1, <2>2, WorkerPoolStays
<1> QED
  BY <1>2, <1>3, <1>4, <1>5, <1>6, FreePartitionReturns, FinishReturnedAll
  DEF cpuThreadWorker, schedulerTick

(* The console thread touches nothing of a process that is given back. *)
LEMMA SameReturned ==
  ASSUME ExecInv, UNCHANGED <<worker, currentActiveProcess>>,
         \A s \in Slots : state[s] = "EXECUTING" =>
           /\ state'[s] = "EXECUTING"
           /\ startBlock'[s] = startBlock[s] /\ blockCount'[s] = blockCount[s]
  PROVE  ReturnedBlocks' = ReturnedBlocks
<1>1. \A s \in Slots : GivingBack(s)' <=> GivingBack(s)
  BY DEF GivingBack
<1>2. ASSUME NEW s \in Slots, GivingBack(s) PROVE Owned(s)' = Owned(s)
  <2>1. state[s] = "EXECUTING"
    BY <1>2 DEF GivingBack, ExecInv, OneExecuting, CleanInv
  <2> QED
    BY <2>1 DEF Owned, Live
<1> QED
  BY <1>1, <1>2 DEF ReturnedBlocks

LEMMA NotHoldingPoolStays ==
  ASSUME ExecInv, ~Holding, ~Holding',
         UNCHANGED <<startBlock, blockCount, worker, currentActiveProcess, FREE_PARTITIONS>>,
         \A s \in Slots : s \in Live' <=> s \in Live,
         \A s \in Slots : state[s] = "EXECUTING" => state'[s] = "EXECUTING"
  PROVE  PoolStep
<1>1. Live' = Live
  BY DEF Live
<1>2. HeldRuns' = HeldRuns
  BY <1>1 DEF HeldRuns, GivingBack, Holding
<1> QED
  BY <1>2, SameReturned, PoolStays

LEMMA ConsolePool ==
  ASSUME NoRestart, ExecInv, PartInv, ExecInv',
         \/ ReservePCB \/ createProcess \/ OpenMonitor \/ CloseMonitor
         \/ RestartCPU \/ handleRestartCommand \/ Shutdown \/ Join
  PROVE  PoolStep
<1>1. /\ TypeOK /\ OneExecuting /\ CreateInv /\ CreateInv' /\ CleanInv /\ NoRestartInv
      /\ state \in [Slots -> ProcessState]
  BY DEF ExecInv, TypeOK
<1>2. CASE RestartCPU \/ handleRestartCommand
  BY <1>1, <1>2 DEF NoRestart, RestartCPU, handleRestartCommand, RestartMemory, RestartTable,
     RestartActive, NoRestartInv
<1>3. CASE ReservePCB
  <2>1. PICK s \in Slots : /\ getFreePCBIndex(s)
                           /\ state' = [state EXCEPT ![s] = "NEW"]
                           /\ console' = [Prompt EXCEPT !.pc = "reserved", !.slot = s]
    BY <1>3 DEF ReservePCB
  <2>2. state[s] = "FINISHED" /\ \A t \in Slots : state'[t] = IF t = s THEN "NEW" ELSE state[t]
    BY <1>1, <2>1 DEF getFreePCBIndex
  <2>3. console.pc = "prompt" /\ console'.pc = "reserved"
    BY <1>3, <2>1 DEF ReservePCB, Prompt
  <2>4. UNCHANGED <<startBlock, blockCount, worker, currentActiveProcess, FREE_PARTITIONS>>
    BY <1>3 DEF ReservePCB, kernel
  <2> QED
    BY <2>2, <2>3, <2>4, NotHoldingPoolStays, LiveStates DEF Holding
<1>4. ASSUME GiveUp, Creating, ~Holding,
             UNCHANGED <<startBlock, blockCount, worker, currentActiveProcess, FREE_PARTITIONS>>
      PROVE  PoolStep
  <2>1. /\ console.slot \in Slots /\ state[console.slot] = "NEW"
        /\ \A t \in Slots : state'[t] = IF t = console.slot THEN "FINISHED" ELSE state[t]
        /\ console'.pc = "prompt"
    BY <1>1, <1>4 DEF GiveUp, CreateInv, Prompt
  <2> QED
    BY <1>4, <2>1, NotHoldingPoolStays, LiveStates DEF Holding
<1>5. CASE VerifyFile
  <2>1. /\ UNCHANGED <<startBlock, blockCount, worker, currentActiveProcess, FREE_PARTITIONS>>
        /\ Creating /\ ~Holding
    BY <1>5 DEF VerifyFile, kernel, Creating, Holding
  <2>2. ASSUME NEW w \in WordCounts, console' = [console EXCEPT !.pc = "verified", !.words = w],
               UNCHANGED state
        PROVE  PoolStep
    <3>1. console'.pc = "verified"
      BY <1>1, <2>2 DEF TypeOK
    <3> QED
      BY <2>1, <2>2, <3>1, NotHoldingPoolStays, LiveStates DEF Holding
  <2> QED
    BY <1>4, <1>5, <2>1, <2>2 DEF VerifyFile
<1>6. CASE Allocate
  <2>1. PICK required \in 0 .. MAX_PROCESSES :
          \/ GiveUp /\ UNCHANGED FREE_PARTITIONS
          \/ required # 0 /\ \E start \in FreeRuns(FREE_PARTITIONS, required) :
               /\ FREE_PARTITIONS' = [b \in Blocks |->
                    FREE_PARTITIONS[b] /\ b \notin Run(start, required)]
               /\ console' = [console EXCEPT !.pc = "allocated", !.start = start,
                                             !.blocks = required]
               /\ UNCHANGED state
    <3> DEFINE required == CalculateRequiredBlocks(console.words)
    <3>1. required \in 0 .. MAX_PROCESSES
      BY <1>1, RequiredBlocksType DEF TypeOK, ConsoleState
    <3> QED
      BY <1>6, <3>1 DEF Allocate
  <2>2. /\ UNCHANGED <<startBlock, blockCount, worker, currentActiveProcess>>
        /\ console.pc = "verified" /\ ~Holding
    BY <1>6 DEF Allocate, Holding
  <2>3. CASE GiveUp /\ UNCHANGED FREE_PARTITIONS
    BY <1>4, <2>2, <2>3 DEF Creating, Holding
  <2>4. ASSUME NEW start \in FreeRuns(FREE_PARTITIONS, required),
               FREE_PARTITIONS' = [b \in Blocks |->
                 FREE_PARTITIONS[b] /\ b \notin Run(start, required)],
               console' = [console EXCEPT !.pc = "allocated", !.start = start,
                                          !.blocks = required],
               UNCHANGED state, required # 0
        PROVE  PoolStep
    <3> DEFINE r == <<start, required>>
    <3>1. /\ r \in Blocks \X (1 .. MAX_PROCESSES)
          /\ \A b \in Run(start, required) : b \in Blocks /\ FREE_PARTITIONS[b]
      BY <2>4, SomeSlots DEF FreeRuns, Run, Blocks
    <3>2. console'.pc = "allocated" /\ console'.start = start /\ console'.blocks = required
      BY <1>1, <2>4 DEF TypeOK
    <3>3. Live' = Live
      BY <2>4 DEF Live
    <3>4. HeldRuns' = HeldRuns \union {r}
      BY <2>2, <3>2, <3>3 DEF HeldRuns, GivingBack, Holding
    <3>5. ReturnedBlocks' = ReturnedBlocks
      BY <2>2, <2>4, SameReturned
    <3>6. {b \in Blocks : FREE_PARTITIONS'[b]}
            = {b \in Blocks : FREE_PARTITIONS[b]} \ Run(start, required)
      BY <2>4
    <3>7. Pool!Take(r)
      BY <3>1, <3>4, <3>5, <3>6 DEF Pool!Take, Pool!Run, Run
    <3> HIDE DEF r
    <3> QED
      BY <3>1, <3>7 DEF PoolStep, Pool!Next, Pool!Blocks, Blocks
  <2> QED
    BY <2>1, <2>3, <2>4
<1>7. CASE FillPCB
  <2>1. PICK n \in Slots : n = console.slot /\ state[n] = "NEW"
    BY <1>1, <1>7 DEF FillPCB, CreateInv, Creating
  <2>2. /\ console.pc = "allocated" /\ console'.pc = "filled"
        /\ console'.start = console.start /\ console'.blocks = console.blocks
        /\ UNCHANGED <<state, worker, currentActiveProcess, FREE_PARTITIONS>>
    BY <1>1, <1>7 DEF FillPCB, TypeOK
  <2>3. \A s \in Slots : s # n => startBlock'[s] = startBlock[s] /\ blockCount'[s] = blockCount[s]
    BY <1>1, <1>7, <2>1 DEF FillPCB, TypeOK
  <2>4. n \notin Live /\ Live' = Live
    BY <2>1, <2>2, LiveStates DEF Live
  <2>5. HeldRuns' = HeldRuns
    <3>1. \A s \in Live : startBlock'[s] = startBlock[s] /\ blockCount'[s] = blockCount[s]
      BY <2>3, <2>4 DEF Live
    <3> QED
      BY <2>2, <2>4, <3>1 DEF HeldRuns, GivingBack
  <2>6. ReturnedBlocks' = ReturnedBlocks
    BY <2>1, <2>2, <2>3, SameReturned
  <2> QED
    BY <2>2, <2>5, <2>6, PoolStays
<1>8. CASE MakeReady
  <2>1. PICK n \in Slots : n = console.slot /\ state[n] = "NEW"
    BY <1>1, <1>8 DEF MakeReady, CreateInv, Creating
  <2>2. /\ console.pc = "filled" /\ console'.pc = "prompt"
        /\ \A s \in Slots : state'[s] = IF s = n THEN "READY" ELSE state[s]
        /\ UNCHANGED <<startBlock, blockCount, worker, currentActiveProcess, FREE_PARTITIONS>>
    BY <1>1, <1>8, <2>1 DEF MakeReady, Prompt, kernel
  <2>3. startBlock[n] = console.start /\ blockCount[n] = console.blocks /\ Holding /\ ~Holding'
    BY <2>1, <2>2 DEF PartInv, RunsInv, Holding
  <2>4. ~GivingBack(n) /\ n \notin Live
    BY <1>1, <2>1, LiveStates DEF OneExecuting, CleanInv, GivingBack
  <2>5. HeldRuns' = HeldRuns
    <3>1. \A s \in Slots : \A q : HeldBy(s, q)' <=> HeldBy(s, q)
      BY <2>1, <2>2, <2>3, <2>4, LiveStates DEF HeldBy, GivingBack
    <3>2. ASSUME NEW q PROVE q \in HeldRuns' <=> q \in HeldRuns
      BY <1>1, <3>1, HeldRunsMembers, HeldRunsMembersNext
    <3> QED
      BY <3>2
  <2>6. ReturnedBlocks' = ReturnedBlocks
    BY <2>1, <2>2, SameReturned
  <2> QED
    BY <2>2, <2>5, <2>6, PoolStays
<1>9. CASE OpenMonitor \/ CloseMonitor \/ Shutdown \/ Join
  <2>1. ~Holding /\ ~Holding'
    BY <1>1, <1>9 DEF OpenMonitor, CloseMonitor, Shutdown, Join, Prompt, TypeOK, ConsoleState, Holding
  <2>2. UNCHANGED <<state, startBlock, blockCount, worker, currentActiveProcess, FREE_PARTITIONS>>
    BY <1>9 DEF OpenMonitor, CloseMonitor, Shutdown, Join, table, kernel
  <2> QED
    BY <2>1, <2>2, NotHoldingPoolStays, LiveStates
<1> QED
  BY <1>2, <1>3, <1>5, <1>6, <1>7, <1>8, <1>9 DEF createProcess

(* The two threads take from and give back to the allocator as the pool    *)
(* allows, the pool that MmuProofs shows the allocator to be: an           *)
(* allocation gets a run that is free and whole, freeMemory gives back     *)
(* only a run that was handed out, no block of it twice, and all of it     *)
(* before the next one.                                                    *)
THEOREM PoolUser == NoRestart => (Spec => UsesPool)
<1> SUFFICES ASSUME NoRestart PROVE Spec => UsesPool
  OBVIOUS
<1>1. Init => ExecInv /\ DispatchInv /\ PartInv
  BY InitExec, InitPart DEF Init, DispatchInv
<1>2. ExecInv /\ DispatchInv /\ PartInv /\ [Next]_vars => ExecInv' /\ DispatchInv' /\ PartInv'
  BY ExecStep, PartStep
<1>3. ExecInv /\ DispatchInv /\ PartInv /\ [Next]_vars => [Pool!Next]_(Pool!pvars)
  <2> SUFFICES ASSUME ExecInv, DispatchInv, PartInv, [Next]_vars PROVE PoolStep
    BY DEF PoolStep
  <2>1. ExecInv'
    BY <1>2
  <2>2. CASE Next
    BY <2>1, <2>2, WorkerPool, ConsolePool DEF Next
  <2>3. CASE UNCHANGED vars
    <3>1. /\ UNCHANGED <<state, startBlock, blockCount, console, worker>>
          /\ UNCHANGED <<currentActiveProcess, FREE_PARTITIONS>>
      BY <2>3 DEF vars, table, kernel
    <3>2. HeldRuns' = HeldRuns
      BY <3>1 DEF HeldRuns, Live, GivingBack
    <3>3. ReturnedBlocks' = ReturnedBlocks
      BY <3>1, SameReturned
    <3> QED
      BY <3>1, <3>2, <3>3, PoolStays
  <2> QED
    BY <2>2, <2>3
<1>4. Init => Pool!Init
  BY DEF Init, Prompt, Pool!Init, Pool!Blocks, Blocks, HeldRuns, ReturnedBlocks, Live, GivingBack
<1> QED
  BY <1>1, <1>2, <1>3, <1>4, PTL DEF Spec, UsesPool, Pool!Spec

-----------------------------------------------------------------------------
(*                                   Pids                                  *)

(* The pid that createProcess has written into an entry not ready yet is   *)
(* already distinct from the pids of the processes.                        *)
PidInv ==
  /\ DistinctPids
  /\ console.pc = "filled" =>
       /\ pid[console.slot] < nextPid
       /\ \A s \in Live : pid[s] # pid[console.slot]

(* A step that creates no process and no pid. *)
LEMMA PidFrame ==
  ASSUME PidInv, UNCHANGED <<pid, nextPid>>, \A s \in Slots : s \in Live' => s \in Live,
         console'.pc = "filled" => UNCHANGED console
  PROVE  PidInv'
BY DEF PidInv, DistinctPids, Live

(* The CPU thread brings no entry to life. *)
LEMMA WorkerLive ==
  ASSUME ExecInv, cpuThreadWorker
  PROVE  UNCHANGED <<pid, nextPid, console>> /\ \A s \in Slots : s \in Live' => s \in Live
<1>0. /\ TypeOK /\ OneExecuting /\ ScanInv
      /\ state \in [Slots -> ProcessState]
  BY DEF ExecInv, TypeOK
<1>1. ASSUME NEW ins \in NextInstructions, cpuStep(ins)
      PROVE  UNCHANGED <<pid, nextPid, console>> /\ \A s \in Slots : s \in Live' => s \in Live
  <2>1. /\ Running
        /\ NothingBlocked \/ CurrentBlocked
        /\ UNCHANGED <<pid, nextPid, console>>
    BY <1>1, cpuStepOutcome DEF kernel
  <2>2. currentActiveProcess \in Slots /\ state[currentActiveProcess] = "EXECUTING"
    BY <1>0, <2>1, CurrentIsSlot DEF Running, OneExecuting
  <2>3. \A s \in Slots : \/ state'[s] = state[s]
                         \/ s = currentActiveProcess /\ state'[s] \in {"BLOCKED", "BLOCKED_IO"}
    BY <1>0, <2>1, <2>2 DEF NothingBlocked, CurrentBlocked
  <2> QED
    BY <2>1, <2>2, <2>3, LiveStates
<1>2. CASE \/ FetchFails \/ FreePartition \/ CleanNoProcess \/ IdleLoop \/ StopLoop
           \/ TickScan \/ TickNoReady
  <2>1. UNCHANGED <<state, pid, nextPid, console>>
    BY <1>2 DEF FetchFails, FreePartition, CleanNoProcess, IdleLoop, StopLoop, TickScan,
       TickNoReady, table, kernel
  <2> QED
    BY <2>1, LiveStates
<1>3. CASE Finish \/ TickWake \/ TickSave \/ TickDispatch
  <2>1. UNCHANGED <<pid, nextPid, console>>
    BY <1>3 DEF Finish, TickWake, TickSave, TickDispatch, kernel
  <2>2. CASE Finish
    BY <1>0, <2>1, <2>2, LiveStates DEF Finish
  <2>3. CASE TickWake
    BY <1>0, <2>1, <2>3, LiveStates DEF TickWake, SleptEnough, Asleep, MonitorAwaited
  <2>4. CASE TickSave
    <3>1. \A s \in Slots : \/ state'[s] = state[s]
                           \/ state[s] = "EXECUTING" /\ state'[s] = "READY"
      BY <1>0, <2>4 DEF TickSave, Outgoing
    <3> QED
      BY <2>1, <3>1, LiveStates
  <2>5. CASE TickDispatch
    <3>1. \A s \in Slots : \/ state'[s] = state[s]
                           \/ state[s] = "READY" /\ state'[s] = "EXECUTING"
      BY <1>0, <2>5 DEF TickDispatch, ScanInv
    <3> QED
      BY <2>1, <3>1, LiveStates
  <2> QED
    BY <1>3, <2>2, <2>3, <2>4, <2>5
<1> QED
  BY <1>1, <1>2, <1>3 DEF cpuThreadWorker, schedulerTick

LEMMA ConsolePids ==
  ASSUME NoRestart, ExecInv, PidInv,
         \/ ReservePCB \/ createProcess \/ OpenMonitor \/ CloseMonitor
         \/ RestartCPU \/ handleRestartCommand \/ Shutdown \/ Join
  PROVE  PidInv'
<1>0. /\ TypeOK /\ CreateInv /\ NoRestartInv /\ state \in [Slots -> ProcessState]
  BY DEF ExecInv, TypeOK
<1>1. CASE RestartCPU \/ handleRestartCommand
  BY <1>0, <1>1 DEF NoRestart, RestartCPU, handleRestartCommand, RestartMemory, RestartTable,
     RestartActive, NoRestartInv
<1>2. CASE ReservePCB \/ VerifyFile \/ Allocate \/ OpenMonitor \/ CloseMonitor \/ Shutdown \/ Join
  <2>1. UNCHANGED <<pid, nextPid>>
    BY <1>2 DEF ReservePCB, VerifyFile, Allocate, OpenMonitor, CloseMonitor, Shutdown, Join,
       table, kernel
  <2>2. console'.pc # "filled"
    <3>1. CASE ReservePCB
      BY <3>1 DEF ReservePCB, Prompt
    <3>0. console \in ConsoleState
      BY <1>0 DEF TypeOK, ConsoleState
    <3>5. GiveUp => console'.pc # "filled"
      BY DEF GiveUp, Prompt
    <3>2. CASE VerifyFile
      <4>1. ASSUME NEW w \in WordCounts, console' = [console EXCEPT !.pc = "verified", !.words = w]
            PROVE  console'.pc # "filled"
        BY <3>0, <4>1 DEF ConsoleState
      <4> QED
        BY <3>2, <3>5, <4>1 DEF VerifyFile
    <3>3. CASE Allocate
      <4> DEFINE required == CalculateRequiredBlocks(console.words)
      <4>1. ASSUME NEW start \in FreeRuns(FREE_PARTITIONS, required),
                   console' = [console EXCEPT !.pc = "allocated", !.start = start,
                                              !.blocks = required]
            PROVE  console'.pc # "filled"
        BY <3>0, <4>1 DEF ConsoleState
      <4>2. GiveUp \/ \E start \in FreeRuns(FREE_PARTITIONS, required) :
                        console' = [console EXCEPT !.pc = "allocated", !.start = start,
                                                   !.blocks = required]
        BY <3>3 DEF Allocate
      <4> HIDE DEF required
      <4> QED
        BY <3>5, <4>1, <4>2
    <3>4. CASE OpenMonitor \/ CloseMonitor \/ Shutdown \/ Join
      BY <1>0, <3>4 DEF OpenMonitor, CloseMonitor, Shutdown, Join, Prompt, TypeOK, ConsoleState
    <3> QED
      BY <1>2, <3>1, <3>2, <3>3, <3>4
  <2>3. CASE ReservePCB
    BY <1>0, <2>1, <2>2, <2>3, PidFrame, LiveStates DEF ReservePCB
  <2>4. CASE VerifyFile
    BY <1>0, <2>1, <2>2, <2>4, PidFrame, LiveStates DEF VerifyFile, GiveUp
  <2>5. CASE Allocate
    <3>1. GiveUp \/ UNCHANGED state
      BY <2>5 DEF Allocate
    <3> QED
      BY <1>0, <2>1, <2>2, <3>1, PidFrame, LiveStates DEF GiveUp
  <2>6. CASE OpenMonitor \/ CloseMonitor \/ Shutdown \/ Join
    <3>1. UNCHANGED state
      BY <2>6 DEF OpenMonitor, CloseMonitor, Shutdown, Join, table
    <3> QED
      BY <2>1, <2>2, <3>1, PidFrame, LiveStates
  <2> QED
    BY <1>2, <2>3, <2>4, <2>5, <2>6
<1>3. CASE FillPCB
  <2>1. PICK n \in Slots : n = console.slot /\ state[n] = "NEW"
    BY <1>0, <1>3 DEF FillPCB, CreateInv, Creating
  <2>2. /\ console'.slot = n /\ nextPid \in Nat /\ nextPid' = nextPid + 1
        /\ \A s \in Slots : pid'[s] = IF s = n THEN nextPid ELSE pid[s]
        /\ UNCHANGED state
    BY <1>0, <1>3, <2>1 DEF FillPCB, TypeOK
  <2>3. \A s \in Live : s # n /\ s \in Slots /\ pid[s] < nextPid /\ pid[s] \in Int
    BY <1>0, <2>1 DEF PidInv, DistinctPids, Live, TypeOK
  <2>4. Live' = Live
    BY <2>2 DEF Live
  <2>5. DistinctPids'
    BY <2>2, <2>3, <2>4 DEF PidInv, DistinctPids
  <2> QED
    BY <2>2, <2>3, <2>4, <2>5 DEF PidInv
<1>4. CASE MakeReady
  <2>1. PICK n \in Slots : n = console.slot /\ console.pc = "filled"
    BY <1>0, <1>4 DEF MakeReady, CreateInv, Creating
  <2>2. /\ UNCHANGED <<pid, nextPid>> /\ console'.pc = "prompt"
        /\ \A s \in Slots : s \in Live' => s \in Live \/ s = n
    BY <1>0, <1>4, <2>1, LiveStates DEF MakeReady, Prompt, kernel
  <2> QED
    BY <2>1, <2>2 DEF PidInv, DistinctPids, Live
<1> QED
  BY <1>1, <1>2, <1>3, <1>4 DEF createProcess

LEMMA PidStep == NoRestart => (ExecInv /\ PidInv /\ [Next]_vars => PidInv')
<1> SUFFICES ASSUME NoRestart, ExecInv, PidInv, [Next]_vars PROVE PidInv'
  OBVIOUS
<1>1. CASE cpuThreadWorker
  BY <1>1, WorkerLive, PidFrame
<1>2. CASE UNCHANGED vars
  <2>1. UNCHANGED <<state, pid, nextPid, console>>
    BY <1>2 DEF vars, table, kernel
  <2> QED
    BY <2>1, LiveStates, PidFrame
<1> QED
  BY <1>1, <1>2, ConsolePids DEF Next

(* No two processes that exist have the same pid. *)
THEOREM PidsDistinct == NoRestart => (Spec => []DistinctPids)
<1> SUFFICES ASSUME NoRestart PROVE Spec => []DistinctPids
  OBVIOUS
<1>1. Init => ExecInv /\ DispatchInv /\ PidInv
  BY InitExec DEF Init, DispatchInv, PidInv, DistinctPids, Live, Prompt
<1>2. ExecInv /\ DispatchInv /\ PidInv /\ [Next]_vars => ExecInv' /\ DispatchInv' /\ PidInv'
  BY ExecStep, PidStep
<1>3. PidInv => DistinctPids
  BY DEF PidInv
<1> QED
  BY <1>1, <1>2, <1>3, PTL DEF Spec

-----------------------------------------------------------------------------
(*                                 Sleepers                                *)

(* A step that puts nobody to sleep and changes no sleeper's tics. *)
LEMMA SleepFrame ==
  ASSUME SleepersHaveTics,
         \A s \in Slots : state'[s] = "BLOCKED" =>
           state[s] = "BLOCKED" /\ sleepTics'[s] = sleepTics[s]
  PROVE  SleepersHaveTics'
BY DEF SleepersHaveTics

LEMMA SleepStep == NoRestart => (ExecInv /\ SleepersHaveTics /\ [Next]_vars => SleepersHaveTics')
<1> SUFFICES ASSUME NoRestart, ExecInv, SleepersHaveTics, [Next]_vars PROVE SleepersHaveTics'
  OBVIOUS
<1>0. /\ TypeOK /\ OneExecuting /\ CreateInv /\ NoRestartInv
      /\ state \in [Slots -> ProcessState] /\ sleepTics \in [Slots -> Nat]
  BY DEF ExecInv, TypeOK
<1>1. ASSUME NEW ins \in NextInstructions, cpuStep(ins) PROVE SleepersHaveTics'
  <2>1. /\ Running
        /\ NothingBlocked \/ CurrentBlocked
    BY <1>1, cpuStepOutcome
  <2>2. currentActiveProcess \in Slots
    BY <1>0, <2>1, CurrentIsSlot DEF Running
  <2>3. CASE NothingBlocked
    BY <2>3, SleepFrame DEF NothingBlocked
  <2>4. CASE CurrentBlocked
    <3>1. CASE /\ state' = [state EXCEPT ![currentActiveProcess] = "BLOCKED_IO"]
               /\ UNCHANGED sleepTics
      BY <1>0, <3>1, SleepFrame
    <3>2. CASE state' = [state EXCEPT ![currentActiveProcess] = "BLOCKED"]
      <4>1. PICK n \in Nat \ {0} : sleepTics' = [sleepTics EXCEPT ![currentActiveProcess] = n]
        BY <1>0, <2>2, <2>4, <3>2 DEF CurrentBlocked
      <4> QED
        BY <1>0, <3>2, <4>1 DEF SleepersHaveTics
    <3> QED
      BY <2>4, <3>1, <3>2 DEF CurrentBlocked
  <2> QED
    BY <2>1, <2>3, <2>4
<1>2. ASSUME UNCHANGED <<state, sleepTics>> PROVE SleepersHaveTics'
  BY <1>2 DEF SleepersHaveTics
<1>3. CASE \/ FetchFails \/ FreePartition \/ CleanNoProcess \/ IdleLoop \/ StopLoop
           \/ TickScan \/ TickNoReady
  BY <1>2, <1>3 DEF FetchFails, FreePartition, CleanNoProcess, IdleLoop, StopLoop, TickScan,
     TickNoReady, table
<1>4. CASE Finish
  BY <1>0, <1>4, SleepFrame DEF Finish
<1>5. CASE TickWake
  <2>1. \A s \in Slots : state'[s] = "BLOCKED" => state[s] = "BLOCKED" /\ sleepTics[s] # 1
    BY <1>0, <1>5 DEF TickWake, SleptEnough, Asleep
  <2>2. \A s \in Slots : state[s] = "BLOCKED" => sleepTics'[s] = sleepTics[s] - 1
    BY <1>0, <1>5 DEF TickWake, Asleep, SleepersHaveTics
  <2> QED
    BY <1>0, <2>1, <2>2 DEF SleepersHaveTics
<1>6. CASE TickSave
  BY <1>0, <1>6, SleepFrame DEF TickSave, Outgoing
<1>7. CASE TickDispatch
  BY <1>0, <1>7, SleepFrame DEF TickDispatch
<1>8. CASE ReservePCB
  BY <1>0, <1>8, SleepFrame DEF ReservePCB
<1>9. CASE VerifyFile \/ Allocate
  <2>1. (GiveUp \/ UNCHANGED state) /\ UNCHANGED sleepTics
    BY <1>9 DEF VerifyFile, Allocate
  <2> QED
    BY <1>0, <2>1, SleepFrame DEF GiveUp
<1>10. CASE FillPCB
  <2>1. PICK n \in Slots : n = console.slot /\ state[n] = "NEW"
    BY <1>0, <1>10 DEF FillPCB, CreateInv, Creating
  <2> QED
    BY <1>0, <1>10, <2>1, SleepFrame DEF FillPCB
<1>11. CASE MakeReady
  BY <1>0, <1>11, SleepFrame DEF MakeReady
<1>12. CASE OpenMonitor \/ CloseMonitor \/ Shutdown \/ Join
  BY <1>2, <1>12 DEF OpenMonitor, CloseMonitor, Shutdown, Join, table
<1>13. CASE RestartCPU \/ handleRestartCommand
  BY <1>0, <1>13 DEF NoRestart, RestartCPU, handleRestartCommand, RestartMemory, RestartTable,
     RestartActive, NoRestartInv
<1>14. CASE UNCHANGED vars
  BY <1>2, <1>14 DEF vars, table
<1> QED
  BY <1>1, <1>3, <1>4, <1>5, <1>6, <1>7, <1>8, <1>9, <1>10, <1>11, <1>12, <1>13, <1>14
     DEF Next, cpuThreadWorker, schedulerTick, createProcess

(* Nobody sleeps without tics left, which schedulerTick would never wake. *)
THEOREM SleepersCanWake == NoRestart => (Spec => []SleepersHaveTics)
<1> SUFFICES ASSUME NoRestart PROVE Spec => []SleepersHaveTics
  OBVIOUS
<1>1. Init => ExecInv /\ DispatchInv /\ SleepersHaveTics
  BY InitExec DEF Init, DispatchInv, SleepersHaveTics
<1>2. ExecInv /\ DispatchInv /\ SleepersHaveTics /\ [Next]_vars
        => ExecInv' /\ DispatchInv' /\ SleepersHaveTics'
  BY ExecStep, SleepStep
<1> QED
  BY <1>1, <1>2, PTL DEF Spec

(* A sleeper loses a tic at every tick, is woken by the last one, and      *)
(* nothing else touches it: neither the console, which fills entries in    *)
(* meanwhile, nor a process that ends or goes to sleep itself.             *)
SleepsItsTics ==
  [][\A s \in Slots : state[s] = "BLOCKED" =>
       IF TickWake
         THEN /\ sleepTics'[s] = sleepTics[s] - 1
              /\ state'[s] = IF sleepTics'[s] = 0 THEN "READY" ELSE "BLOCKED"
         ELSE state'[s] = "BLOCKED" /\ sleepTics'[s] = sleepTics[s]]_vars

(* Nothing happens to a sleeper. *)
SleeperLeft ==
  \A s \in Slots : state[s] = "BLOCKED" => state'[s] = "BLOCKED" /\ sleepTics'[s] = sleepTics[s]

LEMMA SleeperTicks ==
  ASSUME TypeOK, SleepersHaveTics, TickWake, NEW s \in Slots, state[s] = "BLOCKED"
  PROVE  /\ sleepTics'[s] = sleepTics[s] - 1
         /\ state'[s] = IF sleepTics'[s] = 0 THEN "READY" ELSE "BLOCKED"
<1>1. sleepTics[s] \in Nat \ {0} /\ Asleep(s)
  BY DEF TypeOK, SleepersHaveTics, Asleep
<1>2. sleepTics'[s] = sleepTics[s] - 1
  BY <1>1 DEF TickWake
<1>3. state'[s] = IF SleptEnough(s) \/ MonitorAwaited(s) THEN "READY" ELSE state[s]
  BY DEF TickWake
<1>4. SleptEnough(s) <=> sleepTics[s] = 1
  BY <1>1 DEF SleptEnough
<1>5. ~MonitorAwaited(s)
  BY DEF MonitorAwaited
<1> QED
  BY <1>1, <1>2, <1>3, <1>4, <1>5

LEMMA SleeperUndisturbed == ExecInv /\ NoRestart /\ Next /\ ~TickWake => SleeperLeft
<1> SUFFICES ASSUME ExecInv, NoRestart, Next, ~TickWake PROVE SleeperLeft
  OBVIOUS
<1>0. /\ TypeOK /\ OneExecuting /\ CreateInv /\ NoRestartInv
      /\ state \in [Slots -> ProcessState] /\ sleepTics \in [Slots -> Nat]
  BY DEF ExecInv, TypeOK
<1>1. ASSUME UNCHANGED <<state, sleepTics>> PROVE SleeperLeft
  BY <1>1 DEF SleeperLeft
<1>2. ASSUME NEW ins \in NextInstructions, cpuStep(ins) PROVE SleeperLeft
  <2>1. Running /\ (NothingBlocked \/ CurrentBlocked)
    BY <1>2, cpuStepOutcome
  <2>2. currentActiveProcess \in Slots /\ state[currentActiveProcess] = "EXECUTING"
    BY <1>0, <2>1, CurrentIsSlot DEF Running, OneExecuting
  <2>3. \A s \in Slots : s # currentActiveProcess =>
          state'[s] = state[s] /\ sleepTics'[s] = sleepTics[s]
    BY <1>0, <2>1 DEF NothingBlocked, CurrentBlocked
  <2> QED
    BY <2>2, <2>3 DEF SleeperLeft
<1>3. CASE \/ FetchFails \/ FreePartition \/ CleanNoProcess \/ IdleLoop \/ StopLoop
           \/ TickScan \/ TickNoReady
  BY <1>1, <1>3 DEF FetchFails, FreePartition, CleanNoProcess, IdleLoop, StopLoop, TickScan,
     TickNoReady, table
<1>4. CASE Finish
  <2>1. currentActiveProcess \in Slots /\ state[currentActiveProcess] = "EXECUTING"
    BY <1>0, <1>4, CurrentIsSlot DEF Finish, OneExecuting
  <2> QED
    BY <1>0, <1>4, <2>1 DEF Finish, SleeperLeft
<1>5. CASE TickSave
  BY <1>0, <1>5 DEF TickSave, Outgoing, SleeperLeft
<1>6. CASE TickDispatch
  <2>1. worker.i \in Slots /\ state[worker.i] = "READY"
    BY <1>6 DEF TickDispatch, ExecInv, ScanInv
  <2> QED
    BY <1>0, <1>6, <2>1 DEF TickDispatch, SleeperLeft
<1>7. CASE ReservePCB
  <2>1. PICK r \in Slots : getFreePCBIndex(r) /\ state' = [state EXCEPT ![r] = "NEW"]
    BY <1>7 DEF ReservePCB
  <2> QED
    BY <1>0, <1>7, <2>1 DEF ReservePCB, getFreePCBIndex, SleeperLeft
<1>8. CASE createProcess
  <2>1. console.slot \in Slots /\ state[console.slot] = "NEW"
    BY <1>0, <1>8 DEF createProcess, VerifyFile, Allocate, FillPCB, MakeReady, CreateInv, Creating
  <2>2. \A s \in Slots : s # console.slot => state'[s] = state[s] /\ sleepTics'[s] = sleepTics[s]
    <3>1. CASE VerifyFile \/ Allocate
      <4>1. (GiveUp \/ UNCHANGED state) /\ UNCHANGED sleepTics
        BY <3>1 DEF VerifyFile, Allocate
      <4> QED
        BY <1>0, <4>1 DEF GiveUp
    <3>2. CASE FillPCB \/ MakeReady
      BY <1>0, <3>2 DEF FillPCB, MakeReady
    <3> QED
      BY <1>8, <3>1, <3>2 DEF createProcess
  <2> QED
    BY <2>1, <2>2 DEF SleeperLeft
<1>9. CASE OpenMonitor \/ CloseMonitor \/ Shutdown \/ Join
  BY <1>1, <1>9 DEF OpenMonitor, CloseMonitor, Shutdown, Join, table
<1>10. ~RestartCPU /\ ~handleRestartCommand
  BY <1>0 DEF NoRestart, RestartCPU, handleRestartCommand, RestartMemory, RestartTable,
     RestartActive, NoRestartInv
<1> QED
  BY <1>2, <1>3, <1>4, <1>5, <1>6, <1>7, <1>8, <1>9, <1>10
     DEF Next, cpuThreadWorker, schedulerTick

(* A process sleeps exactly as many ticks as it asked for.                 *)
THEOREM SleepersSleepOut == NoRestart => (Spec => SleepsItsTics)
<1> SUFFICES ASSUME NoRestart PROVE Spec => SleepsItsTics
  OBVIOUS
<1> DEFINE Tick == \A s \in Slots : state[s] = "BLOCKED" =>
             IF TickWake
               THEN /\ sleepTics'[s] = sleepTics[s] - 1
                    /\ state'[s] = IF sleepTics'[s] = 0 THEN "READY" ELSE "BLOCKED"
               ELSE state'[s] = "BLOCKED" /\ sleepTics'[s] = sleepTics[s]
<1>1. Init => ExecInv /\ DispatchInv /\ SleepersHaveTics
  BY InitExec DEF Init, DispatchInv, SleepersHaveTics
<1>2. ExecInv /\ DispatchInv /\ SleepersHaveTics /\ [Next]_vars
        => ExecInv' /\ DispatchInv' /\ SleepersHaveTics'
  BY ExecStep, SleepStep
<1>3. ExecInv /\ SleepersHaveTics /\ [Next]_vars => [Tick]_vars
  <2> SUFFICES ASSUME ExecInv, SleepersHaveTics, Next PROVE Tick
    OBVIOUS
  <2>1. CASE TickWake
    <3>1. \A s \in Slots : state[s] = "BLOCKED" =>
            /\ sleepTics'[s] = sleepTics[s] - 1
            /\ state'[s] = IF sleepTics'[s] = 0 THEN "READY" ELSE "BLOCKED"
      BY <2>1, SleeperTicks DEF ExecInv
    <3> QED
      BY <2>1, <3>1
  <2>2. CASE ~TickWake
    <3>1. SleeperLeft
      BY <2>2, SleeperUndisturbed
    <3> QED
      BY <2>2, <3>1 DEF SleeperLeft
  <2> QED
    BY <2>1, <2>2
<1> QED
  BY <1>1, <1>2, <1>3, PTL DEF Spec, SleepsItsTics

-----------------------------------------------------------------------------
(*                             Registers                                   *)

(* Which entry the registers came from, whose they are, and what they      *)
(* fence: nothing an instruction changes.                                  *)
SameOwner(r, q) == r.slot = q.slot /\ r.pid = q.pid /\ r.RB = q.RB /\ r.RL = q.RL /\ r.RX = q.RX

LEMMA StepKeepsOwner ==
  ASSUME TypeOK, NEW ins \in NextInstructions, cpuStep(ins)
  PROVE  SameOwner(CPU', CPU)
<1>0. CPU \in Registers /\ ins \in Instruction
  BY NextInstructionsType DEF TypeOK
<1> DEFINE e == Executed(ins)
           c == Counted(e)
<1>1. e \in Registers /\ c \in Registers
  BY <1>0, ExecutedType, CountedType
<1>2. SameOwner(e, CPU)
  BY <1>0 DEF Executed, SameOwner, Registers
<1>3. SameOwner(c, e)
  BY <1>1 DEF Counted, SameOwner, Registers
<1>4. PICK outcome : CheckInterrupts(c, interruptBitmap \union ins.raises \union
                       (IF TimerFires(e) THEN {"IC_TIMER"} ELSE {}), ins, outcome)
  BY DEF cpuStep, Cycle
<1> HIDE DEF e, c
<1>5. SameOwner(CPU', c)
  <2>1. CASE CPU' = c
    BY <2>1 DEF SameOwner
  <2>2. CASE CPU' = [c EXCEPT !.interruptEnable = TRUE]
    BY <1>1, <2>2 DEF SameOwner, Registers
  <2>3. ASSUME NEW answer, NEW outcome2, Serve(answer, ins, c, outcome2)
        PROVE  SameOwner(CPU', c)
    BY <1>1, <2>3 DEF Serve, SameOwner, Registers
  <2> QED
    BY <1>4, <2>1, <2>2, <2>3 DEF CheckInterrupts
<1> QED
  BY <1>2, <1>3, <1>5 DEF SameOwner

(* What the CPU thread does to registers: it keeps them, saves those of    *)
(* the current process, or loads those of the next one.                    *)
Kept ==
  /\ SameOwner(CPU', CPU) /\ UNCHANGED context
  /\ \/ /\ UNCHANGED currentActiveProcess
        /\ worker.pc \in {"scan", "dispatch"} => worker'.pc \in {"scan", "dispatch"}
     \/ currentActiveProcess' = NoSlot

Saved ==
  /\ UNCHANGED <<CPU, currentActiveProcess>> /\ worker.pc = "save" /\ worker'.pc = "scan"
  /\ context' = IF currentActiveProcess # NoSlot
                  THEN [context EXCEPT ![currentActiveProcess] = CPU] ELSE context

Loaded ==
  /\ UNCHANGED context /\ worker.pc = "dispatch"
  /\ currentActiveProcess' = worker.i /\ CPU' = context[worker.i]

LEMMA WorkerRegisters ==
  ASSUME ExecInv, cpuThreadWorker
  PROVE  /\ UNCHANGED <<startBlock, blockCount>>
         /\ Kept \/ Saved \/ Loaded
<1>0. TypeOK /\ worker \in WorkerState
  BY DEF ExecInv, TypeOK, WorkerState
<1>1. ASSUME NEW ins \in NextInstructions, cpuStep(ins)
      PROVE  UNCHANGED <<startBlock, blockCount>> /\ Kept
  BY <1>0, <1>1, cpuStepOutcome, StepKeepsOwner DEF Running, kernel, Kept
<1>2. CASE FetchFails \/ FreePartition \/ Finish \/ CleanNoProcess \/ IdleLoop \/ StopLoop \/ TickWake
  BY <1>2 DEF FetchFails, Running, FreePartition, Finish, CleanNoProcess, IdleLoop, StopLoop, TickWake,
              table, kernel, Kept, SameOwner
<1>3. CASE TickScan
  <2>1. worker'.pc \in {"scan", "dispatch"}
    BY <1>0, <1>3 DEF TickScan, WorkerState
  <2> QED
    BY <1>3, <2>1 DEF TickScan, table, kernel, Kept, SameOwner
<1>4. CASE TickNoReady
  BY <1>4 DEF TickNoReady, table, Kept, SameOwner
<1>5. CASE TickSave
  BY <1>5 DEF TickSave, kernel, Saved
<1>6. CASE TickDispatch
  BY <1>6 DEF TickDispatch, Incoming, Loaded
<1> QED
  BY <1>1, <1>2, <1>3, <1>4, <1>5, <1>6 DEF cpuThreadWorker, schedulerTick

(* The console thread only writes the registers of the entry createProcess *)
(* fills in.                                                               *)
LEMMA ConsoleRegisters ==
  ASSUME NoRestart, ExecInv,
         \/ ReservePCB \/ createProcess \/ OpenMonitor \/ CloseMonitor
         \/ RestartCPU \/ handleRestartCommand \/ Shutdown \/ Join
  PROVE  \/ FillPCB
         \/ /\ UNCHANGED <<CPU, context, currentActiveProcess, worker, pid, nextPid, startBlock, blockCount>>
            /\ console'.pc = "filled" => UNCHANGED console
            /\ \A s \in Slots : s \in Live' => s \in Live \/ (s = console.slot /\ console.pc = "filled")
<1>0. /\ TypeOK /\ CreateInv /\ NoRestartInv /\ state \in [Slots -> ProcessState]
      /\ console \in ConsoleState
  BY DEF ExecInv, TypeOK, ConsoleState
<1>1. ~(RestartCPU \/ handleRestartCommand)
  BY <1>0 DEF NoRestart, RestartCPU, handleRestartCommand, RestartMemory, RestartTable,
     RestartActive, NoRestartInv
<1>8. UNCHANGED state => \A s \in Slots : s \in Live' => s \in Live
  BY LiveStates
<1>2. CASE ReservePCB
  <2>1. PICK n \in Slots : /\ state' = [state EXCEPT ![n] = "NEW"]
                           /\ console' = [Prompt EXCEPT !.pc = "reserved", !.slot = n]
    BY <1>2 DEF ReservePCB
  <2>2. console'.pc = "reserved" /\ \A s \in Slots : s \in Live' => s \in Live
    BY <1>0, <2>1, LiveStates DEF Prompt
  <2> QED
    BY <1>2, <2>2 DEF ReservePCB, kernel
<1>3. GiveUp => /\ console'.pc = "prompt"
                /\ \A s \in Slots : s \in Live' => s \in Live
  BY <1>0, LiveStates DEF GiveUp, Prompt
<1>4. CASE VerifyFile
  <2>1. ASSUME NEW w \in WordCounts, console' = [console EXCEPT !.pc = "verified", !.words = w]
        PROVE  console'.pc = "verified"
    BY <1>0, <2>1 DEF ConsoleState
  <2>2. (console'.pc = "verified" /\ UNCHANGED state) \/ GiveUp
    BY <1>4, <2>1 DEF VerifyFile
  <2>3. UNCHANGED <<CPU, context, currentActiveProcess, worker, pid, nextPid, startBlock, blockCount>>
    BY <1>4 DEF VerifyFile, kernel
  <2> QED
    BY <1>3, <1>8, <2>2, <2>3
<1>5. CASE Allocate
  <2> DEFINE required == CalculateRequiredBlocks(console.words)
  <2>1. ASSUME NEW start \in FreeRuns(FREE_PARTITIONS, required),
               console' = [console EXCEPT !.pc = "allocated", !.start = start, !.blocks = required]
        PROVE  console'.pc = "allocated"
    BY <1>0, <2>1 DEF ConsoleState
  <2>2. (console'.pc = "allocated" /\ UNCHANGED state) \/ GiveUp
    BY <1>5, <2>1 DEF Allocate
  <2>3. UNCHANGED <<CPU, context, currentActiveProcess, worker, pid, nextPid, startBlock, blockCount>>
    BY <1>5 DEF Allocate, kernel
  <2> QED
    BY <1>3, <1>8, <2>2, <2>3
<1>6. CASE MakeReady
  BY <1>0, <1>6, LiveStates DEF MakeReady, Prompt, kernel
<1>7. CASE OpenMonitor \/ CloseMonitor \/ Shutdown \/ Join
  <2>1. console'.pc # "filled"
    BY <1>0, <1>7 DEF OpenMonitor, CloseMonitor, Shutdown, Join, Prompt, ConsoleState
  <2>2. UNCHANGED <<state, CPU, context, currentActiveProcess, worker, pid, nextPid, startBlock, blockCount>>
    BY <1>7 DEF OpenMonitor, CloseMonitor, Shutdown, Join, table, kernel
  <2> QED
    BY <1>8, <2>1, <2>2
<1> QED
  BY <1>1, <1>2, <1>4, <1>5, <1>6, <1>7 DEF createProcess

(* What is written into an entry stays in it, also while its process is    *)
(* not ready yet and schedulerTick saves there the registers of the dead   *)
(* process that had the entry before.                                      *)
SlotInv ==
  /\ RegistersStayInSlot
  /\ \A s \in Live : context[s].slot = s
  /\ console.pc = "filled" => context[console.slot].slot = console.slot

LEMMA SlotStep == NoRestart => (ExecInv /\ SlotInv /\ [Next]_vars => SlotInv')
<1> SUFFICES ASSUME NoRestart, ExecInv, SlotInv, [Next]_vars PROVE SlotInv'
  OBVIOUS
<1>0. TypeOK /\ CreateInv /\ context \in [Slots -> Registers]
  BY DEF ExecInv, TypeOK
<1>1. CASE cpuThreadWorker
  <2>1. /\ UNCHANGED console /\ (\A s \in Slots : s \in Live' => s \in Live)
        /\ Kept \/ Saved \/ Loaded
    BY <1>1, WorkerLive, WorkerRegisters
  <2>2. CASE Kept
    BY <2>1, <2>2 DEF Kept, SlotInv, RegistersStayInSlot, SameOwner, Live
  <2>3. CASE Saved
    <3>1. currentActiveProcess # NoSlot => CPU.slot = currentActiveProcess
      BY <2>3 DEF Saved, SlotInv, RegistersStayInSlot
    <3>2. \A s \in Slots : context'[s].slot = IF s = currentActiveProcess THEN s ELSE context[s].slot
      BY <1>0, <2>3, <3>1, NoSlotIsNone DEF Saved
    <3>3. console.pc = "filled" => console.slot \in Slots
      BY <1>0 DEF CreateInv, Creating
    <3> QED
      BY <2>1, <2>3, <3>2, <3>3 DEF Saved, SlotInv, RegistersStayInSlot, Live
  <2>4. CASE Loaded
    <3>1. worker.i \in Slots /\ worker.i \in Live
      BY <2>4 DEF Loaded, ExecInv, ScanInv, Live
    <3> QED
      BY <2>1, <2>4, <3>1 DEF Loaded, SlotInv, RegistersStayInSlot, Live
  <2> QED
    BY <2>1, <2>2, <2>3, <2>4
<1>2. CASE FillPCB
  <2>1. /\ console.slot \in Slots /\ console'.slot = console.slot
        /\ UNCHANGED <<state, CPU, worker, currentActiveProcess>>
    BY <1>0, <1>2 DEF FillPCB, CreateInv, Creating, TypeOK, ConsoleState
  <2>2. \A s \in Slots : context'[s].slot = IF s = console.slot THEN s ELSE context[s].slot
    BY <1>0, <1>2, <2>1 DEF FillPCB, NewContext
  <2> QED
    BY <2>1, <2>2 DEF SlotInv, RegistersStayInSlot, Live
<1>3. CASE /\ UNCHANGED <<CPU, context, currentActiveProcess, worker>>
           /\ console'.pc = "filled" => UNCHANGED console
           /\ \A s \in Slots : s \in Live' => s \in Live \/ (s = console.slot /\ console.pc = "filled")
  BY <1>3 DEF SlotInv, RegistersStayInSlot, Live
<1>4. CASE UNCHANGED vars
  BY <1>4 DEF vars, table, kernel, SlotInv, RegistersStayInSlot, Live
<1> QED
  BY <1>1, <1>2, <1>3, <1>4, ConsoleRegisters DEF Next

(* The registers of an entry never end up in another entry.                *)
THEOREM RegistersKeepTheirSlot == NoRestart => (Spec => []RegistersStayInSlot)
<1> SUFFICES ASSUME NoRestart PROVE Spec => []RegistersStayInSlot
  OBVIOUS
<1>1. Init => ExecInv /\ DispatchInv /\ SlotInv
  BY InitExec DEF Init, DispatchInv, SlotInv, RegistersStayInSlot, Live, Prompt, ResetCPU
<1>2. ExecInv /\ DispatchInv /\ SlotInv /\ [Next]_vars => ExecInv' /\ DispatchInv' /\ SlotInv'
  BY ExecStep, SlotStep
<1>3. SlotInv => RegistersStayInSlot
  BY DEF SlotInv
<1> QED
  BY <1>1, <1>2, <1>3, PTL DEF Spec

-----------------------------------------------------------------------------
(* What makes RegistersFencePartition inductive: wherever the registers of *)
(* a process are, in its entry, in the CPU or in the entry of another one, *)
(* they fence its partitions, and no registers have a pid yet to be given. *)
HasPid(s) == s \in Live \/ (s = console.slot /\ console.pc = "filled")

FencedBy(r, start, count) ==
  /\ r.RB = GET_BASE_REGISTER(start)
  /\ r.RL = GET_LIMIT_REGISTER(r.RB, count)
  /\ OS_RESERVED_SIZE <= r.RB /\ r.RL < RAM_SIZE
  /\ r.RB + r.RX + MIN_STACK_SIZE \in r.RL + 2 - PARTITION_SIZE .. r.RL + 1

FenceInv ==
  /\ nextPid >= 1 /\ CPU.pid < nextPid
  /\ \A t \in Slots : context[t].pid < nextPid
  /\ \A s \in Slots : HasPid(s) =>
       /\ pid[s] >= 1 /\ pid[s] < nextPid
       /\ \A t \in Slots : context[t].pid = pid[s] => FencedBy(context[t], startBlock[s], blockCount[s])
       /\ CPU.pid = pid[s] => FencedBy(CPU, startBlock[s], blockCount[s])

(* createProcess asks for what CalculateRequiredBlocks says. *)
RequiredInv ==
  Holding => console.blocks = CalculateRequiredBlocks(console.words)

(* The registers of a new process fence the run it was given. *)
LEMMA NewContextFences ==
  ASSUME TypeOK, RunsInv, RequiredInv, Holding
  PROVE  FencedBy(NewContext, console.start, console.blocks)
<1> DEFINE P == PARTITION_SIZE
           start == console.start
           blocks == console.blocks
           words == console.words
           RB == GET_BASE_REGISTER(start)
           RL == GET_LIMIT_REGISTER(RB, blocks)
<1>1. /\ start \in Nat /\ blocks \in Nat /\ words \in Nat /\ start + blocks <= MAX_PROCESSES
      /\ blocks = CalculateRequiredBlocks(words) /\ blocks # 0
  BY GeometryAssumption DEF TypeOK, ConsoleState, RunsInv, RequiredInv, Blocks
<1>2. /\ P \in Nat \ {0} /\ MAX_PROCESSES \in Nat /\ OS_RESERVED_SIZE \in Nat /\ RAM_SIZE \in Nat
      /\ MIN_STACK_SIZE \in Nat /\ OS_RESERVED_SIZE + MAX_PROCESSES * P <= RAM_SIZE
  BY GeometryAssumption
<1>3. blocks * P >= words + MIN_STACK_SIZE /\ (blocks - 1) * P < words + MIN_STACK_SIZE
  <2>1. RequiredBlocksMinimal(words)
    BY <1>1, RequiredBlocksMeaning
  <2> QED
    BY <1>1, <1>2, <2>1 DEF RequiredBlocksMinimal, Fits
<1>4. NewContext.RB = RB /\ NewContext.RL = RL /\ NewContext.RX = words
  BY DEF NewContext
<1>5. RB = OS_RESERVED_SIZE + start * P /\ RL = RB + blocks * P - 1
  BY DEF GET_BASE_REGISTER, GET_LIMIT_REGISTER
<1> HIDE DEF P, start, blocks, words, RB, RL
<1>6. start * P \in Nat /\ blocks * P \in Int /\ (blocks - 1) * P = blocks * P - P
  BY <1>1, <1>2
<1>7. start * P + blocks * P <= MAX_PROCESSES * P
  <2>1. start * P + blocks * P = (start + blocks) * P
    BY <1>1, <1>2
  <2>2. (start + blocks) * P <= MAX_PROCESSES * P
    BY <1>1, <1>2
  <2> QED
    BY <2>1, <2>2
<1>8. MAX_PROCESSES * P \in Int
  BY <1>2
<1>9. OS_RESERVED_SIZE <= RB /\ RL < RAM_SIZE
  BY <1>2, <1>5, <1>6, <1>7, <1>8
<1>10. RB + words + MIN_STACK_SIZE \in RL + 2 - P .. RL + 1
  BY <1>1, <1>2, <1>3, <1>5, <1>6
<1> QED
  BY <1>4, <1>9, <1>10 DEF FencedBy, RB, RL, P, start, blocks

LEMMA RequiredStep ==
  ASSUME NoRestart, ExecInv, RequiredInv, [Next]_vars
  PROVE  RequiredInv'
<1>0. TypeOK /\ NoRestartInv /\ console \in ConsoleState
  BY DEF ExecInv, TypeOK, ConsoleState
<1>1. CASE UNCHANGED console
  BY <1>1 DEF RequiredInv, Holding
<1>2. CASE console'.pc \notin {"allocated", "filled"}
  BY <1>2 DEF RequiredInv, Holding
<1>3. CASE ReservePCB
  BY <1>2, <1>3 DEF ReservePCB, Prompt
<1>4. GiveUp => RequiredInv'
  BY <1>2 DEF GiveUp, Prompt
<1>5. CASE VerifyFile
  <2>1. ASSUME NEW w \in WordCounts, console' = [console EXCEPT !.pc = "verified", !.words = w]
        PROVE  RequiredInv'
    BY <1>0, <1>2, <2>1 DEF ConsoleState
  <2> QED
    BY <1>4, <1>5, <2>1 DEF VerifyFile
<1>6. CASE Allocate
  <2> DEFINE required == CalculateRequiredBlocks(console.words)
  <2>1. ASSUME NEW start \in FreeRuns(FREE_PARTITIONS, required), required # 0,
               console' = [console EXCEPT !.pc = "allocated", !.start = start, !.blocks = required]
        PROVE  RequiredInv'
    <3> HIDE DEF required
    <3>1. console'.blocks = required /\ console'.words = console.words
      BY <1>0, <2>1 DEF ConsoleState
    <3> QED
      BY <2>1, <3>1 DEF RequiredInv, required
  <2> QED
    BY <1>4, <1>6, <2>1 DEF Allocate
<1>7. CASE FillPCB
  <2>1. Holding /\ console'.blocks = console.blocks /\ console'.words = console.words
    BY <1>0, <1>7 DEF FillPCB, Holding, ConsoleState
  <2> QED
    BY <2>1 DEF RequiredInv
<1>8. CASE MakeReady \/ OpenMonitor \/ CloseMonitor \/ Shutdown \/ Join
  BY <1>0, <1>2, <1>8 DEF MakeReady, OpenMonitor, CloseMonitor, Shutdown, Join, Prompt, ConsoleState
<1>9. CASE RestartCPU \/ handleRestartCommand
  BY <1>0, <1>9 DEF NoRestart, RestartCPU, handleRestartCommand, RestartMemory, RestartTable,
     RestartActive, NoRestartInv
<1>10. CASE cpuThreadWorker
  BY <1>0, <1>1, <1>10, WorkerLive
<1> QED
  BY <1>1, <1>3, <1>5, <1>6, <1>7, <1>8, <1>9, <1>10 DEF Next, createProcess, vars

LEMMA FenceStep ==
  ASSUME NoRestart, ExecInv, RunsInv, RequiredInv, FenceInv, [Next]_vars
  PROVE  FenceInv'
<1>0. /\ TypeOK /\ CreateInv /\ ScanInv /\ context \in [Slots -> Registers]
      /\ pid \in [Slots -> Nat \union {-1}] /\ nextPid \in Nat
  BY DEF ExecInv, TypeOK
<1>1. CASE cpuThreadWorker
  <2>1. /\ UNCHANGED <<pid, nextPid, console, startBlock, blockCount>>
        /\ \A s \in Slots : HasPid(s)' => HasPid(s)
        /\ Kept \/ Saved \/ Loaded
    BY <1>1, WorkerLive, WorkerRegisters DEF HasPid
  <2>2. CASE Kept
    <3>1. CPU'.pid = CPU.pid
      BY <2>2 DEF Kept, SameOwner
    <3>2. \A start, count : FencedBy(CPU, start, count) => FencedBy(CPU', start, count)
      BY <2>2 DEF Kept, SameOwner, FencedBy
    <3> QED
      BY <2>1, <2>2, <3>1, <3>2 DEF Kept, FenceInv
  <2>3. CASE Saved
    <3>1. \A t \in Slots : context'[t] \in {context[t], CPU}
      BY <1>0, <2>3 DEF Saved
    <3> QED
      BY <2>1, <2>3, <3>1 DEF Saved, FenceInv
  <2>4. CASE Loaded
    <3>1. worker.i \in Slots
      BY <1>0, <2>4 DEF Loaded, ScanInv
    <3> QED
      BY <2>1, <2>4, <3>1 DEF Loaded, FenceInv
  <2> QED
    BY <2>1, <2>2, <2>3, <2>4
<1>2. CASE FillPCB
  <2>1. PICK n \in Slots : n = console.slot /\ state[n] = "NEW"
    BY <1>0, <1>2 DEF FillPCB, CreateInv, Creating
  <2>2. /\ console'.slot = n /\ UNCHANGED <<state, CPU>> /\ nextPid' = nextPid + 1
        /\ \A s \in Slots : /\ pid'[s] = IF s = n THEN nextPid ELSE pid[s]
                            /\ startBlock'[s] = IF s = n THEN console.start ELSE startBlock[s]
                            /\ blockCount'[s] = IF s = n THEN console.blocks ELSE blockCount[s]
                            /\ context'[s] = IF s = n THEN NewContext ELSE context[s]
    BY <1>0, <1>2, <2>1 DEF FillPCB, TypeOK, ConsoleState
  <2>3. NewContext.pid = nextPid /\ FencedBy(NewContext, console.start, console.blocks)
    BY <1>0, <1>2, NewContextFences DEF FillPCB, Holding, NewContext
  <2>4. \A s \in Slots : HasPid(s)' => s = n \/ (s # n /\ HasPid(s))
    BY <2>2, LiveStates DEF HasPid
  <2>5. CPU'.pid < nextPid' /\ nextPid' >= 1 /\ CPU.pid < nextPid /\ CPU.pid \in Nat
        /\ \A t \in Slots : context[t].pid < nextPid /\ context[t].pid \in Nat
    BY <1>0, <2>2, RegistersFields DEF FenceInv, TypeOK
  <2>6. \A t \in Slots : context'[t].pid < nextPid'
    BY <1>0, <2>2, <2>3, <2>5
  <2>7. ASSUME NEW s \in Slots, s # n, HasPid(s)
        PROVE  /\ pid'[s] >= 1 /\ pid'[s] < nextPid'
               /\ \A t \in Slots :
                    context'[t].pid = pid'[s] => FencedBy(context'[t], startBlock'[s], blockCount'[s])
               /\ CPU'.pid = pid'[s] => FencedBy(CPU', startBlock'[s], blockCount'[s])
    <3>1. pid'[s] = pid[s] /\ pid[s] >= 1 /\ pid[s] < nextPid /\ pid[s] \in Nat
      BY <1>0, <2>2, <2>7 DEF FenceInv
    <3>2. startBlock'[s] = startBlock[s] /\ blockCount'[s] = blockCount[s] /\ CPU' = CPU
      BY <2>2, <2>7
    <3>3. \A t \in Slots : context'[t].pid = pid'[s] => context'[t] = context[t]
      BY <1>0, <2>2, <2>3, <3>1
    <3>4. /\ \A t \in Slots : context[t].pid = pid[s] => FencedBy(context[t], startBlock[s], blockCount[s])
          /\ CPU.pid = pid[s] => FencedBy(CPU, startBlock[s], blockCount[s])
      BY <2>7 DEF FenceInv
    <3>5. ASSUME NEW t \in Slots, context'[t].pid = pid'[s]
          PROVE  FencedBy(context'[t], startBlock'[s], blockCount'[s])
      <4>1. context'[t] = context[t] /\ context[t].pid = pid[s]
        BY <3>1, <3>3, <3>5
      <4>2. FencedBy(context[t], startBlock[s], blockCount[s])
        BY <3>4, <4>1
      <4> QED
        BY <3>2, <4>1, <4>2
    <3>6. CPU'.pid = pid'[s] => FencedBy(CPU', startBlock'[s], blockCount'[s])
      BY <3>1, <3>2, <3>4
    <3>7. pid'[s] >= 1 /\ pid'[s] < nextPid'
      BY <1>0, <2>2, <3>1
    <3> QED
      BY <3>5, <3>6, <3>7
  <2>8. /\ pid'[n] >= 1 /\ pid'[n] < nextPid'
        /\ \A t \in Slots : context'[t].pid = pid'[n] => FencedBy(context'[t], startBlock'[n], blockCount'[n])
        /\ CPU'.pid # pid'[n]
    <3>1. \A t \in Slots : context'[t].pid = pid'[n] => t = n
      BY <1>0, <2>2, <2>5
    <3> QED
      BY <1>0, <2>1, <2>2, <2>3, <2>5, <3>1 DEF FenceInv
  <2> QED
    BY <2>4, <2>5, <2>6, <2>7, <2>8 DEF FenceInv
<1>3. CASE /\ UNCHANGED <<CPU, context, pid, nextPid, startBlock, blockCount>>
           /\ console'.pc = "filled" => UNCHANGED console
           /\ \A s \in Slots : s \in Live' => s \in Live \/ (s = console.slot /\ console.pc = "filled")
  <2>1. \A s \in Slots : HasPid(s)' => HasPid(s)
    BY <1>3 DEF HasPid
  <2> QED
    BY <1>3, <2>1 DEF FenceInv
<1>4. CASE UNCHANGED vars
  <2>1. UNCHANGED <<CPU, context, pid, nextPid, startBlock, blockCount, state, console>>
    BY <1>4 DEF vars, table, kernel
  <2>2. \A s \in Slots : HasPid(s)' => HasPid(s)
    BY <2>1, LiveStates DEF HasPid
  <2> QED
    BY <2>1, <2>2 DEF FenceInv
<1> QED
  BY <1>1, <1>2, <1>3, <1>4, ConsoleRegisters DEF Next

(* The protection registers of a process fence exactly the partitions it   *)
(* holds, which have room for the program and its stack: a program that    *)
(* keeps to them keeps to its own memory, however entries are reused.      *)
THEOREM RegistersFence == NoRestart => (Spec => []RegistersFencePartition)
<1> SUFFICES ASSUME NoRestart PROVE Spec => []RegistersFencePartition
  OBVIOUS
<1>1. Init => ExecInv /\ DispatchInv /\ PartInv /\ RequiredInv /\ FenceInv
  <2> SUFFICES ASSUME Init PROVE ExecInv /\ DispatchInv /\ PartInv /\ RequiredInv /\ FenceInv
    OBVIOUS
  <2>1. \A s \in Slots : ~HasPid(s) /\ context[s].pid = 0
    BY DEF Init, HasPid, Live, Prompt, ResetCPU
  <2>2. ~Holding /\ CPU.pid = 0 /\ nextPid = 1
    BY DEF Init, Holding, Prompt, ResetCPU
  <2> QED
    BY <2>1, <2>2, InitExec, InitPart DEF Init, DispatchInv, RequiredInv, FenceInv
<1>2. ExecInv /\ DispatchInv /\ PartInv /\ RequiredInv /\ FenceInv /\ [Next]_vars
        => ExecInv' /\ DispatchInv' /\ PartInv' /\ RequiredInv' /\ FenceInv'
  BY ExecStep, PartStep, RequiredStep, FenceStep DEF PartInv
<1>3. FenceInv => RegistersFencePartition
  BY DEF FenceInv, FencedBy, RegistersFencePartition, Fenced, HasPid, Live
<1> QED
  BY <1>1, <1>2, <1>3, PTL DEF Spec

-----------------------------------------------------------------------------
(*                         The order of the round robin                    *)

(* How far entry t is behind the one after s, going round: entry s itself  *)
(* is the last.                                                            *)
Distance(s, t) == IF t > s THEN t - s - 1 ELSE t - s - 1 + MAX_PROCESSES

(* The entries dispatched while s is READY lie behind each other on the    *)
(* way round to s, the current process is the last of them, and the scan   *)
(* goes on from there: it cannot go past s, and can return to none of      *)
(* them.  With nobody left to run (NoSlot, where the scan starts over at   *)
(* entry 0), nobody that is READY has been overtaken.                      *)
OrderInv ==
  /\ overtakenBy \in [Slots -> SUBSET Slots]
  /\ \A s \in Slots : overtakenBy[s] # {} =>
       /\ state[s] = "READY"
       /\ currentActiveProcess \in Slots /\ currentActiveProcess # s
       /\ \A t \in overtakenBy[s] : Distance(s, t) <= Distance(s, currentActiveProcess)
       /\ worker.pc = "scan" =>
            worker.i <= MAX_PROCESSES - 2 - Distance(s, currentActiveProcess)
       /\ worker.pc = "dispatch" =>
            \/ worker.i = s
            \/ Distance(s, worker.i) > Distance(s, currentActiveProcess)

LEMMA DistanceType ==
  ASSUME NEW s \in Slots, NEW t \in Slots
  PROVE  /\ Distance(s, t) \in 0 .. MAX_PROCESSES - 1
         /\ Distance(s, t) = MAX_PROCESSES - 1 <=> t = s
BY SomeSlots DEF Distance, Slots

(* Going round once more than MAX_PROCESSES - 1 starts over at 0. *)
LEMMA GoingRound ==
  ASSUME NEW n \in 0 .. 2 * MAX_PROCESSES - 1
  PROVE  n % MAX_PROCESSES = IF n < MAX_PROCESSES THEN n ELSE n - MAX_PROCESSES
<1> DEFINE M == MAX_PROCESSES
           r == IF n < M THEN n ELSE n - M
           q == n \div M
           m == n % M
<1>1. M \in Nat \ {0} /\ n \in Nat /\ r \in 0 .. M - 1
  BY SomeSlots
<1>2. q \in Nat /\ m \in 0 .. M - 1 /\ n = M * q + m
  BY <1>1
<1>3. q <= 1
  <2>1. SUFFICES ASSUME q >= 2 PROVE FALSE
    BY <1>2
  <2>2. M * q >= M * 2
    BY <1>1, <1>2, <2>1
  <2> QED
    BY <1>1, <1>2, <2>2
<1>4. q = 0 \/ q = 1
  BY <1>2, <1>3
<1>5. M * 0 = 0 /\ M * 1 = M
  BY <1>1
<1>6. m = r
  <2> HIDE DEF m, q
  <2>1. CASE q = 0
    BY <1>1, <1>2, <1>5, <2>1
  <2>2. CASE q = 1
    BY <1>1, <1>2, <1>5, <2>2
  <2> QED
    BY <1>4, <2>1, <2>2
<1> QED
  BY <1>6

(* The scan looks at the entries behind the current one in order of their  *)
(* distance, and comes to s when it has looked at all before it.           *)
LEMMA ScanOrder ==
  ASSUME TypeOK, NEW s \in Slots, currentActiveProcess \in Slots, currentActiveProcess # s,
         worker.i <= MAX_PROCESSES - 2 - Distance(s, currentActiveProcess)
  PROVE  /\ checkIndex \in Slots
         /\ Distance(s, checkIndex) = Distance(s, currentActiveProcess) + 1 + worker.i
<1> DEFINE M == MAX_PROCESSES
           c == currentActiveProcess
           i == worker.i
           b == IF c + 1 < M THEN c + 1 ELSE 0
<1>1. M \in Nat \ {0} /\ c \in 0 .. M - 1 /\ s \in 0 .. M - 1 /\ c # s /\ i \in Nat
  BY SomeSlots DEF TypeOK, WorkerState, Slots
<1>2. i <= M - 2 - (IF c > s THEN c - s - 1 ELSE c - s - 1 + M)
  BY DEF Distance
<1>3. startIndex = b
  <2>1. startIndex = (c + 1) % M
    BY <1>1 DEF startIndex, NoSlot
  <2> QED
    BY <1>1, <2>1, GoingRound
<1>4. b + i \in 0 .. 2 * M - 1 /\ checkIndex = (b + i) % M
  <2>1. checkIndex = (b + i) % M
    BY <1>3 DEF checkIndex
  <2> QED
    BY <1>1, <1>2, <2>1
<1> DEFINE n == b + i
<1>5. /\ n < M => checkIndex = n
      /\ n >= M => checkIndex = n - M
  <2>1. n \in 0 .. 2 * M - 1 /\ checkIndex = n % M
    BY <1>4
  <2> HIDE DEF n
  <2> QED
    BY <2>1, GoingRound, SomeSlots
<1> HIDE DEF M, c, i
<1>6. checkIndex \in 0 .. M - 1
      /\ (IF checkIndex > s THEN checkIndex - s - 1 ELSE checkIndex - s - 1 + M)
           = (IF c > s THEN c - s - 1 ELSE c - s - 1 + M) + 1 + i
  BY <1>1, <1>2, <1>5
<1> QED
  BY <1>6 DEF Distance, Slots, M, c, i

LEMMA NoDispatch ==
  ASSUME TypeOK, Overtaking,
         \A s \in Slots : state'[s] = "EXECUTING" => state[s] = "EXECUTING"
  PROVE  /\ Dispatched = {}
         /\ overtakenBy' = [s \in Slots |->
              IF state[s] = "READY" /\ state'[s] = "READY" THEN overtakenBy[s] ELSE {}]
<1>1. Dispatched = {}
  BY DEF Dispatched
<1> QED
  BY <1>1 DEF Overtaking

(* A step that dispatches nobody and does not go on with the scan.         *)
LEMMA OrderFrame ==
  ASSUME TypeOK, OrderInv, Overtaking, UNCHANGED currentActiveProcess,
         \A s \in Slots : state'[s] = "EXECUTING" => state[s] = "EXECUTING",
         \/ UNCHANGED worker
         \/ worker'.pc \notin {"scan", "dispatch"}
         \/ worker'.pc = "scan" /\ worker'.i = 0
  PROVE  OrderInv' /\ Dispatched = {}
<1>1. /\ Dispatched = {}
      /\ overtakenBy' = [s \in Slots |->
           IF state[s] = "READY" /\ state'[s] = "READY" THEN overtakenBy[s] ELSE {}]
  BY NoDispatch
<1>2. overtakenBy' \in [Slots -> SUBSET Slots]
  BY <1>1 DEF OrderInv
<1>3. ASSUME NEW s \in Slots, overtakenBy'[s] # {}
      PROVE  /\ state'[s] = "READY"
             /\ currentActiveProcess' \in Slots /\ currentActiveProcess' # s
             /\ \A t \in overtakenBy'[s] : Distance(s, t) <= Distance(s, currentActiveProcess')
             /\ worker'.pc = "scan" =>
                  worker'.i <= MAX_PROCESSES - 2 - Distance(s, currentActiveProcess')
             /\ worker'.pc = "dispatch" =>
                  \/ worker'.i = s
                  \/ Distance(s, worker'.i) > Distance(s, currentActiveProcess')
  <2>1. state'[s] = "READY" /\ overtakenBy'[s] = overtakenBy[s]
    BY <1>1, <1>3
  <2>2. /\ currentActiveProcess \in Slots /\ currentActiveProcess # s
        /\ \A t \in overtakenBy[s] : Distance(s, t) <= Distance(s, currentActiveProcess)
        /\ worker.pc = "scan" =>
             worker.i <= MAX_PROCESSES - 2 - Distance(s, currentActiveProcess)
        /\ worker.pc = "dispatch" =>
             \/ worker.i = s
             \/ Distance(s, worker.i) > Distance(s, currentActiveProcess)
    BY <1>3, <2>1 DEF OrderInv
  <2>3. 0 <= MAX_PROCESSES - 2 - Distance(s, currentActiveProcess)
    BY <2>2, DistanceType, SomeSlots
  <2> QED
    BY <2>1, <2>2, <2>3
<1>4. OrderInv'
  BY <1>2, <1>3 DEF OrderInv
<1> QED
  BY <1>1, <1>4

(* The scan goes on, towards those who have been overtaken.                *)
LEMMA OrderScan ==
  ASSUME ExecInv, OrderInv, Overtaking, TickScan
  PROVE  OrderInv' /\ Dispatched = {}
<1>0. TypeOK
  BY DEF ExecInv
<1>1. /\ worker.pc = "scan" /\ UNCHANGED <<state, currentActiveProcess>>
      /\ worker' = IF state[checkIndex] = "READY"
                     THEN [pc |-> "dispatch", i |-> checkIndex]
                     ELSE [worker EXCEPT !.i = @ + 1]
  BY DEF TickScan, table, kernel
<1>2. /\ Dispatched = {}
      /\ overtakenBy' = [s \in Slots |->
           IF state[s] = "READY" /\ state'[s] = "READY" THEN overtakenBy[s] ELSE {}]
  BY <1>0, <1>1, NoDispatch
<1>3. overtakenBy' \in [Slots -> SUBSET Slots]
  BY <1>2 DEF OrderInv
<1>4. ASSUME NEW s \in Slots, overtakenBy'[s] # {}
      PROVE  /\ state'[s] = "READY"
             /\ currentActiveProcess' \in Slots /\ currentActiveProcess' # s
             /\ \A t \in overtakenBy'[s] : Distance(s, t) <= Distance(s, currentActiveProcess')
             /\ worker'.pc = "scan" =>
                  worker'.i <= MAX_PROCESSES - 2 - Distance(s, currentActiveProcess')
             /\ worker'.pc = "dispatch" =>
                  \/ worker'.i = s
                  \/ Distance(s, worker'.i) > Distance(s, currentActiveProcess')
  <2>1. state[s] = "READY" /\ overtakenBy'[s] = overtakenBy[s]
    BY <1>1, <1>2, <1>4
  <2>2. /\ currentActiveProcess \in Slots /\ currentActiveProcess # s
        /\ \A t \in overtakenBy[s] : Distance(s, t) <= Distance(s, currentActiveProcess)
        /\ worker.i <= MAX_PROCESSES - 2 - Distance(s, currentActiveProcess)
    BY <1>1, <1>4, <2>1 DEF OrderInv
  <2>3. /\ checkIndex \in Slots
        /\ Distance(s, checkIndex) = Distance(s, currentActiveProcess) + 1 + worker.i
    BY <1>0, <2>2, ScanOrder
  <2>4. /\ Distance(s, currentActiveProcess) \in Nat /\ worker.i \in Nat
        /\ Distance(s, checkIndex) \in 0 .. MAX_PROCESSES - 1
        /\ Distance(s, checkIndex) = MAX_PROCESSES - 1 <=> checkIndex = s
    BY <1>0, <2>2, <2>3, DistanceType DEF TypeOK, WorkerState
  <2>5. CASE state[checkIndex] = "READY"
    <3>1. worker'.pc = "dispatch" /\ worker'.i = checkIndex
      BY <1>1, <2>5
    <3> QED
      BY <1>1, <2>1, <2>2, <2>3, <2>4, <3>1
  <2>6. CASE state[checkIndex] # "READY"
    <3>1. worker'.pc = "scan" /\ worker'.i = worker.i + 1
      BY <1>0, <1>1, <2>6 DEF TypeOK, WorkerState
    <3>2. checkIndex # s
      BY <2>1, <2>6
    <3>3. worker.i + 1 <= MAX_PROCESSES - 2 - Distance(s, currentActiveProcess)
      BY <2>3, <2>4, <3>2, SomeSlots
    <3> QED
      BY <1>1, <2>1, <2>2, <3>1, <3>3
  <2> QED
    BY <2>5, <2>6
<1>5. OrderInv'
  BY <1>3, <1>4 DEF OrderInv
<1> QED
  BY <1>2, <1>5

LEMMA OrderDispatch ==
  ASSUME ExecInv, OrderInv, Overtaking, TickDispatch
  PROVE  /\ OrderInv' /\ Dispatched = {worker.i}
         /\ \A s \in Slots : state[s] = "READY" /\ worker.i # s => worker.i \notin overtakenBy[s]
<1>0. TypeOK /\ state \in [Slots -> ProcessState]
  BY DEF ExecInv, TypeOK
<1> DEFINE t == worker.i
<1>1. t \in Slots /\ state[t] = "READY" /\ worker.pc = "dispatch"
      /\ \A s \in Slots : state[s] # "EXECUTING"
  BY DEF TickDispatch, ExecInv, ScanInv
<1>2. /\ worker'.pc = "loop" /\ currentActiveProcess' = t
      /\ \A s \in Slots : state'[s] = IF s = t THEN "EXECUTING" ELSE state[s]
  BY <1>0 DEF TickDispatch
<1> HIDE DEF t
<1>3. Dispatched = {t}
  BY <1>1, <1>2 DEF Dispatched
<1>4. overtakenBy' = [s \in Slots |->
        IF state[s] = "READY" /\ s # t THEN overtakenBy[s] \union {t} ELSE {}]
  BY <1>2, <1>3 DEF Overtaking
<1>5. overtakenBy' \in [Slots -> SUBSET Slots]
  BY <1>1, <1>4 DEF OrderInv
<1>6. ASSUME NEW s \in Slots, s # t, NEW o \in overtakenBy[s]
      PROVE  Distance(s, o) < Distance(s, t)
  <2>1. /\ currentActiveProcess \in Slots
        /\ Distance(s, o) <= Distance(s, currentActiveProcess)
        /\ Distance(s, t) > Distance(s, currentActiveProcess)
    BY <1>1, <1>6 DEF OrderInv, t
  <2>2. o \in Slots
    BY <1>6 DEF OrderInv
  <2> QED
    BY <1>1, <2>1, <2>2, DistanceType, SomeSlots
<1>7. ASSUME NEW s \in Slots, overtakenBy'[s] # {}
      PROVE  /\ state'[s] = "READY" /\ t # s
             /\ \A o \in overtakenBy'[s] : Distance(s, o) <= Distance(s, t)
  <2>1. state[s] = "READY" /\ s # t /\ overtakenBy'[s] = overtakenBy[s] \union {t}
    BY <1>4, <1>7
  <2>2. ASSUME NEW o \in overtakenBy[s] PROVE Distance(s, o) <= Distance(s, t)
    <3>1. Distance(s, o) < Distance(s, t) /\ o \in Slots
      BY <1>6, <2>1 DEF OrderInv
    <3> QED
      BY <1>1, <3>1, DistanceType, SomeSlots
  <2>3. Distance(s, t) <= Distance(s, t)
    BY <1>1, DistanceType, SomeSlots
  <2> QED
    BY <1>2, <2>1, <2>2, <2>3
<1>8. OrderInv'
  BY <1>1, <1>2, <1>5, <1>7 DEF OrderInv
<1>9. ASSUME NEW s \in Slots, state[s] = "READY", t # s PROVE t \notin overtakenBy[s]
  <2>1. SUFFICES ASSUME t \in overtakenBy[s] PROVE FALSE
    OBVIOUS
  <2>2. Distance(s, t) < Distance(s, t)
    BY <1>6, <1>9, <2>1
  <2> QED
    BY <1>1, <2>2, DistanceType, SomeSlots
<1> QED
  BY <1>3, <1>8, <1>9 DEF t

(* A scan that finds nobody has looked at everybody who was overtaken.     *)
LEMMA OrderNoReady ==
  ASSUME ExecInv, OrderInv, Overtaking, TickNoReady
  PROVE  OrderInv' /\ Dispatched = {}
<1>0. TypeOK
  BY DEF ExecInv
<1>1. worker.pc = "scan" /\ worker.i = MAX_PROCESSES /\ UNCHANGED state
  BY DEF TickNoReady, table
<1>2. \A s \in Slots : overtakenBy[s] = {}
  <2> SUFFICES ASSUME NEW s \in Slots, overtakenBy[s] # {} PROVE FALSE
    OBVIOUS
  <2>1. /\ currentActiveProcess \in Slots
        /\ worker.i <= MAX_PROCESSES - 2 - Distance(s, currentActiveProcess)
    BY <1>1 DEF OrderInv
  <2> QED
    BY <1>1, <2>1, DistanceType, SomeSlots
<1>3. /\ Dispatched = {}
      /\ overtakenBy' = [s \in Slots |->
           IF state[s] = "READY" /\ state'[s] = "READY" THEN overtakenBy[s] ELSE {}]
  BY <1>0, <1>1, NoDispatch
<1>4. overtakenBy' \in [Slots -> SUBSET Slots] /\ \A s \in Slots : overtakenBy'[s] = {}
  BY <1>2, <1>3
<1> QED
  BY <1>3, <1>4 DEF OrderInv

LEMMA OrderStep ==
  ASSUME NoRestart, ExecInv, DispatchInv, OrderInv, Overtaking, [Next]_vars
  PROVE  /\ OrderInv'
         /\ \A s \in Slots : state[s] = "READY" =>
              \A t \in Dispatched : t # s => t \notin overtakenBy[s]
<1>0. /\ TypeOK /\ CreateInv /\ state \in [Slots -> ProcessState]
  BY DEF ExecInv, TypeOK
<1> SUFFICES \/ OrderInv' /\ Dispatched = {}
             \/ /\ OrderInv' /\ Dispatched = {worker.i}
                /\ \A s \in Slots : state[s] = "READY" /\ worker.i # s => worker.i \notin overtakenBy[s]
  OBVIOUS
<1>1. ASSUME NEW ins \in NextInstructions, cpuStep(ins) PROVE OrderInv' /\ Dispatched = {}
  <2>1. /\ NothingBlocked \/ CurrentBlocked
        /\ UNCHANGED currentActiveProcess /\ currentActiveProcess \in Slots
    BY <1>0, <1>1, cpuStepOutcome, CurrentIsSlot DEF kernel, cpuStep, Running
  <2>2. /\ worker'.pc \notin {"scan", "dispatch"}
        /\ \A s \in Slots : state'[s] = "EXECUTING" => state[s] = "EXECUTING"
    BY <1>0, <2>1 DEF NothingBlocked, CurrentBlocked, WorkerAt
  <2> QED
    BY <1>0, <2>1, <2>2, OrderFrame
<1>2. CASE FetchFails \/ FreePartition \/ CleanNoProcess \/ IdleLoop \/ StopLoop
  <2>1. UNCHANGED <<state, currentActiveProcess>> /\ worker'.pc \notin {"scan", "dispatch"}
    BY <1>0, <1>2 DEF FetchFails, FreePartition, CleanNoProcess, IdleLoop, StopLoop, AfterStep,
       table, kernel, TypeOK, WorkerState
  <2> QED
    BY <1>0, <2>1, OrderFrame
<1>3. CASE Finish
  <2>1. /\ UNCHANGED currentActiveProcess /\ worker'.pc = "wake"
        /\ \A s \in Slots : state'[s] = "EXECUTING" => state[s] = "EXECUTING"
    BY <1>0, <1>3 DEF Finish, kernel
  <2> QED
    BY <1>0, <2>1, OrderFrame
<1>4. CASE TickWake
  <2>1. /\ UNCHANGED currentActiveProcess /\ worker'.pc = "save"
        /\ \A s \in Slots : state'[s] = "EXECUTING" => state[s] = "EXECUTING"
    BY <1>0, <1>4 DEF TickWake, kernel, TypeOK, WorkerState
  <2> QED
    BY <1>0, <2>1, OrderFrame
<1>5. CASE TickSave
  <2>1. /\ UNCHANGED currentActiveProcess /\ worker'.pc = "scan" /\ worker'.i = 0
        /\ \A s \in Slots : state'[s] = "EXECUTING" => state[s] = "EXECUTING"
    BY <1>0, <1>5 DEF TickSave, kernel, Outgoing
  <2> QED
    BY <1>0, <2>1, OrderFrame
<1>6. CASE TickScan
  BY <1>6, OrderScan
<1>7. CASE TickDispatch
  BY <1>7, OrderDispatch
<1>8. CASE TickNoReady
  BY <1>8, OrderNoReady
<1>9. CASE ReservePCB \/ VerifyFile \/ Allocate \/ MakeReady
  <2>1. UNCHANGED <<currentActiveProcess, worker>>
    BY <1>9 DEF ReservePCB, VerifyFile, Allocate, MakeReady, kernel
  <2>2. \A s \in Slots : state'[s] = "EXECUTING" => state[s] = "EXECUTING"
    BY <1>0, <1>9 DEF ReservePCB, VerifyFile, Allocate, MakeReady, GiveUp
  <2> QED
    BY <1>0, <2>1, <2>2, OrderFrame
<1>10. CASE FillPCB \/ OpenMonitor \/ CloseMonitor \/ Shutdown \/ Join \/ UNCHANGED vars
  <2>1. UNCHANGED <<state, currentActiveProcess, worker>>
    BY <1>10 DEF FillPCB, OpenMonitor, CloseMonitor, Shutdown, Join, vars, table, kernel
  <2> QED
    BY <1>0, <2>1, OrderFrame
<1>11. ~RestartCPU /\ ~handleRestartCommand
  BY DEF NoRestart, RestartCPU, handleRestartCommand, RestartMemory, RestartTable,
     RestartActive, ExecInv, NoRestartInv
<1> QED
  BY <1>1, <1>2, <1>3, <1>4, <1>5, <1>6, <1>7, <1>8, <1>9, <1>10, <1>11
     DEF Next, cpuThreadWorker, schedulerTick, createProcess

(* For every number of processes, as long as restart is not typed: while a *)
(* process is READY no other is dispatched twice (schedulerTick).          *)
THEOREM RoundRobinOrder == NoRestart => (RoundRobinSpec => NobodyTwice)
<1> SUFFICES ASSUME NoRestart PROVE RoundRobinSpec => NobodyTwice
  OBVIOUS
<1> DEFINE Inv == ExecInv /\ DispatchInv /\ OrderInv
           Fresh == \A s \in Slots : state[s] = "READY" =>
                      \A t \in Dispatched : t # s => t \notin overtakenBy[s]
<1>1. RoundRobinInit => Inv
  <2> SUFFICES ASSUME RoundRobinInit PROVE Inv
    OBVIOUS
  <2>1. ExecInv /\ DispatchInv
    BY InitExec DEF RoundRobinInit, Init, DispatchInv
  <2>2. OrderInv
    BY DEF RoundRobinInit, OrderInv
  <2> QED
    BY <2>1, <2>2
<1>2. Inv /\ [RoundRobinNext]_rrvars => Inv' /\ (Fresh \/ UNCHANGED rrvars)
  <2> SUFFICES ASSUME Inv, [RoundRobinNext]_rrvars PROVE Inv' /\ (Fresh \/ UNCHANGED rrvars)
    OBVIOUS
  <2>1. [Next]_vars
    BY DEF RoundRobinNext, rrvars
  <2>2. ExecInv' /\ DispatchInv'
    BY <2>1, ExecStep
  <2>3. CASE RoundRobinNext
    BY <2>1, <2>2, <2>3, OrderStep DEF RoundRobinNext
  <2>4. CASE UNCHANGED rrvars
    BY <2>2, <2>4 DEF rrvars, vars, table, kernel, OrderInv
  <2> QED
    BY <2>3, <2>4
<1>3. Inv /\ [RoundRobinNext]_rrvars => [Fresh]_rrvars
  BY <1>2
<1> HIDE DEF Inv, Fresh
<1>4. Inv /\ [RoundRobinNext]_rrvars => Inv'
  BY <1>2
<1>5. RoundRobinSpec => [][Fresh]_rrvars
  BY <1>1, <1>3, <1>4, PTL DEF RoundRobinSpec
<1> QED
  BY <1>5 DEF NobodyTwice, Fresh
=============================================================================
