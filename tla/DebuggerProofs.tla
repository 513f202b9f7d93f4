--------------------------- MODULE DebuggerProofs ---------------------------
(***************************************************************************)
(* A debugging session that nobody can disturb at its beginning is not     *)
(* disturbed, for every number of entries and programs.                    *)
(***************************************************************************)
EXTENDS Debugger, KernelProofs

USE KernelAssumption, DebuggerAssumption

-----------------------------------------------------------------------------
(*                          One cycle of the CPU                           *)

(* A cycle, whichever thread runs it, keeps the types, leaves the registers *)
(* to their owner, and changes the state of the current process only when   *)
(* a service blocks it.                                                     *)
LEMMA CycleType ==
  ASSUME TypeOK, NEW ins \in NextInstructions, NEW outcome, Cycle(ins, outcome)
  PROVE  /\ state' \in [Slots -> ProcessState] /\ sleepTics' \in [Slots -> Nat]
         /\ CPU' \in Registers /\ interruptBitmap' \subseteq InterruptCode
<1> DEFINE c == Executed(ins)
           bitmap == interruptBitmap \union ins.raises
                       \union (IF TimerFires(c) THEN {"IC_TIMER"} ELSE {})
<1>1. CPU \in Registers /\ ins \in Instruction
  BY NextInstructionsType DEF TypeOK
<1>2. Counted(c) \in Registers
  BY <1>1, ExecutedType, CountedType
<1>3. bitmap \subseteq InterruptCode
  BY <1>1, InstructionType DEF TypeOK, InterruptCode
<1>4. CheckInterrupts(Counted(c), bitmap, ins, outcome)
  BY DEF Cycle
<1> HIDE DEF c, bitmap
<1> QED
  BY <1>1, <1>2, <1>3, <1>4, CheckInterruptsType

LEMMA CycleEffect ==
  ASSUME TypeOK, NEW ins \in NextInstructions, NEW outcome, Cycle(ins, outcome)
  PROVE  /\ CPU'.pid = CPU.pid
         /\ \/ outcome # "block" /\ UNCHANGED state
            \/ /\ outcome = "block"
               /\ \E wait \in {"BLOCKED", "BLOCKED_IO"} :
                    state' = [state EXCEPT ![currentActiveProcess] = wait]
<1> DEFINE c == Counted(Executed(ins))
           bitmap == interruptBitmap \union ins.raises
                       \union (IF TimerFires(Executed(ins)) THEN {"IC_TIMER"} ELSE {})
<1>1. CPU \in Registers /\ ins \in Instruction
  BY NextInstructionsType DEF TypeOK
<1>2. c \in Registers /\ c.pid = CPU.pid
  <2>1. Executed(ins) \in Registers /\ Executed(ins).pid = CPU.pid
    BY <1>1, ExecutedType DEF Executed, Registers
  <2> QED
    BY <2>1, CountedType DEF Counted, Registers
<1>3. CheckInterrupts(c, bitmap, ins, outcome)
  BY DEF Cycle
<1> HIDE DEF c, bitmap
<1>4. CASE bitmap = {} \/ ~c.interruptEnable
  BY <1>2, <1>3, <1>4 DEF CheckInterrupts
<1>5. CASE bitmap # {} /\ c.interruptEnable /\ ToHandle(bitmap) # "IC_SYSCALL"
  <2>1. CPU' = [c EXCEPT !.interruptEnable = TRUE] /\ outcome # "block" /\ UNCHANGED state
    BY <1>3, <1>5 DEF CheckInterrupts
  <2> QED
    BY <1>2, <2>1 DEF Registers
<1>6. CASE bitmap # {} /\ c.interruptEnable /\ ToHandle(bitmap) = "IC_SYSCALL"
  <2>1. PICK service \in IF ins.op = "svc" THEN {ins.n} ELSE Services :
          \E answer \in handleSyscall(service) : Serve(answer, ins, c, outcome)
    BY <1>3, <1>6 DEF CheckInterrupts
  <2>2. PICK answer \in handleSyscall(service) : Serve(answer, ins, c, outcome)
    BY <2>1
  <2>3. answer \in Answer
    BY <2>2, handleSyscallType
  <2>4. CPU'.pid = CPU.pid
    BY <1>2, <2>2 DEF Serve, Registers
  <2>5. CASE answer.status = "block"
    BY <2>2, <2>3, <2>4, <2>5 DEF Serve, Answer
  <2>6. CASE answer.status # "block"
    BY <2>2, <2>4, <2>6 DEF Serve
  <2> QED
    BY <2>5, <2>6
<1> QED
  BY <1>4, <1>5, <1>6

-----------------------------------------------------------------------------
(*                                  Types                                  *)

(* What the other actions of the CPU thread are in Kernel. *)
Others ==
  FetchFails \/ FreePartition \/ Finish \/ CleanNoProcess \/ IdleLoop \/ StopLoop \/ schedulerTick

CpuCycle ==
  /\ Running
  /\ \E ins \in NextInstructions, outcome \in Outcomes :
       Cycle(ins, outcome) /\ AfterStepOrYield(outcome)

ConsoleCommand ==
  ReservePCB \/ createProcess \/ OpenMonitor \/ CloseMonitor \/ Shutdown \/ Join

DebugTypes == TypeOK /\ DispatchInv

LEMMA OtherTypes == DebugTypes /\ Others => DebugTypes'
<1> SUFFICES ASSUME DebugTypes, Others PROVE DebugTypes'
  OBVIOUS
<1>1. cpuThreadWorker
  BY DEF Others, cpuThreadWorker
<1> QED
  BY <1>1, WorkerTypeOK, DispatchStep DEF DebugTypes, Next

LEMMA ConsoleTypes == DebugTypes /\ ConsoleCommand => DebugTypes'
BY ConsoleTypeOK, DispatchStep DEF DebugTypes, ConsoleCommand, Next

LEMMA CycleTypes == DebugTypes /\ CpuCycle => DebugTypes'
<1> SUFFICES ASSUME DebugTypes, CpuCycle PROVE DebugTypes'
  OBVIOUS
<1>1. PICK ins \in NextInstructions, outcome \in Outcomes :
        Cycle(ins, outcome) /\ AfterStepOrYield(outcome)
  BY DEF CpuCycle
<1>2. PICK after : AfterStep(after)
  BY <1>1 DEF AfterStepOrYield
<1>3. worker' \in WorkerState /\ worker'.pc # "dispatch"
  BY <1>2, AfterStepType DEF AfterStep
<1>4. /\ state' \in [Slots -> ProcessState] /\ sleepTics' \in [Slots -> Nat]
      /\ CPU' \in Registers /\ interruptBitmap' \subseteq InterruptCode
  BY <1>1, CycleType DEF DebugTypes
<1>5. UNCHANGED <<pid, startBlock, blockCount, context, kernel, RAM, console>>
  BY <1>1 DEF Cycle
<1> QED
  BY <1>3, <1>4, <1>5 DEF DebugTypes, TypeOK, DispatchInv, kernel

LEMMA DebugStepTypes == DebugTypes /\ DebugStep => DebugTypes'
<1> SUFFICES ASSUME DebugTypes, DebugStep PROVE DebugTypes'
  OBVIOUS
<1>1. ASSUME NEW ins \in NextInstructions, NEW outcome \in Outcomes,
             Cycle(ins, outcome), AfterDebugStep(outcome) \/ AfterNobody(outcome)
      PROVE  DebugTypes'
  <2>1. /\ state' \in [Slots -> ProcessState] /\ sleepTics' \in [Slots -> Nat]
        /\ CPU' \in Registers /\ interruptBitmap' \subseteq InterruptCode
    BY <1>1, CycleType DEF DebugTypes
  <2>2. UNCHANGED <<pid, startBlock, blockCount, context, kernel, RAM, console, worker>>
    BY <1>1 DEF Cycle, AfterDebugStep, AfterNobody
  <2> QED
    BY <2>1, <2>2 DEF DebugTypes, TypeOK, DispatchInv, kernel
<1>2. CASE UNCHANGED vars
  BY <1>2 DEF vars, table, kernel, DebugTypes, TypeOK, DispatchInv
<1> QED
  BY <1>1, <1>2 DEF DebugStep

LEMMA DebugLoadTypes == DebugTypes /\ DebugLoad => DebugTypes'
<1> SUFFICES ASSUME DebugTypes, DebugLoad PROVE DebugTypes'
  OBVIOUS
<1>0. /\ context \in [Slots -> Registers] /\ CPU \in Registers /\ RAM \subseteq Nat
      /\ MIN_STACK_SIZE \in Nat /\ OS_RESERVED_SIZE \in Nat /\ RAM_SIZE \in Nat
      /\ MaxPid \in Nat /\ LoadedLimit \in Nat /\ None \in Instruction
  BY GeometryAssumption, InstructionType DEF DebugTypes, TypeOK
<1>1. PICK w \in WordCounts :
        LET room == RAM_SIZE - OS_RESERVED_SIZE - w
            stackMemory == IF room > DEFAULT_STACK_SIZE THEN DEFAULT_STACK_SIZE ELSE room
        IN  /\ MIN_STACK_SIZE <= room
            /\ RAM' = RAM \union {DebugPid} \union {context[s].pid : s \in Overwritten(w)}
            /\ context' = [s \in Slots |->
                 IF s \in Overwritten(w) THEN [context[s] EXCEPT !.again = None] ELSE context[s]]
            /\ CPU' = [CPU EXCEPT !.slot = NoSlot, !.pid = DebugPid, !.again = None,
                                  !.RB = OS_RESERVED_SIZE,
                                  !.RL = OS_RESERVED_SIZE + stackMemory + w, !.RX = w,
                                  !.timerLimit = LoadedLimit, !.cyclesCounter = 0,
                                  !.interruptEnable = TRUE]
  BY DEF DebugLoad
<1>2. DebugPid \in Nat /\ w \in Nat
  BY <1>0 DEF DebugPid
<1>3. RAM' \subseteq Nat
  BY <1>0, <1>1, <1>2 DEF Overwritten, Registers
<1>4. context' \in [Slots -> Registers]
  <2>1. \A s \in Slots : [context[s] EXCEPT !.again = None] \in Registers
    BY <1>0 DEF Registers
  <2> QED
    BY <1>0, <1>1, <2>1
<1>5. CPU' \in Registers
  <2> DEFINE room == RAM_SIZE - OS_RESERVED_SIZE - w
             stackMemory == IF room > DEFAULT_STACK_SIZE THEN DEFAULT_STACK_SIZE ELSE room
             top == OS_RESERVED_SIZE + stackMemory + w
  <2>1. top \in Int
    BY <1>0, <1>2
  <2>2. CPU' = [CPU EXCEPT !.slot = NoSlot, !.pid = DebugPid, !.again = None,
                           !.RB = OS_RESERVED_SIZE, !.RL = top, !.RX = w,
                           !.timerLimit = LoadedLimit, !.cyclesCounter = 0, !.interruptEnable = TRUE]
    BY <1>1
  <2> HIDE DEF top
  <2>3. CPU' = [slot |-> NoSlot, pid |-> DebugPid, RB |-> OS_RESERVED_SIZE, RL |-> top, RX |-> w,
                interruptEnable |-> TRUE, timerLimit |-> LoadedLimit, cyclesCounter |-> 0,
                again |-> None]
    BY <1>0, <2>2 DEF Registers
  <2> QED
    BY <1>0, <1>2, <2>1, <2>3 DEF Registers
<1> QED
  BY <1>3, <1>4, <1>5 DEF DebugLoad, DebugTypes, TypeOK, DispatchInv, kernel

(* The kernel's variables keep their types with the debugger, too. *)
LEMMA DebugTypeStep == DebugTypes /\ [DebugNext]_dvars => DebugTypes'
<1> SUFFICES ASSUME DebugTypes, [DebugNext]_dvars PROVE DebugTypes'
  OBVIOUS
<1>1. CASE CpuThread
  BY <1>1, CycleTypes, OtherTypes DEF CpuThread, CpuCycle, Others
<1>2. CASE ConsoleThread
  BY <1>2, ConsoleTypes DEF ConsoleThread, ConsoleCommand
<1>3. CASE DebugReset
  BY <1>3, ResetCPUType DEF DebugReset, DebugTypes, TypeOK, DispatchInv, table, kernel
<1>4. CASE DebugLoad \/ DebugStep
  BY <1>4, DebugLoadTypes, DebugStepTypes
<1>5. CASE UNCHANGED vars
  BY <1>5 DEF vars, table, kernel, DebugTypes, TypeOK, DispatchInv
<1> QED
  BY <1>1, <1>2, <1>3, <1>4, <1>5 DEF DebugNext, handleDebugCommand, DebugLoadFails, DebugQuit, dvars

-----------------------------------------------------------------------------
(*                         The inductive invariant                         *)

(* The steps of createProcess at which it has an entry. *)
CreationSteps == {"reserved", "verified", "allocated", "filled"}

(* The console thread is in one command at a time; an entry that is being  *)
(* created is NEW, so that neither the CPU thread nor the debugger has it. *)
ConsoleInv ==
  /\ session # "off" => console.pc = "prompt"
  /\ OS_MONITOR_ACTIVE => console.pc = "monitor"
  /\ console.pc \in CreationSteps => console.slot \in Slots /\ state[console.slot] = "NEW"

(* The process whose instructions the CPU thread executes exists, though   *)
(* the debugger may have blocked it; and so does the one the scan found.   *)
WorkerInv ==
  /\ worker.pc = "clean" => currentActiveProcess # NoSlot
  /\ worker.pc \in {"loop", "clean"} /\ currentActiveProcess # NoSlot =>
       state[currentActiveProcess] \notin {"NEW", "FINISHED"}
  /\ worker.pc = "dispatch" =>
       /\ state[worker.i] \in {"READY", "BLOCKED", "BLOCKED_IO"}
       /\ currentActiveProcess = NoSlot => state[worker.i] = "READY"

(* Once nobody can run, nobody does.                                       *)
AloneInv ==
  session \in {"load", "on"} /\ alone =>
    NoneCanRun /\ (session = "on" => CPU.pid = DebugPid)

DebugInv == DebugTypes /\ ConsoleInv /\ WorkerInv /\ AloneInv

LEMMA DebugInitInv == DebugInit => DebugInv
<1> SUFFICES ASSUME DebugInit PROVE DebugInv
  OBVIOUS
<1>1. Init /\ TypeOK
  BY InitTypeOK DEF DebugInit
<1> QED
  BY <1>1 DEF DebugInit, DebugInv, DebugTypes, DispatchInv, ConsoleInv, WorkerInv, AloneInv, Init,
              Prompt, CreationSteps

(* The CPU thread executes an instruction: of a process that exists.       *)
LEMMA CycleInv ==
  ASSUME DebugInv, CpuCycle, UNCHANGED <<session, alone>>
  PROVE  ConsoleInv' /\ WorkerInv' /\ AloneInv'
<1>1. PICK ins \in NextInstructions, outcome \in Outcomes :
        Cycle(ins, outcome) /\ AfterStepOrYield(outcome)
  BY DEF CpuCycle
<1>2. worker'.pc \in {"clean", "wake", "loop"}
  BY <1>1 DEF AfterStepOrYield, AfterStep
<1>3. UNCHANGED <<console, currentActiveProcess, OS_MONITOR_ACTIVE>>
  BY <1>1 DEF Cycle, kernel
<1>4. \/ UNCHANGED state
      \/ \E wait \in {"BLOCKED", "BLOCKED_IO"} :
           state' = [state EXCEPT ![currentActiveProcess] = wait]
  BY <1>1, CycleEffect DEF DebugInv, DebugTypes
<1>5. /\ worker.pc = "loop" /\ currentActiveProcess \in Slots /\ currentActiveProcess # NoSlot
      /\ state[currentActiveProcess] \notin {"NEW", "FINISHED"}
      /\ state \in [Slots -> ProcessState]
  BY DEF CpuCycle, Running, DebugInv, DebugTypes, TypeOK, WorkerInv
<1>6. ConsoleInv'
  BY <1>3, <1>4, <1>5 DEF DebugInv, ConsoleInv
<1>7. WorkerInv'
  BY <1>2, <1>3, <1>4, <1>5 DEF WorkerInv
<1>8. AloneInv'
  BY <1>5 DEF DebugInv, AloneInv, NoneCanRun
<1> QED
  BY <1>6, <1>7, <1>8

(* It cleans up, or goes round the loop.                                   *)
LEMMA LoopInv ==
  ASSUME DebugInv, UNCHANGED <<session, alone>>,
         FetchFails \/ FreePartition \/ Finish \/ CleanNoProcess \/ IdleLoop \/ StopLoop
  PROVE  ConsoleInv' /\ WorkerInv' /\ AloneInv'
<1>0. worker \in WorkerState /\ state \in [Slots -> ProcessState]
  BY DEF DebugInv, DebugTypes, TypeOK, WorkerState
<1>1. CASE Finish
  <2>1. /\ worker'.pc = "wake" /\ UNCHANGED <<console, currentActiveProcess, OS_MONITOR_ACTIVE>>
        /\ state' = [state EXCEPT ![currentActiveProcess] = "FINISHED"]
        /\ worker.pc = "clean" /\ currentActiveProcess # NoSlot
    BY <1>1 DEF Finish, kernel
  <2>2. state[currentActiveProcess] # "NEW"
    BY <2>1 DEF DebugInv, WorkerInv
  <2>3. ConsoleInv'
    BY <1>0, <2>1, <2>2 DEF DebugInv, ConsoleInv
  <2> QED
    BY <2>1, <2>3 DEF DebugInv, WorkerInv, AloneInv, NoneCanRun
<1>2. CASE FetchFails \/ FreePartition \/ CleanNoProcess \/ IdleLoop \/ StopLoop
  <2>1. /\ UNCHANGED <<state, console, currentActiveProcess, OS_MONITOR_ACTIVE, CPU>>
        /\ \/ worker'.pc = "clean" /\ worker.pc \in {"loop", "clean"} /\ currentActiveProcess # NoSlot
           \/ worker'.pc \in {"wake", "stopped", "undefined"}
    BY <1>0, <1>2 DEF FetchFails, FreePartition, CleanNoProcess, IdleLoop, StopLoop, AfterStep, Running,
       table, kernel, WorkerState
  <2> QED
    BY <2>1 DEF DebugInv, ConsoleInv, WorkerInv, AloneInv, NoneCanRun
<1> QED
  BY <1>1, <1>2

(* The scheduler wakes those who wait for the monitor or sleep, none of    *)
(* whom is there in a session with nobody to run, and finds no one.        *)
LEMMA WakeInv ==
  ASSUME DebugInv, UNCHANGED <<session, alone>>, TickWake
  PROVE  ConsoleInv' /\ WorkerInv' /\ AloneInv'
<1>1. /\ UNCHANGED <<console, currentActiveProcess, OS_MONITOR_ACTIVE, CPU>>
      /\ worker'.pc = "save" /\ state \in [Slots -> ProcessState]
  BY DEF TickWake, DebugInv, DebugTypes, TypeOK, WorkerState, kernel
<1>2. state' = [s \in Slots |-> IF SleptEnough(s) \/ MonitorAwaited(s) THEN "READY" ELSE state[s]]
  BY DEF TickWake
<1>3. \A s \in Slots : state[s] \in {"NEW", "FINISHED"} => state'[s] = state[s]
  BY <1>2 DEF SleptEnough, Asleep, MonitorAwaited
<1>4. ~OS_MONITOR_ACTIVE => \A s \in Slots : state[s] = "BLOCKED_IO" => state'[s] = "BLOCKED_IO"
  BY <1>2 DEF SleptEnough, Asleep, MonitorAwaited
<1>5. ConsoleInv'
  BY <1>1, <1>3 DEF DebugInv, ConsoleInv
<1>6. session # "off" => ~OS_MONITOR_ACTIVE
  BY DEF DebugInv, ConsoleInv
<1>7. AloneInv'
  BY <1>1, <1>3, <1>4, <1>6 DEF DebugInv, AloneInv, NoneCanRun
<1> QED
  BY <1>1, <1>5, <1>7 DEF WorkerInv

LEMMA TickInv ==
  ASSUME DebugInv, UNCHANGED <<session, alone>>, schedulerTick
  PROVE  ConsoleInv' /\ WorkerInv' /\ AloneInv'
<1>0. /\ worker \in WorkerState /\ state \in [Slots -> ProcessState] /\ checkIndex \in Slots
      /\ currentActiveProcess \in Slots \union {NoSlot} /\ NoSlot \notin Slots
  BY SomeSlots DEF DebugInv, DebugTypes, TypeOK, WorkerState, checkIndex, startIndex, Slots, NoSlot
<1>1. CASE TickWake
  BY <1>1, WakeInv
<1>2. CASE TickSave
  <2>1. /\ UNCHANGED <<console, currentActiveProcess, OS_MONITOR_ACTIVE, CPU>>
        /\ worker'.pc = "scan"
        /\ \/ UNCHANGED state
           \/ /\ currentActiveProcess \in Slots
              /\ state' = [state EXCEPT ![currentActiveProcess] = Outgoing(@)]
    BY <1>0, <1>2 DEF TickSave, kernel
  <2>2. ConsoleInv'
    BY <1>0, <2>1 DEF DebugInv, ConsoleInv, Outgoing
  <2>3. NoneCanRun => NoneCanRun'
    BY <1>0, <2>1 DEF NoneCanRun
  <2> QED
    BY <2>1, <2>2, <2>3 DEF DebugInv, WorkerInv, AloneInv
<1>3. CASE TickScan
  <2>1. UNCHANGED <<state, console, currentActiveProcess, OS_MONITOR_ACTIVE, CPU>>
    BY <1>3 DEF TickScan, table, kernel
  <2>2. \/ state[checkIndex] = "READY" /\ worker'.pc = "dispatch" /\ worker'.i = checkIndex
        \/ worker'.pc = "scan"
    BY <1>0, <1>3 DEF TickScan, WorkerState
  <2> QED
    BY <2>1, <2>2 DEF DebugInv, ConsoleInv, WorkerInv, AloneInv, NoneCanRun
<1>4. CASE TickDispatch
  <2>1. /\ UNCHANGED <<console, OS_MONITOR_ACTIVE>> /\ worker'.pc = "loop" /\ worker.i \in Slots
        /\ currentActiveProcess' = worker.i /\ state' = [state EXCEPT ![worker.i] = "EXECUTING"]
        /\ worker.pc = "dispatch"
    BY <1>4 DEF TickDispatch, DebugInv, DebugTypes, DispatchInv
  <2>2. ConsoleInv'
    BY <1>0, <2>1 DEF DebugInv, ConsoleInv, WorkerInv
  <2>3. WorkerInv'
    BY <1>0, <2>1 DEF WorkerInv
  <2>4. ~NoneCanRun
    BY <2>1 DEF DebugInv, WorkerInv, NoneCanRun
  <2> QED
    BY <2>2, <2>3, <2>4 DEF DebugInv, AloneInv
<1>5. CASE TickNoReady
  <2>1. /\ UNCHANGED <<state, console, OS_MONITOR_ACTIVE, CPU>> /\ worker'.pc = "loop"
        /\ currentActiveProcess' = NoSlot
    BY <1>5 DEF TickNoReady, table
  <2> QED
    BY <2>1 DEF DebugInv, ConsoleInv, WorkerInv, AloneInv, NoneCanRun
<1> QED
  BY <1>1, <1>2, <1>3, <1>4, <1>5 DEF schedulerTick

(* The commands of the console touch only entries that are FINISHED or     *)
(* NEW, hence none the CPU thread is about to run.                         *)
LEMMA CommandInv ==
  ASSUME DebugInv, UNCHANGED session, session = "off", ConsoleCommand
  PROVE  ConsoleInv' /\ WorkerInv' /\ AloneInv'
<1>0. /\ console \in ConsoleState /\ state \in [Slots -> ProcessState]
      /\ currentActiveProcess \in Slots \union {NoSlot}
      /\ worker.pc = "dispatch" => worker.i \in Slots
  BY DEF DebugInv, DebugTypes, DispatchInv, TypeOK, ConsoleState
<1>1. AloneInv'
  BY DEF AloneInv
<1>2. UNCHANGED <<worker, currentActiveProcess>>
  BY DEF ConsoleCommand, ReservePCB, createProcess, VerifyFile, Allocate, FillPCB, MakeReady,
     OpenMonitor, CloseMonitor, Shutdown, Join, kernel
<1>3. CASE ReservePCB
  <2>1. PICK s \in Slots :
          /\ getFreePCBIndex(s)
          /\ state' = [state EXCEPT ![s] = "NEW"]
          /\ console' = [Prompt EXCEPT !.pc = "reserved", !.slot = s]
    BY <1>3 DEF ReservePCB
  <2>2. state[s] = "FINISHED"
    BY <2>1 DEF getFreePCBIndex
  <2>3. UNCHANGED OS_MONITOR_ACTIVE /\ console.pc = "prompt"
    BY <1>3 DEF ReservePCB, kernel
  <2>4. ConsoleInv'
    BY <1>0, <2>1, <2>3 DEF DebugInv, ConsoleInv, Prompt
  <2>5. WorkerInv'
    BY <1>0, <1>2, <2>1, <2>2 DEF DebugInv, WorkerInv
  <2> QED
    BY <1>1, <2>4, <2>5
<1>4. CASE createProcess
  <2>1. console.pc \in CreationSteps /\ console.slot \in Slots /\ state[console.slot] = "NEW"
    BY <1>4 DEF createProcess, VerifyFile, Allocate, FillPCB, MakeReady, DebugInv, ConsoleInv, CreationSteps
  <2>2. UNCHANGED OS_MONITOR_ACTIVE
    BY <1>4 DEF createProcess, VerifyFile, Allocate, FillPCB, MakeReady, kernel
  <2>3. \/ UNCHANGED state /\ console'.pc \in CreationSteps /\ console'.slot = console.slot
        \/ /\ console'.pc = "prompt"
           /\ \E st \in {"FINISHED", "READY"} : state' = [state EXCEPT ![console.slot] = st]
    <3>1. CASE VerifyFile /\ GiveUp
      BY <3>1 DEF GiveUp, Prompt
    <3>2. CASE VerifyFile /\ ~GiveUp
      <4>1. PICK w \in WordCounts :
              console' = [console EXCEPT !.pc = "verified", !.words = w] /\ UNCHANGED state
        BY <3>2 DEF VerifyFile
      <4> QED
        BY <1>0, <4>1 DEF CreationSteps, ConsoleState
    <3>3. CASE Allocate /\ GiveUp
      BY <3>3 DEF GiveUp, Prompt
    <3>4. CASE Allocate /\ ~GiveUp
      <4>1. PICK start \in Blocks :
              /\ console' = [console EXCEPT !.pc = "allocated", !.start = start,
                                            !.blocks = CalculateRequiredBlocks(console.words)]
              /\ UNCHANGED state
        BY <3>4 DEF Allocate, FreeRuns
      <4> QED
        BY <1>0, <4>1 DEF CreationSteps, ConsoleState
    <3>5. CASE FillPCB
      BY <1>0, <3>5 DEF FillPCB, CreationSteps, ConsoleState
    <3>6. CASE MakeReady
      BY <3>6 DEF MakeReady, Prompt
    <3> QED
      BY <1>4, <3>1, <3>2, <3>3, <3>4, <3>5, <3>6 DEF createProcess
  <2>4. ConsoleInv'
    BY <2>1, <2>2, <2>3 DEF DebugInv, ConsoleInv, CreationSteps
  <2>5. WorkerInv'
    BY <1>0, <1>2, <2>1, <2>3 DEF DebugInv, WorkerInv
  <2> QED
    BY <1>1, <2>4, <2>5
<1>5. CASE OpenMonitor \/ CloseMonitor \/ Shutdown \/ Join
  <2>1. UNCHANGED state
    BY <1>5 DEF OpenMonitor, CloseMonitor, Shutdown, Join, table
  <2>2. ConsoleInv'
    BY <1>0, <1>5, <2>1 DEF OpenMonitor, CloseMonitor, Shutdown, Join, kernel, DebugInv, ConsoleInv,
       ConsoleState, CreationSteps, Prompt
  <2> QED
    BY <1>1, <1>2, <2>1, <2>2 DEF DebugInv, WorkerInv
<1> QED
  BY <1>3, <1>4, <1>5 DEF ConsoleCommand

(* The debugger's steps block the current process, if there is one.        *)
LEMMA DebugStepInv ==
  ASSUME DebugInv, DebugStep
  PROVE  ConsoleInv' /\ WorkerInv' /\ AloneInv'
<1>0. /\ state \in [Slots -> ProcessState] /\ currentActiveProcess \in Slots \union {NoSlot}
      /\ worker.pc = "dispatch" => worker.i \in Slots
      /\ session = "on" /\ UNCHANGED alone /\ console.pc = "prompt" /\ NoSlot \notin Slots
  BY SomeSlots DEF DebugInv, DebugTypes, DispatchInv, TypeOK, DebugStep, ConsoleInv, Slots, NoSlot
<1>1. ASSUME NEW ins \in NextInstructions, NEW outcome \in Outcomes,
             Cycle(ins, outcome), AfterDebugStep(outcome) \/ AfterNobody(outcome)
      PROVE  ConsoleInv' /\ WorkerInv' /\ AloneInv'
  <2>1. UNCHANGED <<worker, console, currentActiveProcess, OS_MONITOR_ACTIVE>>
    BY <1>1 DEF Cycle, kernel, AfterDebugStep, AfterNobody
  <2>2. CPU'.pid = CPU.pid
    BY <1>1, CycleEffect DEF DebugInv, DebugTypes
  <2>3. CASE currentActiveProcess = NoSlot
    <3>1. UNCHANGED state
      BY <1>0, <1>1, <2>3, CycleEffect DEF DebugInv, DebugTypes
    <3> QED
      BY <1>0, <2>1, <2>2, <3>1 DEF DebugInv, ConsoleInv, WorkerInv, AloneInv, NoneCanRun, CreationSteps
  <2>4. CASE currentActiveProcess \in Slots
    <3>1. \/ UNCHANGED state
          \/ \E wait \in {"BLOCKED", "BLOCKED_IO"} :
               state' = [state EXCEPT ![currentActiveProcess] = wait]
      BY <1>1, CycleEffect DEF DebugInv, DebugTypes
    <3>2. WorkerInv'
      BY <1>0, <2>1, <2>4, <3>1 DEF DebugInv, WorkerInv
    <3>3. ~alone
      BY <1>0, <2>4 DEF DebugInv, AloneInv, NoneCanRun
    <3> QED
      BY <1>0, <2>1, <3>2, <3>3 DEF DebugInv, ConsoleInv, AloneInv, CreationSteps
  <2> QED
    BY <1>0, <2>3, <2>4
<1>2. CASE UNCHANGED vars /\ session' = "off"
  BY <1>0, <1>2 DEF vars, table, kernel, DebugInv, ConsoleInv, WorkerInv, AloneInv
<1> QED
  BY <1>1, <1>2 DEF DebugStep

LEMMA DebugNextInv == DebugInv /\ [DebugNext]_dvars => DebugInv'
<1> SUFFICES ASSUME DebugInv, [DebugNext]_dvars PROVE DebugInv'
  OBVIOUS
<1>0. DebugTypes'
  BY DebugTypeStep DEF DebugInv
<1>1. CASE CpuThread
  <2>1. UNCHANGED <<session, alone>> /\ (CpuCycle \/ Others)
    BY <1>1 DEF CpuThread, CpuCycle, Others
  <2> QED
    BY <1>0, <2>1, CycleInv, LoopInv, TickInv DEF DebugInv, Others
<1>2. CASE ConsoleThread
  BY <1>0, <1>2, CommandInv DEF ConsoleThread, ConsoleCommand, DebugInv
<1>3. CASE DebugReset
  <2>1. /\ UNCHANGED <<state, console, worker, currentActiveProcess, OS_MONITOR_ACTIVE>>
        /\ console.pc = "prompt" /\ session' = "load" /\ alone' = NoneCanRun
    BY <1>3 DEF DebugReset, table, kernel
  <2> QED
    BY <1>0, <2>1 DEF DebugInv, ConsoleInv, WorkerInv, AloneInv, NoneCanRun
<1>4. CASE DebugLoad
  <2>1. /\ UNCHANGED <<state, console, worker, currentActiveProcess, OS_MONITOR_ACTIVE, alone>>
        /\ session = "load" /\ session' = "on"
    BY <1>4 DEF DebugLoad, kernel
  <2>2. CPU'.pid = DebugPid
    BY <1>4 DEF DebugLoad, DebugInv, DebugTypes, TypeOK, Registers
  <2> QED
    BY <1>0, <2>1, <2>2 DEF DebugInv, ConsoleInv, WorkerInv, AloneInv, NoneCanRun
<1>5. CASE DebugLoadFails \/ DebugQuit \/ UNCHANGED dvars
  <2>1. UNCHANGED vars /\ (session' = "off" \/ UNCHANGED <<session, alone>>)
    BY <1>5 DEF DebugLoadFails, DebugQuit, dvars
  <2> QED
    BY <1>0, <2>1 DEF vars, table, kernel, DebugInv, ConsoleInv, WorkerInv, AloneInv, NoneCanRun
<1> QED
  BY <1>0, <1>1, <1>2, <1>3, <1>4, <1>5, DebugStepInv DEF DebugNext, handleDebugCommand, DebugInv

(* A program that is debugged while no process can run has the CPU to      *)
(* itself, however the scheduler's scans and the debugger's steps          *)
(* interleave, for every number of entries.                                *)
THEOREM DebuggerAlone == DebugSpec => []DebuggedAlone
<1>1. DebugInv => DebuggedAlone
  BY DEF DebugInv, AloneInv, DebuggedAlone
<1> QED
  BY <1>1, DebugInitInv, DebugNextInv, PTL DEF DebugSpec
=============================================================================
