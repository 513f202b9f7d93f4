------------------------------- MODULE Kernel -------------------------------
(***************************************************************************)
(* The minikernel: the process table, the round-robin scheduler, process   *)
(* creation, the system calls, and the interrupts of the virtual CPU that  *)
(* drive them (src/kernel/core.c, scheduler.c, syscalls.c, the interrupt   *)
(* part of src/hardware/cpu.c, the commands of src/console.c).             *)
(*                                                                         *)
(* Two threads share all of it without a lock:                             *)
(*   - the CPU thread (cpuThreadWorker): cpuStep, then freeing the process *)
(*     that ended and schedulerTick;                                       *)
(*   - the console thread (main): createProcess, the monitor, restart and  *)
(*     shutdown.                                                           *)
(* What a program computes is left open: an instruction is what the kernel *)
(* sees of it, the interrupts it raises and the PSW and timer fields it    *)
(* changes.  RAM, the stack the context is saved on and the registers a    *)
(* program computes with are not modelled here; PSW.pc only as "the        *)
(* instruction to execute again".                                          *)
(***************************************************************************)
EXTENDS Partitions, FiniteSets

CONSTANTS
  WordCounts,     \* word counts of the programs the user runs
  Instructions,   \* what a program may execute: see Instruction below
  SleepTimes,     \* arguments of the sleep service
  TIMER_QUANTUM,  \* timerLimit of a new process, 2 in createProcess
  Commands,       \* what the user types: "run", "monitor", "restart", "debug", "shutdown"
  MaxPid,         \* bound: run is not typed once nextPid exceeds it
  CycleBound      \* bound: the cycle counter stops here when there is no limit

Slots == 0 .. MAX_PROCESSES - 1
NoSlot == -1

VARIABLES
  state, pid, startBlock, blockCount, sleepTics, context,  \* PROCESS_TABLE
  FREE_PARTITIONS, nextPid, currentActiveProcess, osRunning, OS_MONITOR_ACTIVE,
  RAM,              \* the pids whose program is in main memory
  CPU,              \* the registers the kernel reads or sets, and the owner of all of them
  interruptBitmap,  \* the pending interrupts
  worker,           \* the CPU thread: where it is, and its loop index
  console           \* the console thread: where it is, and the locals of createProcess

table == <<state, pid, startBlock, blockCount, sleepTics, context>>
kernel == <<FREE_PARTITIONS, nextPid, currentActiveProcess, osRunning, OS_MONITOR_ACTIVE>>
vars == <<table, kernel, RAM, CPU, interruptBitmap, worker, console>>

ProcessState == {"NEW", "READY", "EXECUTING", "BLOCKED", "BLOCKED_IO", "FINISHED"}

-----------------------------------------------------------------------------
(*                            Interrupts (cpu.c)                           *)

Faults == {"IC_INVALID_INSTR", "IC_INVALID_ADDR"}
InterruptCode == Faults \union
  {"IC_OVERFLOW", "IC_UNDERFLOW", "IC_SYSCALL", "IC_TIMER", "IC_IO_DONE", "IC_INVALID_SYSCALL"}

(* The order in which checkInterrupts looks for a pending interrupt.       *)
Priority == [c \in InterruptCode |->
  CASE c = "IC_INVALID_INSTR" -> 1 [] c = "IC_INVALID_ADDR" -> 2
    [] c = "IC_OVERFLOW" -> 3 [] c = "IC_UNDERFLOW" -> 4
    [] c = "IC_SYSCALL" -> 5 [] c = "IC_TIMER" -> 6
    [] c = "IC_IO_DONE" -> 7 [] c = "IC_INVALID_SYSCALL" -> 8]

ToHandle(bitmap) == CHOOSE c \in bitmap : \A d \in bitmap : Priority[c] <= Priority[d]

(* An instruction: most only raise interrupts, or none.  n is the service  *)
(* SVC finds in AC, or the operand of TTI.                                 *)
Plain(codes) == [op |-> "plain", n |-> 0, raises |-> codes]
Svc(service) == [op |-> "svc", n |-> service, raises |-> {"IC_SYSCALL"}]
Hab == [op |-> "hab", n |-> 0, raises |-> {}]
Dhab == [op |-> "dhab", n |-> 0, raises |-> {}]
Tti(interval) == [op |-> "tti", n |-> interval, raises |-> {}]
WildFetch == [op |-> "wildfetch", n |-> 0, raises |-> {}]  \* PC outside [RB, RL]
None == [op |-> "none", n |-> 0, raises |-> {}]

Instruction ==
  [op : {"plain", "svc", "hab", "dhab", "tti", "wildfetch", "none"}, n : Nat,
   raises : SUBSET InterruptCode]

ASSUME KernelAssumption ==
  /\ WordCounts \subseteq Nat
  /\ Instructions \subseteq Instruction \ {None}
  /\ SleepTimes \subseteq Int
  /\ TIMER_QUANTUM \in Nat \ {0}
  /\ Commands \subseteq {"run", "monitor", "restart", "debug", "shutdown"}
  /\ MaxPid \in Nat
  /\ CycleBound \in Nat /\ TIMER_QUANTUM <= CycleBound
  /\ \A ins \in Instructions : ins.n <= CycleBound \/ ins.op # "tti"

(* The services a SYSCALL that was left pending may find in AC.            *)
Services == {ins.n : ins \in {i \in Instructions : i.op = "svc"}}

(* The registers after cpuReset, which is also their state at start.       *)
ResetCPU ==
  [slot |-> NoSlot, pid |-> 0, RB |-> 0, RL |-> 0, RX |-> 0, interruptEnable |-> FALSE,
   timerLimit |-> 0, cyclesCounter |-> 0, again |-> None]

Prompt == [pc |-> "prompt", slot |-> NoSlot, words |-> 0, start |-> 0, blocks |-> 0]

-----------------------------------------------------------------------------
(* main: initOS, then osStart, which creates the CPU thread, then the      *)
(* console's loop.                                                         *)
Init ==
  /\ state = [s \in Slots |-> "FINISHED"]
  /\ pid = [s \in Slots |-> -1]
  /\ startBlock = [s \in Slots |-> 0]
  /\ blockCount = [s \in Slots |-> 0]
  /\ sleepTics = [s \in Slots |-> 0]
  /\ context = [s \in Slots |-> ResetCPU]
  /\ FREE_PARTITIONS = [b \in Blocks |-> TRUE]
  /\ nextPid = 1
  /\ currentActiveProcess = NoSlot
  /\ osRunning = TRUE
  /\ OS_MONITOR_ACTIVE = FALSE
  /\ RAM = {}
  /\ CPU = ResetCPU
  /\ interruptBitmap = {}
  /\ worker = [pc |-> "wake", i |-> 0]
  /\ console = Prompt

-----------------------------------------------------------------------------
(*                         cpuStep, on the CPU thread                      *)

(* The CPU after fetch and execute.  (A failing execute is only logged.)   *)
Executed(ins) ==
  [CPU EXCEPT !.again = None,
              !.interruptEnable = (ins.op = "hab") \/ (@ /\ ins.op # "dhab"),
              !.timerLimit = IF ins.op = "tti" THEN ins.n ELSE @]

TimerFires(c) == c.timerLimit > 0 /\ c.cyclesCounter + 1 >= c.timerLimit

(* The cycle is counted and the timer raises its interrupt.  With no limit *)
(* the counter only grows; a bound no limit exceeds stands for that.       *)
Counted(c) ==
  [c EXCEPT !.cyclesCounter = IF TimerFires(c) THEN 0
                              ELSE IF @ >= CycleBound THEN CycleBound ELSE @ + 1]

(* What handleSyscall may answer to a service: SYSCALL_HALT, SYSCALL_BLOCK *)
(* (with what the process waits for) or to go on (SYSCALL_SUCCESS or       *)
(* SYSCALL_UNKNOWN).  print and sleep halt a process whose stack holds no  *)
(* parameter; sleep halts it too when the parameter is negative.           *)
GoOn == [status |-> "on", wait |-> "EXECUTING", tics |-> 0]
Halt == [status |-> "halt", wait |-> "EXECUTING", tics |-> 0]
BlockIO == [status |-> "block", wait |-> "BLOCKED_IO", tics |-> 0]
Sleep(n) == [status |-> "block", wait |-> "BLOCKED", tics |-> n]

WithMonitor == IF OS_MONITOR_ACTIVE THEN GoOn ELSE BlockIO

(* Mutant: a negative sleep is accepted. *)
SleepAnswerAny(n) == IF n = 0 THEN GoOn ELSE Sleep(n)

SleepAnswer(n) == IF n < 0 THEN Halt ELSE IF n = 0 THEN GoOn ELSE Sleep(n)

handleSyscall(service) ==
  CASE service = 1 -> {Halt}
    [] service = 2 -> {Halt, WithMonitor}
    [] service = 3 -> {WithMonitor}
    [] service = 4 -> {Halt} \union {SleepAnswer(n) : n \in SleepTimes}
    [] OTHER -> {GoOn}

(* The loop body after cpuStep: a process that may not go on is cleaned    *)
(* up, a yield (osYield) runs the scheduler, and otherwise the loop goes   *)
(* round.                                                                  *)
AfterStep(outcome) ==
  worker' = [pc |-> CASE outcome = "halt" -> "clean"
                      [] outcome \in {"block", "timer"} -> "wake"
                      [] OTHER -> "loop",
             i |-> 0]

(* handleSyscall's effect on the PCB of the current process, and on its    *)
(* saved PC: a process that waits for the monitor will repeat the          *)
(* instruction before the saved PC, the one that has just been executed.   *)
Serve(answer, ins, c, outcome) ==
  /\ outcome = answer.status
  /\ state' = IF answer.status = "block"
                THEN [state EXCEPT ![currentActiveProcess] = answer.wait] ELSE state
  /\ sleepTics' = IF answer.wait = "BLOCKED"
                    THEN [sleepTics EXCEPT ![currentActiveProcess] = answer.tics] ELSE sleepTics
  /\ CPU' = [c EXCEPT !.interruptEnable = TRUE,
                      !.again = IF answer.wait = "BLOCKED_IO" THEN ins ELSE None]

(* checkInterrupts: the pending interrupt of highest priority is handled   *)
(* and cleared, any other stays pending, and interrupts end up enabled.    *)
(* The outcome tells whether the process may go on, and what set osYield.  *)
Outcomes == {"on", "halt", "block", "timer"}

CheckInterrupts(c, bitmap, ins, outcome) ==
  \/ /\ bitmap = {} \/ ~c.interruptEnable
     /\ outcome = "on"
     /\ CPU' = c
     /\ interruptBitmap' = bitmap
     /\ UNCHANGED <<state, sleepTics>>
  \/ /\ bitmap # {} /\ c.interruptEnable
     /\ LET code == ToHandle(bitmap)
        IN  /\ interruptBitmap' = bitmap \ {code}
            /\ \/ /\ code # "IC_SYSCALL"
                  /\ outcome = IF code \in Faults THEN "halt"
                               ELSE IF code = "IC_TIMER" THEN "timer" ELSE "on"
                  /\ CPU' = [c EXCEPT !.interruptEnable = TRUE]
                  /\ UNCHANGED <<state, sleepTics>>
               \/ /\ code = "IC_SYSCALL"
                  /\ \E service \in IF ins.op = "svc" THEN {ins.n} ELSE Services :
                       \E answer \in handleSyscall(service) : Serve(answer, ins, c, outcome)

(* The next instruction: the one to repeat, if there is one.  In a memory  *)
(* that restart has cleared a word is 0, an addition that does nothing to  *)
(* the kernel, until the PC leaves the partition.                          *)
NextInstructions ==
  IF CPU.pid \notin RAM THEN {Plain({}), WildFetch}
  ELSE IF CPU.again = None THEN Instructions
  ELSE {CPU.again}

Running ==
  /\ worker.pc = "loop"
  /\ osRunning
  /\ currentActiveProcess # NoSlot

Cycle(ins, outcome) ==
  /\ ins \in NextInstructions /\ ins.op # "wildfetch"
  /\ LET c == Executed(ins)
         timer == IF TimerFires(c) THEN {"IC_TIMER"} ELSE {}
     IN  CheckInterrupts(Counted(c), interruptBitmap \union ins.raises \union timer, ins, outcome)
  /\ UNCHANGED <<pid, startBlock, blockCount, context, kernel, RAM, console>>

cpuStep(ins) ==
  Running /\ \E outcome \in Outcomes : Cycle(ins, outcome) /\ AfterStep(outcome)

(* fetch fails: cpuStep returns at once; nothing is raised or counted.     *)
FetchFails ==
  /\ Running
  /\ WildFetch \in NextInstructions
  /\ AfterStep("halt")
  /\ UNCHANGED <<table, kernel, RAM, CPU, interruptBitmap, console>>

-----------------------------------------------------------------------------
(*              The rest of cpuThreadWorker, and schedulerTick             *)

(* Mutant: off by one. *)
FreedPartitionAbove == startBlock[currentActiveProcess] + worker.i + 1

(* freeMemory of a process that ended, one partition at a time; the        *)
(* console thread may be allocating meanwhile.                             *)
FreedPartition == startBlock[currentActiveProcess] + worker.i

FreePartition ==
  /\ worker.pc = "clean"
  /\ currentActiveProcess # NoSlot
  /\ worker.i < blockCount[currentActiveProcess]
  /\ FREE_PARTITIONS' = [FREE_PARTITIONS EXCEPT ![FreedPartition] = TRUE]
  /\ worker' = [worker EXCEPT !.i = @ + 1]
  /\ UNCHANGED <<table, nextPid, currentActiveProcess, osRunning, OS_MONITOR_ACTIVE,
                 RAM, CPU, interruptBitmap, console>>

Finish ==
  /\ worker.pc = "clean"
  /\ currentActiveProcess # NoSlot
  /\ worker.i >= blockCount[currentActiveProcess]
  /\ state' = [state EXCEPT ![currentActiveProcess] = "FINISHED"]
  /\ worker' = [pc |-> "wake", i |-> 0]
  /\ UNCHANGED <<pid, startBlock, blockCount, sleepTics, context, kernel, RAM, CPU,
                 interruptBitmap, console>>

(* restart has reset currentActiveProcess: the worker reads and writes     *)
(* PROCESS_TABLE[-1].  Nothing is modelled beyond this point.              *)
CleanNoProcess ==
  /\ worker.pc = "clean"
  /\ currentActiveProcess = NoSlot
  /\ worker' = [worker EXCEPT !.pc = "undefined"]
  /\ UNCHANGED <<table, kernel, RAM, CPU, interruptBitmap, console>>

(* No process: the loop sleeps a while and runs the scheduler.             *)
IdleLoop ==
  /\ worker.pc = "loop"
  /\ osRunning
  /\ currentActiveProcess = NoSlot
  /\ worker' = [pc |-> "wake", i |-> 0]
  /\ UNCHANGED <<table, kernel, RAM, CPU, interruptBitmap, console>>

(* Mutant: the worker only stops when there is no process. *)
StopWhenIdle == ~osRunning /\ currentActiveProcess = NoSlot

StopRequested == ~osRunning

StopLoop ==
  /\ worker.pc = "loop"
  /\ StopRequested
  /\ worker' = [worker EXCEPT !.pc = "stopped"]
  /\ UNCHANGED <<table, kernel, RAM, CPU, interruptBitmap, console>>

(* schedulerTick: sleepers lose a tic, and with the monitor open nobody    *)
(* waits for it any more.                                                  *)
Asleep(s) == state[s] = "BLOCKED" /\ sleepTics[s] > 0

(* Mutant: the tics are compared before they are decremented. *)
SleptEnoughLate(s) == Asleep(s) /\ sleepTics[s] = 0

SleptEnough(s) == Asleep(s) /\ sleepTics[s] = 1

(* Mutants: only the current process is looked at, or the monitor is not. *)
MonitorAwaitedByCurrent(s) ==
  state[s] = "BLOCKED_IO" /\ OS_MONITOR_ACTIVE /\ s = currentActiveProcess
MonitorNotAwaited(s) == state[s] = "BLOCKED_IO"

MonitorAwaited(s) == state[s] = "BLOCKED_IO" /\ OS_MONITOR_ACTIVE

TickWake ==
  /\ worker.pc = "wake"
  /\ sleepTics' = [s \in Slots |-> IF Asleep(s) THEN sleepTics[s] - 1 ELSE sleepTics[s]]
  /\ state' = [s \in Slots |->
                 IF SleptEnough(s) \/ MonitorAwaited(s) THEN "READY" ELSE state[s]]
  /\ worker' = [worker EXCEPT !.pc = "save"]
  /\ UNCHANGED <<pid, startBlock, blockCount, context, kernel, RAM, CPU, interruptBitmap, console>>

(* Mutants: the outgoing process keeps its state, or is READY in any case. *)
OutgoingUnchanged(st) == st
OutgoingReady(st) == "READY"

Outgoing(st) == IF st = "EXECUTING" THEN "READY" ELSE st

(* The outgoing process keeps its registers, and its turn if it could run. *)
TickSave ==
  /\ worker.pc = "save"
  /\ IF currentActiveProcess # NoSlot
       THEN /\ context' = [context EXCEPT ![currentActiveProcess] = CPU]
            /\ state' = [state EXCEPT ![currentActiveProcess] = Outgoing(@)]
       ELSE UNCHANGED <<context, state>>
  /\ worker' = [pc |-> "scan", i |-> 0]
  /\ UNCHANGED <<pid, startBlock, blockCount, sleepTics, kernel, RAM, CPU, interruptBitmap, console>>

(* Mutant: the scan always starts at the first entry. *)
startIndexZero == 0

startIndex ==
  IF currentActiveProcess = NoSlot THEN 0 ELSE (currentActiveProcess + 1) % MAX_PROCESSES

checkIndex == (startIndex + worker.i) % MAX_PROCESSES

TickScan ==
  /\ worker.pc = "scan"
  /\ worker.i < MAX_PROCESSES
  /\ worker' = IF state[checkIndex] = "READY"
                 THEN [pc |-> "dispatch", i |-> checkIndex]
                 ELSE [worker EXCEPT !.i = @ + 1]
  /\ UNCHANGED <<table, kernel, RAM, CPU, interruptBitmap, console>>

(* Mutant: the registers are only loaded after an idle tick. *)
IncomingAfterIdle(nextProcess) ==
  IF currentActiveProcess = NoSlot THEN context[nextProcess] ELSE CPU

Incoming(nextProcess) == context[nextProcess]

TickDispatch ==
  /\ worker.pc = "dispatch"
  /\ LET nextProcess == worker.i
     IN  /\ currentActiveProcess' = nextProcess
         /\ state' = [state EXCEPT ![nextProcess] = "EXECUTING"]
         /\ CPU' = Incoming(nextProcess)
  /\ worker' = [pc |-> "loop", i |-> 0]
  /\ UNCHANGED <<pid, startBlock, blockCount, sleepTics, context, FREE_PARTITIONS, nextPid,
                 osRunning, OS_MONITOR_ACTIVE, RAM, interruptBitmap, console>>

TickNoReady ==
  /\ worker.pc = "scan"
  /\ worker.i = MAX_PROCESSES
  /\ currentActiveProcess' = NoSlot
  /\ worker' = [pc |-> "loop", i |-> 0]
  /\ UNCHANGED <<table, FREE_PARTITIONS, nextPid, osRunning, OS_MONITOR_ACTIVE, RAM, CPU,
                 interruptBitmap, console>>

-----------------------------------------------------------------------------
(*                  createProcess, on the console thread                   *)

(* The entry getFreePCBIndex answers: the first one that is free. *)
getFreePCBIndex(s) == state[s] = "FINISHED" /\ \A t \in 0 .. s - 1 : state[t] # "FINISHED"

(* The run command, for one program.  With no PCB free nothing happens.    *)
ReservePCB ==
  /\ console.pc = "prompt"
  /\ "run" \in Commands
  /\ nextPid <= MaxPid
  /\ \E s \in Slots :
       /\ getFreePCBIndex(s)
       /\ state' = [state EXCEPT ![s] = "NEW"]
       /\ console' = [Prompt EXCEPT !.pc = "reserved", !.slot = s]
  /\ UNCHANGED <<pid, startBlock, blockCount, sleepTics, context, kernel, RAM, CPU,
                 interruptBitmap, worker>>

GiveUp ==
  /\ state' = [state EXCEPT ![console.slot] = "FINISHED"]
  /\ console' = Prompt

(* The VFS finds the program, or brings it to the disk, or fails.          *)
VerifyFile ==
  /\ console.pc = "reserved"
  /\ \/ \E w \in WordCounts :
          /\ console' = [console EXCEPT !.pc = "verified", !.words = w]
          /\ UNCHANGED state
     \/ GiveUp
  /\ UNCHANGED <<pid, startBlock, blockCount, sleepTics, context, kernel, RAM, CPU,
                 interruptBitmap, worker>>

(* allocateMemory, which answers -1 when no run was free at its call, and  *)
(* else takes a run that is free (the module Mmu has its steps).           *)
Allocate ==
  /\ console.pc = "verified"
  /\ LET required == CalculateRequiredBlocks(console.words)
     IN  IF required = 0 \/ FreeRuns(FREE_PARTITIONS, required) = {}
           THEN /\ GiveUp
                /\ UNCHANGED FREE_PARTITIONS
           ELSE \E start \in FreeRuns(FREE_PARTITIONS, required) :
                  /\ FREE_PARTITIONS' = [b \in Blocks |->
                       FREE_PARTITIONS[b] /\ b \notin Run(start, required)]
                  /\ console' = [console EXCEPT !.pc = "allocated", !.start = start,
                                                !.blocks = required]
                  /\ UNCHANGED state
  /\ UNCHANGED <<pid, startBlock, blockCount, sleepTics, context, nextPid, currentActiveProcess,
                 osRunning, OS_MONITOR_ACTIVE, RAM, CPU, interruptBitmap, worker>>

NewContext ==
  LET RB == GET_BASE_REGISTER(console.start)
  IN  [slot |-> console.slot, pid |-> nextPid, RB |-> RB,
       RL |-> GET_LIMIT_REGISTER(RB, console.blocks), RX |-> console.words,
       interruptEnable |-> TRUE, timerLimit |-> TIMER_QUANTUM, cyclesCounter |-> 0,
       again |-> None]

(* The program is in RAM; the PCB is filled in.                            *)
FillPCB ==
  /\ console.pc = "allocated"
  /\ pid' = [pid EXCEPT ![console.slot] = nextPid]
  /\ nextPid' = nextPid + 1
  /\ startBlock' = [startBlock EXCEPT ![console.slot] = console.start]
  /\ blockCount' = [blockCount EXCEPT ![console.slot] = console.blocks]
  /\ sleepTics' = [sleepTics EXCEPT ![console.slot] = 0]
  /\ context' = [context EXCEPT ![console.slot] = NewContext]
  /\ RAM' = RAM \union {nextPid}
  /\ console' = [console EXCEPT !.pc = "filled"]
  /\ UNCHANGED <<state, FREE_PARTITIONS, currentActiveProcess, osRunning, OS_MONITOR_ACTIVE,
                 CPU, interruptBitmap, worker>>

MakeReady ==
  /\ console.pc = "filled"
  /\ state' = [state EXCEPT ![console.slot] = "READY"]
  /\ console' = Prompt
  /\ UNCHANGED <<pid, startBlock, blockCount, sleepTics, context, kernel, RAM, CPU,
                 interruptBitmap, worker>>

-----------------------------------------------------------------------------
(*                     The other commands of the console                   *)

(* The monitor opens, unless the terminal refuses raw mode (then the flag  *)
(* goes up and down again at once), and closes with ESC.                   *)
OpenMonitor ==
  /\ console.pc = "prompt"
  /\ "monitor" \in Commands
  /\ OS_MONITOR_ACTIVE' = TRUE
  /\ console' = [console EXCEPT !.pc = "monitor"]
  /\ UNCHANGED <<table, FREE_PARTITIONS, nextPid, currentActiveProcess, osRunning, RAM, CPU,
                 interruptBitmap, worker>>

CloseMonitor ==
  /\ console.pc = "monitor"
  /\ OS_MONITOR_ACTIVE' = FALSE
  /\ console' = Prompt
  /\ UNCHANGED <<table, FREE_PARTITIONS, nextPid, currentActiveProcess, osRunning, RAM, CPU,
                 interruptBitmap, worker>>

(* handleRestartCommand: cpuReset and memoryReset, then initOS, whose      *)
(* three parts are steps of their own: the CPU thread is not stopped.      *)
RestartCPU ==
  /\ console.pc = "prompt"
  /\ "restart" \in Commands
  /\ CPU' = ResetCPU
  /\ interruptBitmap' = {}
  /\ RAM' = {}
  /\ console' = [console EXCEPT !.pc = "mmuInit"]
  /\ UNCHANGED <<table, kernel, worker>>

RestartMemory ==
  /\ console.pc = "mmuInit"
  /\ FREE_PARTITIONS' = [b \in Blocks |-> TRUE]
  /\ nextPid' = 1
  /\ console' = [console EXCEPT !.pc = "flush"]
  /\ UNCHANGED <<table, currentActiveProcess, osRunning, OS_MONITOR_ACTIVE, RAM, CPU,
                 interruptBitmap, worker>>

RestartTable ==
  /\ console.pc = "flush"
  /\ state' = [s \in Slots |-> "FINISHED"]
  /\ pid' = [s \in Slots |-> -1]
  /\ console' = [console EXCEPT !.pc = "noActive"]
  /\ UNCHANGED <<startBlock, blockCount, sleepTics, context, kernel, RAM, CPU, interruptBitmap, worker>>

RestartActive ==
  /\ console.pc = "noActive"
  /\ currentActiveProcess' = NoSlot
  /\ console' = Prompt
  /\ UNCHANGED <<table, FREE_PARTITIONS, nextPid, osRunning, OS_MONITOR_ACTIVE, RAM, CPU,
                 interruptBitmap, worker>>

(* shutdown (or the end of the input): osStop asks the CPU thread to stop  *)
(* and joins it.                                                           *)
Shutdown ==
  /\ console.pc = "prompt"
  /\ "shutdown" \in Commands
  /\ osRunning' = FALSE
  /\ console' = [console EXCEPT !.pc = "join"]
  /\ UNCHANGED <<table, FREE_PARTITIONS, nextPid, currentActiveProcess, OS_MONITOR_ACTIVE, RAM, CPU,
                 interruptBitmap, worker>>

Join ==
  /\ console.pc = "join"
  /\ worker.pc = "stopped"
  /\ console' = [console EXCEPT !.pc = "down"]
  /\ UNCHANGED <<table, kernel, RAM, CPU, interruptBitmap, worker>>

-----------------------------------------------------------------------------
schedulerTick == TickWake \/ TickSave \/ TickScan \/ TickDispatch \/ TickNoReady

cpuThreadWorker ==
  \/ \E ins \in NextInstructions : cpuStep(ins)
  \/ FetchFails
  \/ FreePartition \/ Finish \/ CleanNoProcess
  \/ IdleLoop \/ StopLoop
  \/ schedulerTick

createProcess == VerifyFile \/ Allocate \/ FillPCB \/ MakeReady

handleRestartCommand == RestartMemory \/ RestartTable \/ RestartActive

Next ==
  \/ cpuThreadWorker
  \/ ReservePCB \/ createProcess
  \/ OpenMonitor \/ CloseMonitor
  \/ RestartCPU \/ handleRestartCommand
  \/ Shutdown \/ Join

Spec == Init /\ [][Next]_vars

(* The CPU thread never stops by itself, and the console thread finishes   *)
(* the command it is in; the user has to type nothing.  A program's code   *)
(* is finite, so that one that runs for ever branches again and again, and *)
(* a branch raises nothing.                                                *)
Fairness ==
  /\ WF_vars(cpuThreadWorker)
  /\ WF_vars(createProcess \/ handleRestartCommand \/ Join)
  /\ SF_vars(cpuStep(Plain({})))

FairSpec == Spec /\ Fairness

-----------------------------------------------------------------------------
(*                                Properties                               *)

Registers ==
  [slot : Slots \union {NoSlot}, pid : Nat, RB : Int, RL : Int, RX : Nat,
   interruptEnable : BOOLEAN, timerLimit : Nat, cyclesCounter : Nat, again : Instruction]

WorkerState ==
  [pc : {"wake", "save", "scan", "dispatch", "loop", "clean", "stopped", "undefined"},
   i : 0 .. MAX_PROCESSES]

ConsoleState ==
  [pc : {"prompt", "reserved", "verified", "allocated", "filled", "monitor",
         "mmuInit", "flush", "noActive", "join", "down"},
   slot : Slots \union {NoSlot}, words : Nat, start : Blocks, blocks : 0 .. MAX_PROCESSES]

(* Every variable has the type its declaration in the code gives it. *)
TypeOK ==
  /\ state \in [Slots -> ProcessState]
  /\ pid \in [Slots -> Nat \union {-1}]
  /\ startBlock \in [Slots -> Blocks]
  /\ blockCount \in [Slots -> 0 .. MAX_PROCESSES]
  /\ sleepTics \in [Slots -> Nat]
  /\ context \in [Slots -> Registers]
  /\ FREE_PARTITIONS \in [Blocks -> BOOLEAN]
  /\ nextPid \in Nat
  /\ currentActiveProcess \in Slots \union {NoSlot}
  /\ osRunning \in BOOLEAN
  /\ OS_MONITOR_ACTIVE \in BOOLEAN
  /\ RAM \subseteq Nat
  /\ CPU \in Registers
  /\ interruptBitmap \subseteq InterruptCode
  /\ worker \in WorkerState
  /\ console \in ConsoleState

(* The processes that exist: created, and not yet cleaned up.              *)
Live == {s \in Slots : state[s] \in {"READY", "EXECUTING", "BLOCKED", "BLOCKED_IO"}}

(* The partitions an entry holds, also while createProcess has only the    *)
(* local variable startBlock to say so, and while they are being freed.    *)
Owned(s) ==
  IF s \in Live
    THEN {b \in Run(startBlock[s], blockCount[s]) :
            worker.pc = "clean" /\ s = currentActiveProcess => b >= startBlock[s] + worker.i}
  ELSE IF state[s] = "NEW" /\ s = console.slot /\ console.pc \in {"allocated", "filled"}
    THEN Run(console.start, console.blocks)
  ELSE {}

(* The bitmap says free exactly of the partitions nobody holds, and no     *)
(* partition has two holders, whatever createProcess is doing while the    *)
(* CPU thread frees: nothing leaks and nothing is shared.                  *)
PartitionsExactlyOwned ==
  /\ \A b \in Blocks : ~FREE_PARTITIONS[b] <=> \E s \in Slots : b \in Owned(s)
  /\ \A s, t \in Slots : s # t => Owned(s) \cap Owned(t) = {}

(* EXECUTING is the state of the current process and of no other one, and  *)
(* cpuStep and the clean-up only ever run for a process in that state: a   *)
(* blocked process does not go on running, in particular.                  *)
OneExecuting ==
  /\ \A s \in Slots : state[s] = "EXECUTING" => s = currentActiveProcess
  /\ worker.pc \in {"loop", "clean"} /\ currentActiveProcess # NoSlot =>
       state[currentActiveProcess] = "EXECUTING"

(* No two processes have the same pid ("Unique identifier").               *)
DistinctPids ==
  /\ \A s, t \in Live : s # t => pid[s] # pid[t]
  /\ \A s \in Live : pid[s] < nextPid

(* A sleeping process has tics left: schedulerTick wakes nobody else, so   *)
(* that one with none would sleep for ever.                                *)
SleepersHaveTics == \A s \in Slots : state[s] = "BLOCKED" => sleepTics[s] > 0

(* The protection registers of a process, saved or in the CPU, fence       *)
(* exactly the partitions its PCB says it owns; these lie in the user RAM, *)
(* hold the program and the minimum stack, and are not one too many.       *)
Fenced(r, s) ==
  /\ r.RB = GET_BASE_REGISTER(startBlock[s])
  /\ r.RL = GET_LIMIT_REGISTER(r.RB, blockCount[s])
  /\ OS_RESERVED_SIZE <= r.RB /\ r.RL < RAM_SIZE
  /\ r.RB + r.RX + MIN_STACK_SIZE \in r.RL + 2 - PARTITION_SIZE .. r.RL + 1

RegistersFencePartition ==
  \A s \in Live :
    /\ context[s].pid = pid[s] => Fenced(context[s], s)
    /\ CPU.pid = pid[s] => Fenced(CPU, s)

(* The registers of a process table entry never end up in another entry:   *)
(* what the CPU runs, and what schedulerTick saves, came from that entry.  *)
RegistersStayInSlot ==
  /\ \A s \in Slots : context[s].slot \in {s, NoSlot}
  /\ worker.pc \notin {"scan", "dispatch"} /\ currentActiveProcess # NoSlot => CPU.slot = currentActiveProcess

(* The kernel implements the life cycle of ProcessManager.                 *)
Manager == INSTANCE ProcessManager
  WITH Entries <- Slots, Partition <- Blocks,
       life <- state, holds <- [s \in Slots |-> Owned(s)]

ImplementsProcessManager == Manager!Spec

(* The runs of partitions that are handed out: those of the processes,     *)
(* until the CPU thread starts to give one back, and the one createProcess *)
(* has got for the process it is creating.                                 *)
GivingBack(s) == worker.pc = "clean" /\ s = currentActiveProcess

HeldRuns ==
  {<<startBlock[s], blockCount[s]>> : s \in {t \in Live : ~GivingBack(t)}} \union
  (IF console.pc \in {"allocated", "filled"} THEN {<<console.start, console.blocks>>} ELSE {})

ReturnedBlocks == UNION {Owned(s) : s \in {t \in Slots : GivingBack(t)}}

(* The two threads use the allocator as PartitionPool says, which is what  *)
(* Mmu implements: a run is taken whole, only a run that was taken is      *)
(* given back, once, and block by block, and the next one only when the    *)
(* last block of it is back.                                               *)
Pool == INSTANCE PartitionPool
  WITH free <- {b \in Blocks : FREE_PARTITIONS[b]},
       holders <- HeldRuns,
       returning <- ReturnedBlocks

UsesPool == Pool!Spec

(* A process that could run gets the CPU: the round robin starves nobody.  *)
ReadyRuns == \A s \in Slots : state[s] = "READY" ~> state[s] # "READY" \/ ~osRunning

(* A process that sleeps wakes up, also when it is the only one.           *)
SleepersWake == \A s \in Slots : state[s] = "BLOCKED" ~> state[s] # "BLOCKED" \/ ~osRunning

(* A process that waits for the monitor goes on once the monitor is open   *)
(* and stays open.                                                         *)
MonitorServes ==
  <>[]OS_MONITOR_ACTIVE => \A s \in Slots : []<>(state[s] # "BLOCKED_IO")

(* shutdown ends: the CPU thread leaves its loop wherever it was.          *)
ShutdownCompletes == console.pc = "join" ~> console.pc = "down" \/ worker.pc = "undefined"

-----------------------------------------------------------------------------
(*       What the documentation says and the code does not guarantee       *)

(* A process runs with its own registers (definitions.h: context is the    *)
(* snapshot of the CPU registers of this PCB).  A FINISHED entry is reused *)
(* by createProcess before schedulerTick has saved the dead process's      *)
(* registers into it.                                                      *)
OwnRegisters ==
  worker.pc = "loop" /\ currentActiveProcess # NoSlot => CPU.pid = pid[currentActiveProcess]

(* An interrupt is handled at the end of the instruction cycle that raised *)
(* it (cpu.h), so that no fault of the outgoing process is left when the   *)
(* scheduler picks the next one, which it would kill.  checkInterrupts     *)
(* handles one interrupt per cycle, and nobody clears the others.          *)
NoInheritedFault ==
  worker.pc \in {"wake", "save", "scan", "dispatch"} => interruptBitmap \cap Faults = {}
=============================================================================
