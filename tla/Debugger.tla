------------------------------ MODULE Debugger ------------------------------
(***************************************************************************)
(* The kernel with the debug command (handleDebugCommand and cpuReset of   *)
(* src/console.c and cpu.c, loadProgram of src/kernel/vfs.c): the console  *)
(* thread loads a program over the partitions of the processes, into the   *)
(* one global CPU, and steps it with the same cpuStep as the CPU thread,   *)
(* which goes on meanwhile.  What is shared and not in Kernel is osYield:  *)
(* a step of the debugger may leave it set for the CPU thread to find.     *)
(***************************************************************************)
EXTENDS Kernel

CONSTANTS
  DEFAULT_STACK_SIZE,  \* the most loadProgram gives a program
  LoadedLimit          \* timerLimit of a loaded program, 16 in loadProgram

ASSUME DebuggerAssumption ==
  /\ DEFAULT_STACK_SIZE \in Nat
  /\ LoadedLimit \in 1 .. CycleBound
  /\ "restart" \notin Commands

VARIABLES
  osYield,
  session,  \* the debug command: "off", "load", "on"; "undefined", see DebugNobody
  alone     \* history: the session began with no process that could run

dvars == <<vars, osYield, session, alone>>

(* The owner of the registers of the debugged program.                     *)
DebugPid == MaxPid + 2

DebugInit ==
  /\ Init
  /\ osYield = FALSE
  /\ session = "off"
  /\ alone = FALSE

-----------------------------------------------------------------------------
(*             The CPU thread, which may find osYield set                  *)

AfterStepOrYield(outcome) ==
  /\ AfterStep(IF outcome = "on" /\ osYield THEN "timer" ELSE outcome)
  /\ osYield' = (osYield /\ outcome = "halt")

CpuThread ==
  /\ session # "undefined"
  /\ \/ /\ Running
        /\ \E ins \in NextInstructions, outcome \in Outcomes :
             Cycle(ins, outcome) /\ AfterStepOrYield(outcome)
     \/ Finish /\ osYield' = FALSE
     \/ /\ FetchFails \/ FreePartition \/ CleanNoProcess \/ IdleLoop \/ StopLoop \/ schedulerTick
        /\ UNCHANGED osYield
  /\ UNCHANGED <<session, alone>>

-----------------------------------------------------------------------------
(*                  handleDebugCommand, on the console thread              *)

(* Nobody else is going to load or change the registers.                   *)
NoneCanRun ==
  /\ currentActiveProcess = NoSlot
  /\ \A s \in Slots : state[s] \in {"FINISHED", "BLOCKED_IO"}

DebugReset ==
  /\ session = "off"
  /\ console.pc = "prompt"
  /\ "debug" \in Commands
  /\ CPU' = ResetCPU
  /\ interruptBitmap' = {}
  /\ session' = "load"
  /\ alone' = NoneCanRun
  /\ UNCHANGED <<table, kernel, RAM, worker, console, osYield>>

(* The entries whose partitions a program of w words is written over; what *)
(* they execute next is whatever an instruction may be.                    *)
Overwritten(w) ==
  {s \in Slots : \E b \in Run(startBlock[s], blockCount[s]) :
     GET_BASE_REGISTER(b) < OS_RESERVED_SIZE + w}

DebugLoad ==
  /\ session = "load"
  /\ \E w \in WordCounts :
       LET room == RAM_SIZE - OS_RESERVED_SIZE - w
           stackMemory == IF room > DEFAULT_STACK_SIZE THEN DEFAULT_STACK_SIZE ELSE room
       IN  /\ MIN_STACK_SIZE <= room
           /\ RAM' = RAM \union {DebugPid} \union {context[s].pid : s \in Overwritten(w)}
           /\ context' = [s \in Slots |->
                IF s \in Overwritten(w) THEN [context[s] EXCEPT !.again = None] ELSE context[s]]
           /\ CPU' = [CPU EXCEPT !.slot = NoSlot, !.pid = DebugPid, !.again = None,
                                 !.RB = OS_RESERVED_SIZE,
                                 !.RL = OS_RESERVED_SIZE + stackMemory + w, !.RX = w,
                                 !.timerLimit = LoadedLimit, !.cyclesCounter = 0,
                                 !.interruptEnable = TRUE]
  /\ session' = "on"
  /\ UNCHANGED <<state, pid, startBlock, blockCount, sleepTics, kernel, interruptBitmap, worker,
                 console, osYield, alone>>

(* No such file, or too many words for the memory.                         *)
DebugLoadFails ==
  /\ session = "load"
  /\ session' = "off"
  /\ UNCHANGED <<vars, osYield, alone>>

(* The service blocks the current process, which need not be the one that  *)
(* is debugged, and the program is stopped when it may not go on.          *)
AfterDebugStep(outcome) ==
  /\ outcome = "block" => currentActiveProcess # NoSlot
  /\ osYield' = (osYield \/ outcome \in {"block", "timer"})
  /\ session' = IF outcome = "halt" THEN "off" ELSE "on"
  /\ UNCHANGED worker

(* With no current process it is PROCESS_TABLE[-1] that is blocked.        *)
(* Nothing is modelled beyond this point.                                  *)
AfterNobody(outcome) ==
  /\ outcome = "block" /\ currentActiveProcess = NoSlot
  /\ session' = "undefined"
  /\ UNCHANGED <<worker, osYield>>

DebugStep ==
  /\ session = "on"
  /\ \/ \E ins \in NextInstructions, outcome \in Outcomes :
          Cycle(ins, outcome) /\ (AfterDebugStep(outcome) \/ AfterNobody(outcome))
     \/ /\ WildFetch \in NextInstructions
        /\ session' = "off"
        /\ UNCHANGED <<vars, osYield>>
  /\ UNCHANGED alone

DebugQuit ==
  /\ session = "on"
  /\ session' = "off"
  /\ UNCHANGED <<vars, osYield, alone>>

handleDebugCommand == DebugLoad \/ DebugLoadFails

-----------------------------------------------------------------------------
(* The other commands, as Kernel has them, but for restart.                *)
ConsoleThread ==
  /\ session = "off"
  /\ \/ ReservePCB \/ createProcess
     \/ OpenMonitor \/ CloseMonitor
     \/ Shutdown \/ Join
  /\ UNCHANGED <<osYield, session, alone>>

DebugNext ==
  CpuThread \/ ConsoleThread \/ DebugReset \/ handleDebugCommand \/ DebugStep \/ DebugQuit

DebugSpec == DebugInit /\ [][DebugNext]_dvars

-----------------------------------------------------------------------------
(*                                Properties                               *)

(* In a session that nobody can disturb at its beginning nobody does: the  *)
(* CPU is the debugged program's from its load to the end of the session,  *)
(* although the CPU thread runs the scheduler all the time, and no process *)
(* becomes able to run.  (With processes that run both threads execute on  *)
(* the same registers, and nothing is promised to either program.)         *)
DebuggedAlone ==
  session = "on" /\ alone => CPU.pid = DebugPid /\ NoneCanRun
=============================================================================
