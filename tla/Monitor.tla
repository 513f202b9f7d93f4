------------------------------ MODULE Monitor -------------------------------
(***************************************************************************)
(* The monitor: what the console thread and the services of the CPU thread *)
(* share when a user reads and answers the programs (src/console.c,        *)
(* src/kernel/syscalls.c).                                                 *)
(*                                                                         *)
(*   - monitorHistory, written by the services and replayed by a session,  *)
(*     without a lock;                                                     *)
(*   - the terminal: a session puts it in raw mode, the read service gives *)
(*     the user a line to edit and puts it back, both through the one      *)
(*     origTermios;                                                        *)
(*   - stdin, which fgets at the prompt, getchar in the session and scanf  *)
(*     in the read service take turns to read.                             *)
(*                                                                         *)
(* Of the terminal's mode only ICANON matters: without it a read returns   *)
(* nothing when no key was hit for 100 ms.  A typed line is a command at   *)
(* the prompt, a number in the read service; in a session a key is ESC or  *)
(* not.  The lock of the FILE stdin is held by whoever is in a read.       *)
(***************************************************************************)
EXTENDS Naturals, Sequences

CONSTANTS
  MAX_HISTORY_LINES,
  Commands,          \* what the user types at the prompt: "monitor", "shutdown", others
  MayRefuse,         \* whether the terminal may refuse to change its mode
  MaxMessages        \* bound: the programs issue no more messages than this

ASSUME HistoryAssumption == MAX_HISTORY_LINES \in Nat \ {0}

VARIABLES
  monitorHistory, historyCount,
  OS_MONITOR_ACTIVE, isSyscallReading,
  icanon, origTermios,   \* the ICANON flag of the terminal, and of what enableRawMode saved
  stdin,                 \* what is left in stdin's buffer of a line: nothing, its tail, its end
  console,               \* the console thread, and the loop index of the replay
  cpu,                   \* the CPU thread in a service, see Init
  screen,                \* the messages printed since the session was opened
  outlived               \* history: a session was closed while a read service was under way

history == <<monitorHistory, historyCount>>
terminal == <<icanon, origTermios>>
flags == <<OS_MONITOR_ACTIVE, isSyscallReading>>
vars == <<history, flags, terminal, stdin, console, cpu, screen, outlived>>

Indexes == 0 .. MAX_HISTORY_LINES - 1
Nothing == 0

(* cpu.issued counts the messages, cpu.i is the loop index of the shift,   *)
(* cpu.then what follows monitorSaveHistory, cpu.answer what scanf read.   *)
Init ==
  /\ monitorHistory = [i \in Indexes |-> Nothing]
  /\ historyCount = 0
  /\ OS_MONITOR_ACTIVE = FALSE
  /\ isSyscallReading = FALSE
  /\ icanon = TRUE
  /\ origTermios = FALSE
  /\ stdin = "empty"
  /\ console = [pc |-> "prompt", i |-> 0]
  /\ cpu = [pc |-> "run", issued |-> 0, i |-> 0, then |-> "run", answer |-> "none"]
  /\ screen = {}
  /\ outlived = FALSE

(* Nobody is in a read, so that the lock of stdin is free. *)
StdinFree == console.pc \notin {"fgets", "fgetsRaw", "getchar"} /\ cpu.pc # "scanf"

ConsoleAt(p) == console' = [console EXCEPT !.pc = p]
CpuAt(p) == cpu' = [cpu EXCEPT !.pc = p]

-----------------------------------------------------------------------------
(*                     consoleStart: the prompt                            *)

(* The mode a read begins in tells whether it has a timeout.               *)
Prompt ==
  /\ console.pc = "prompt"
  /\ StdinFree
  /\ ConsoleAt(IF icanon THEN "fgets" ELSE "fgetsRaw")
  /\ UNCHANGED <<history, flags, terminal, stdin, cpu, screen, outlived>>

(* What a number or a key left of its line is the next command: empty, or  *)
(* one nobody knows.                                                       *)
ReadRemainder ==
  /\ console.pc \in {"fgets", "fgetsRaw"}
  /\ stdin # "empty"
  /\ stdin' = "empty"
  /\ ConsoleAt("prompt")
  /\ UNCHANGED <<history, flags, terminal, cpu, screen, outlived>>

ReadCommand ==
  /\ console.pc \in {"fgets", "fgetsRaw"}
  /\ stdin = "empty"
  /\ \E command \in Commands :
       \/ /\ command = "monitor"
          /\ OS_MONITOR_ACTIVE' = TRUE
          /\ screen' = {}
          /\ console' = [pc |-> "replay", i |-> 0]
       \/ /\ command = "shutdown"
          /\ ConsoleAt("down")
          /\ UNCHANGED <<OS_MONITOR_ACTIVE, screen>>
       \/ /\ command \notin {"monitor", "shutdown"}
          /\ ConsoleAt("prompt")
          /\ UNCHANGED <<OS_MONITOR_ACTIVE, screen>>
  /\ UNCHANGED <<history, isSyscallReading, terminal, stdin, cpu, outlived>>

(* fgets returns NULL when the terminal gave nothing in time: consoleStart *)
(* takes it for the end of the input and returns CONSOLE_RUNTIME_ERROR.    *)
ReadNothing ==
  /\ console.pc = "fgetsRaw"
  /\ stdin = "empty"
  /\ ConsoleAt("failed")
  /\ UNCHANGED <<history, flags, terminal, stdin, cpu, screen, outlived>>

-----------------------------------------------------------------------------
(*                        startMonitorSession                              *)

Replay ==
  /\ console.pc = "replay"
  /\ console.i < historyCount
  /\ screen' = screen \union {monitorHistory[console.i]}
  /\ console' = [console EXCEPT !.i = @ + 1]
  /\ UNCHANGED <<history, flags, terminal, stdin, cpu, outlived>>

ReplayDone ==
  /\ console.pc = "replay"
  /\ console.i >= historyCount
  /\ ConsoleAt("getattr")
  /\ UNCHANGED <<history, flags, terminal, stdin, cpu, screen, outlived>>

(* enableRawMode: the attributes are saved, then set without ICANON.       *)
SaveAttributes ==
  /\ console.pc = "getattr"
  /\ origTermios' = icanon
  /\ ConsoleAt("setattr")
  /\ UNCHANGED <<history, flags, icanon, stdin, cpu, screen, outlived>>

SetRaw ==
  /\ console.pc = "setattr"
  /\ icanon' = FALSE
  /\ ConsoleAt("poll")
  /\ UNCHANGED <<history, flags, origTermios, stdin, cpu, screen, outlived>>

(* A read service that passed its check of OS_MONITOR_ACTIVE.              *)
ReadUnderWay ==
  \/ cpu.pc \in {"flag", "wait", "cook", "stdin", "scanf", "input", "getattr", "setattr", "done"}
  \/ cpu.pc \in {"shift", "entry", "count"} /\ cpu.then # "show"

SessionEnds ==
  /\ OS_MONITOR_ACTIVE' = FALSE
  /\ outlived' = (outlived \/ ReadUnderWay)
  /\ ConsoleAt("prompt")

(* The terminal may refuse either half of enableRawMode.                   *)
RawRefused ==
  /\ MayRefuse
  /\ console.pc \in {"getattr", "setattr"}
  /\ SessionEnds
  /\ UNCHANGED <<history, isSyscallReading, terminal, stdin, cpu, screen>>

(* Mutant: the session does not make room for the read service. *)
PollAlways == TRUE

PollAllowed == ~isSyscallReading

Poll ==
  /\ console.pc = "poll"
  /\ PollAllowed
  /\ StdinFree
  /\ ConsoleAt("getchar")
  /\ UNCHANGED <<history, flags, terminal, stdin, cpu, screen, outlived>>

(* No key in time, or one that is not ESC.  If the terminal has lines,     *)
(* getchar waits for one and takes its first character.                    *)
OtherKey ==
  /\ console.pc = "getchar"
  /\ stdin' \in CASE stdin = "tail" -> {"tail", "end"}
                  [] stdin = "end" -> {"empty"}
                  [] stdin = "empty" /\ icanon -> {"tail", "end"}
                  [] OTHER -> {"empty"}
  /\ ConsoleAt("poll")
  /\ UNCHANGED <<history, flags, terminal, cpu, screen, outlived>>

Escape ==
  /\ console.pc = "getchar"
  /\ stdin = "empty"
  /\ stdin' = IF icanon THEN "end" ELSE "empty"
  /\ ConsoleAt("restore")
  /\ UNCHANGED <<history, flags, terminal, cpu, screen, outlived>>

disableRawMode ==
  /\ console.pc = "restore"
  /\ icanon' = origTermios
  /\ ConsoleAt("close")
  /\ UNCHANGED <<history, flags, origTermios, stdin, cpu, screen, outlived>>

Close ==
  /\ console.pc = "close"
  /\ SessionEnds
  /\ UNCHANGED <<history, isSyscallReading, terminal, stdin, cpu, screen>>

-----------------------------------------------------------------------------
(*              monitorSaveHistory and monitorPrint, CPU thread            *)

(* Mutant: one entry more than the array has. *)
FreeEntryAtEnd == historyCount <= MAX_HISTORY_LINES

FreeEntry == historyCount < MAX_HISTORY_LINES

(* The call: a message that has a free entry is appended, otherwise the    *)
(* others move down by one first.                                          *)
SaveCall(then) ==
  [cpu EXCEPT !.pc = IF FreeEntry THEN "entry" ELSE "shift",
              !.issued = @ + 1, !.i = 1, !.then = then]

(* Mutant: the last two entries are not moved. *)
ShiftEndEarly == MAX_HISTORY_LINES - 1

ShiftEnd == MAX_HISTORY_LINES

Shift ==
  /\ cpu.pc = "shift"
  /\ IF cpu.i < ShiftEnd
       THEN /\ monitorHistory' = [monitorHistory EXCEPT ![cpu.i - 1] = monitorHistory[cpu.i]]
            /\ cpu' = [cpu EXCEPT !.i = @ + 1]
       ELSE /\ monitorHistory' = [monitorHistory EXCEPT ![MAX_HISTORY_LINES - 1] = cpu.issued]
            /\ CpuAt(cpu.then)
  /\ UNCHANGED <<historyCount, flags, terminal, stdin, console, screen, outlived>>

WriteEntry ==
  /\ cpu.pc = "entry"
  /\ monitorHistory' = [monitorHistory EXCEPT ![historyCount] = cpu.issued]
  /\ CpuAt("count")
  /\ UNCHANGED <<historyCount, flags, terminal, stdin, console, screen, outlived>>

CountEntry ==
  /\ cpu.pc = "count"
  /\ historyCount' = historyCount + 1
  /\ CpuAt(cpu.then)
  /\ UNCHANGED <<monitorHistory, flags, terminal, stdin, console, screen, outlived>>

(* Mutant: it is decided before the message is saved who shows it. *)
AfterSave_Decided == IF OS_MONITOR_ACTIVE THEN "show" ELSE "run"

AfterSave == "show"

(* monitorPrint, from the print service, which has found the monitor open, *)
(* or from the sleep service that refuses a negative duration.             *)
PrintCall ==
  /\ cpu.pc = "run"
  /\ cpu.issued < MaxMessages
  /\ cpu' = SaveCall(AfterSave)
  /\ UNCHANGED <<history, flags, terminal, stdin, console, screen, outlived>>

Show ==
  /\ cpu.pc = "show"
  /\ screen' = IF OS_MONITOR_ACTIVE THEN screen \union {cpu.issued} ELSE screen
  /\ CpuAt("run")
  /\ UNCHANGED <<history, flags, terminal, stdin, console, outlived>>

-----------------------------------------------------------------------------
(*                 handleSyscall: the read service                         *)

(* At most two messages are issued per call: the bound leaves room.        *)
ReadCall ==
  /\ cpu.pc = "run"
  /\ cpu.issued + 2 <= MaxMessages
  /\ OS_MONITOR_ACTIVE
  /\ CpuAt("flag")
  /\ UNCHANGED <<history, flags, terminal, stdin, console, screen, outlived>>

SetReading ==
  /\ cpu.pc = "flag"
  /\ isSyscallReading' = TRUE
  /\ CpuAt("wait")
  /\ UNCHANGED <<history, OS_MONITOR_ACTIVE, terminal, stdin, console, screen, outlived>>

(* Mutant: the service does not wait for the session to leave getchar. *)
WaitedNot == TRUE

(* usleep(150000) is longer than the 100 ms of getchar: what the console   *)
(* thread was doing in the session when the flag went up, it has done.     *)
(* (Of a session opened while a service is under way nothing is assumed.)  *)
Waited == outlived \/ console.pc \notin {"replay", "getattr", "setattr", "getchar", "restore", "close"}

WaitForSession ==
  /\ cpu.pc = "wait"
  /\ Waited
  /\ CpuAt("cook")
  /\ UNCHANGED <<history, flags, terminal, stdin, console, screen, outlived>>

(* Mutant: the service reads in the mode the session has set. *)
CookedMode_AsIs == icanon

CookedMode == origTermios

CookTerminal ==
  /\ cpu.pc = "cook"
  /\ icanon' = CookedMode
  /\ CpuAt("stdin")
  /\ UNCHANGED <<history, flags, origTermios, stdin, console, screen, outlived>>

(* clearerr and scanf both wait for the lock of stdin.                     *)
TakeStdin ==
  /\ cpu.pc = "stdin"
  /\ StdinFree
  /\ CpuAt("scanf")
  /\ UNCHANGED <<history, flags, terminal, stdin, console, screen, outlived>>

(* What is not a number is discarded up to the end of the line, and the    *)
(* user asked again; without ICANON it may be that there was no input.     *)
InvalidInput ==
  /\ cpu.pc = "scanf"
  /\ stdin' = "empty"
  /\ CpuAt("stdin")
  /\ UNCHANGED <<history, flags, terminal, console, screen, outlived>>

(* scanf leaves the end of the line.  A number is cut when another reader  *)
(* took its first digits, or when the terminal gives what was typed so     *)
(* far.  The request and its answer are a message, which is on the screen  *)
(* when it has been typed; that the number is too large is one before it.  *)
ReadNumber ==
  /\ cpu.pc = "scanf"
  /\ \E answer \in IF stdin = "tail" THEN {"cut"} ELSE IF icanon THEN {"whole"} ELSE {"whole", "cut"},
        tooLarge \in BOOLEAN :
       /\ cpu' = [SaveCall(IF tooLarge THEN "input" ELSE "getattr") EXCEPT !.answer = answer]
       /\ screen' = screen \union cpu.issued + 1 .. cpu.issued + (IF tooLarge THEN 2 ELSE 1)
  /\ stdin' \in IF icanon THEN {"end"} ELSE {"end", "empty"}
  /\ UNCHANGED <<history, flags, terminal, console, outlived>>

SaveInput ==
  /\ cpu.pc = "input"
  /\ cpu' = SaveCall("getattr")
  /\ UNCHANGED <<history, flags, terminal, stdin, console, screen, outlived>>

(* enableRawMode, whose result the service does not look at.               *)
SaveAttributesAgain ==
  /\ cpu.pc = "getattr"
  /\ origTermios' = icanon
  /\ CpuAt("setattr")
  /\ UNCHANGED <<history, flags, icanon, stdin, console, screen, outlived>>

SetRawAgain ==
  /\ cpu.pc = "setattr"
  /\ icanon' = FALSE
  /\ CpuAt("done")
  /\ UNCHANGED <<history, flags, origTermios, stdin, console, screen, outlived>>

ReadReturns ==
  /\ cpu.pc = "done"
  /\ isSyscallReading' = FALSE
  /\ CpuAt("run")
  /\ UNCHANGED <<history, OS_MONITOR_ACTIVE, terminal, stdin, console, screen, outlived>>

-----------------------------------------------------------------------------
consoleStart == Prompt \/ ReadRemainder \/ ReadCommand \/ ReadNothing

enableRawMode == SaveAttributes \/ SetRaw \/ RawRefused

startMonitorSession ==
  Replay \/ ReplayDone \/ enableRawMode \/ Poll \/ OtherKey \/ Escape \/ disableRawMode \/ Close

monitorSaveHistory == Shift \/ WriteEntry \/ CountEntry

monitorPrint == PrintCall \/ Show

(* The read service, but for what the user has to do.                      *)
ReadService ==
  \/ SetReading \/ WaitForSession \/ CookTerminal \/ TakeStdin
  \/ SaveInput \/ SaveAttributesAgain \/ SetRawAgain \/ ReadReturns

Next ==
  \/ consoleStart \/ startMonitorSession
  \/ monitorSaveHistory \/ monitorPrint
  \/ ReadCall \/ ReadService \/ InvalidInput \/ ReadNumber

Spec == Init /\ [][Next]_vars

(* Both threads go on with what they have begun; getchar returns, since it *)
(* has a timeout.  Of the user it is only asked to answer a program in the *)
(* end: not to type invalid numbers for ever.                              *)
Fairness ==
  /\ WF_vars(Replay \/ ReplayDone \/ enableRawMode \/ Poll \/ disableRawMode \/ Close)
  /\ WF_vars(OtherKey /\ ~icanon)
  /\ WF_vars(monitorSaveHistory \/ Show \/ ReadService)
  /\ SF_vars(ReadNumber)

FairSpec == Spec /\ Fairness

-----------------------------------------------------------------------------
(*                                Properties                               *)

Messages == 1 .. MaxMessages

(* Every variable has the type its declaration gives it; the history keeps *)
(* to its array.                                                           *)
TypeOK ==
  /\ monitorHistory \in [Indexes -> Nat]
  /\ historyCount \in 0 .. MAX_HISTORY_LINES
  /\ OS_MONITOR_ACTIVE \in BOOLEAN
  /\ isSyscallReading \in BOOLEAN
  /\ icanon \in BOOLEAN
  /\ origTermios \in BOOLEAN
  /\ stdin \in {"empty", "tail", "end"}
  /\ console \in [pc : {"prompt", "fgets", "fgetsRaw", "replay", "getattr", "setattr", "poll", "getchar",
                        "restore", "close", "failed", "down"},
                  i : 0 .. MAX_HISTORY_LINES]
  /\ cpu \in [pc : {"run", "shift", "entry", "count", "show", "flag", "wait", "cook", "stdin",
                    "scanf", "input", "getattr", "setattr", "done"},
              issued : Nat, i : 0 .. MAX_HISTORY_LINES, then : {"run", "show", "input", "getattr"},
              answer : {"none", "whole", "cut"}]
  /\ screen \subseteq Nat
  /\ outlived \in BOOLEAN

(* The history as if the call of monitorSaveHistory that is under way had  *)
(* ended: the entries below cpu.i have been moved, the others will be.     *)
Kept == [k \in 1 .. historyCount |-> monitorHistory[k - 1]]

Moved ==
  [k \in 1 .. MAX_HISTORY_LINES |->
     IF k = MAX_HISTORY_LINES THEN cpu.issued
     ELSE IF k < cpu.i THEN monitorHistory[k - 1] ELSE monitorHistory[k]]

Lines ==
  CASE cpu.pc = "shift" -> Moved
    [] cpu.pc \in {"entry", "count"} -> Append(Kept, cpu.issued)
    [] OTHER -> Kept

(* The array, its count and the shifting in place implement a log of the   *)
(* last MAX_HISTORY_LINES messages (console.h: "Maximum number of lines to *)
(* keep"), whichever service issues them.                                  *)
Log == INSTANCE MonitorLog WITH lines <- Lines, issued <- cpu.issued

ImplementsLog == Log!Spec

(* Whatever was printed before or during a session is on its screen, but   *)
(* for the message that is about to be: what the replay does not reach     *)
(* any more, monitorPrint prints.  (As long as no message was dropped: a   *)
(* shift moves lines below the index of a replay that is under way; and no *)
(* session was closed in the middle of a read service.)                    *)
NothingDropped == cpu.issued <= MAX_HISTORY_LINES

ScreenComplete ==
  console.pc \in {"getattr", "setattr", "poll", "getchar"} /\ NothingDropped /\ ~outlived =>
    \A i \in 0 .. historyCount - 1 :
      \/ monitorHistory[i] \in screen
      \/ cpu.pc = "show" /\ monitorHistory[i] = cpu.issued

(* The prompt finds the terminal with lines, and the console does not give *)
(* up, unless a session was closed in the middle of a read service.        *)
TerminalRestored ==
  /\ console.pc \in {"fgetsRaw", "failed"} => outlived
  /\ console.pc \in {"prompt", "fgets"} => icanon \/ outlived

(* The number a program gets is one the user typed, not the rest of one    *)
(* that the session's getchar has begun to read; with the same proviso.    *)
AnswerWhole == cpu.answer = "cut" => outlived

(* A program that reads gets its number and goes on, if the user answers:  *)
(* session and service do not wait for each other.                         *)
ReadAnswered == isSyscallReading ~> ~isSyscallReading \/ outlived

-----------------------------------------------------------------------------
(*        What the documentation says and the code does not guarantee      *)

(* ESC returns to the console (the monitor's banner and console.h): it     *)
(* goes on until the user shuts it down, as the input is never closed.     *)
ConsoleGoesOn == console.pc # "failed"
=============================================================================
