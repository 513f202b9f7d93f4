--------------------------- MODULE MonitorProofs ----------------------------
(***************************************************************************)
(* Theorems about Monitor, for a history of any length and any number of   *)
(* messages, whatever the two threads do: the history keeps to its array   *)
(* and implements the log of the last MAX_HISTORY_LINES messages; the      *)
(* terminal is given back with lines and answers are whole, as long as no  *)
(* session is closed in the middle of a read service; the screen of a      *)
(* session misses no message.                                              *)
(***************************************************************************)
EXTENDS Monitor, TLAPS

(* What a call of monitorSaveHistory relies on while it is under way: room *)
(* for an entry, or a full array to shift.                                 *)
SaveInv ==
  /\ cpu.pc = "shift" => cpu.i >= 1 /\ historyCount = MAX_HISTORY_LINES
  /\ cpu.pc \in {"entry", "count"} => historyCount < MAX_HISTORY_LINES
  /\ cpu.pc = "count" => monitorHistory[historyCount] = cpu.issued

Inv == TypeOK /\ SaveInv

ConsoleTypeOK ==
  console \in [pc : {"prompt", "fgets", "fgetsRaw", "replay", "getattr", "setattr", "poll", "getchar",
                     "restore", "close", "failed", "down"},
               i : 0 .. MAX_HISTORY_LINES]

CpuTypeOK ==
  cpu \in [pc : {"run", "shift", "entry", "count", "show", "flag", "wait", "cook", "stdin",
                 "scanf", "input", "getattr", "setattr", "done"},
           issued : Nat, i : 0 .. MAX_HISTORY_LINES, then : {"run", "show", "input", "getattr"},
           answer : {"none", "whole", "cut"}]

LEMMA InitInv == Init => Inv
<1> SUFFICES ASSUME Init PROVE Inv
  OBVIOUS
<1>1. monitorHistory \in [Indexes -> Nat] /\ historyCount \in 0 .. MAX_HISTORY_LINES
  BY HistoryAssumption DEF Init, Nothing
<1>2. ConsoleTypeOK /\ CpuTypeOK
  BY HistoryAssumption DEF Init, ConsoleTypeOK, CpuTypeOK
<1>3. SaveInv
  BY DEF Init, SaveInv
<1> QED
  BY <1>1, <1>2, <1>3 DEF Init, Inv, TypeOK, ConsoleTypeOK, CpuTypeOK

ConsoleActions ==
  Prompt \/ ReadRemainder \/ ReadCommand \/ ReadNothing \/ Replay \/ ReplayDone
    \/ SaveAttributes \/ SetRaw \/ RawRefused \/ Poll \/ OtherKey \/ Escape
    \/ disableRawMode \/ Close

LEMMA ConsoleCases == consoleStart \/ startMonitorSession => ConsoleActions
BY DEF consoleStart, startMonitorSession, enableRawMode, ConsoleActions

(* The console thread leaves the history and the CPU thread alone.         *)
LEMMA ConsoleStep ==
  ASSUME Inv, ConsoleActions
  PROVE  UNCHANGED <<monitorHistory, historyCount, cpu>> /\ Inv'
<1>1. UNCHANGED <<monitorHistory, historyCount, cpu>>
  BY DEF ConsoleActions, Prompt, ReadRemainder, ReadCommand, ReadNothing, Replay, ReplayDone,
         SaveAttributes, SetRaw, RawRefused, Poll, OtherKey, Escape, disableRawMode, Close, history
<1>2. SaveInv'
  BY <1>1 DEF Inv, SaveInv
<1>3. /\ OS_MONITOR_ACTIVE' \in BOOLEAN /\ isSyscallReading' \in BOOLEAN
      /\ icanon' \in BOOLEAN /\ origTermios' \in BOOLEAN /\ outlived' \in BOOLEAN
  BY Zenon DEF Inv, TypeOK, ConsoleActions, Prompt, ReadRemainder, ReadCommand, ReadNothing, Replay,
         ReplayDone, SaveAttributes, SetRaw, RawRefused, Poll, OtherKey, Escape, disableRawMode,
         Close, SessionEnds, flags, terminal, ReadUnderWay
<1>4. stdin' \in {"empty", "tail", "end"}
  BY DEF Inv, TypeOK, ConsoleActions, Prompt, ReadRemainder, ReadCommand, ReadNothing, Replay,
         ReplayDone, SaveAttributes, SetRaw, RawRefused, Poll, OtherKey, Escape, disableRawMode,
         Close
<1>5. ConsoleTypeOK'
  <2>1. ConsoleTypeOK /\ historyCount \in 0 .. MAX_HISTORY_LINES
    BY DEF Inv, TypeOK, ConsoleTypeOK
  <2> QED
    BY <2>1, HistoryAssumption
       DEF ConsoleTypeOK, ConsoleActions, Prompt, ReadRemainder, ReadCommand, ReadNothing, Replay,
           ReplayDone, SaveAttributes, SetRaw, RawRefused, Poll, OtherKey, Escape, disableRawMode,
           Close, SessionEnds, ConsoleAt
<1>6. screen' \subseteq Nat
  <2>1. CASE Replay
    <3>1. console.i \in Indexes
      BY <2>1, HistoryAssumption DEF Replay, Inv, TypeOK, Indexes
    <3> QED
      BY <2>1, <3>1 DEF Replay, Inv, TypeOK
  <2>2. CASE ~Replay
    BY <2>2 DEF Inv, TypeOK, ConsoleActions, Prompt, ReadRemainder, ReadCommand, ReadNothing,
           ReplayDone, SaveAttributes, SetRaw, RawRefused, Poll, OtherKey, Escape, disableRawMode,
           Close
  <2> QED
    BY <2>1, <2>2
<1> QED
  BY <1>1, <1>2, <1>3, <1>4, <1>5, <1>6 DEF Inv, TypeOK, ConsoleTypeOK

-----------------------------------------------------------------------------
(* The steps of the CPU thread that call monitorSaveHistory, those that    *)
(* are inside it, and the others.                                          *)
CallActions == PrintCall \/ ReadNumber \/ SaveInput

OtherActions ==
  Show \/ ReadCall \/ SetReading \/ WaitForSession \/ CookTerminal \/ TakeStdin \/ InvalidInput
    \/ SaveAttributesAgain \/ SetRawAgain \/ ReadReturns

LEMMA CpuCases ==
  monitorSaveHistory \/ monitorPrint \/ ReadCall \/ ReadService \/ InvalidInput \/ ReadNumber
    => CallActions \/ Shift \/ WriteEntry \/ CountEntry \/ OtherActions
BY DEF monitorSaveHistory, monitorPrint, ReadService, CallActions, OtherActions

(* What the console thread sees of a step of the CPU thread has its type.  *)
LEMMA CpuRestType ==
  ASSUME TypeOK, CallActions \/ Shift \/ WriteEntry \/ CountEntry \/ OtherActions
  PROVE  /\ OS_MONITOR_ACTIVE' \in BOOLEAN /\ isSyscallReading' \in BOOLEAN
         /\ icanon' \in BOOLEAN /\ origTermios' \in BOOLEAN /\ outlived' \in BOOLEAN
         /\ stdin' \in {"empty", "tail", "end"} /\ ConsoleTypeOK' /\ screen' \subseteq Nat
<1>1. /\ OS_MONITOR_ACTIVE' \in BOOLEAN /\ isSyscallReading' \in BOOLEAN
      /\ icanon' \in BOOLEAN /\ origTermios' \in BOOLEAN /\ outlived' \in BOOLEAN
      /\ UNCHANGED console
  BY Zenon DEF TypeOK, CallActions, OtherActions, PrintCall, ReadNumber, SaveInput, Shift, WriteEntry,
         CountEntry, Show, ReadCall, SetReading, WaitForSession, CookTerminal, TakeStdin,
         InvalidInput, SaveAttributesAgain, SetRawAgain, ReadReturns, flags, terminal, CookedMode
<1>2. stdin' \in {"empty", "tail", "end"}
  BY DEF TypeOK, CallActions, OtherActions, PrintCall, ReadNumber, SaveInput, Shift, WriteEntry,
         CountEntry, Show, ReadCall, SetReading, WaitForSession, CookTerminal, TakeStdin,
         InvalidInput, SaveAttributesAgain, SetRawAgain, ReadReturns
<1>3. screen' \subseteq Nat
  <2>1. cpu.issued \in Nat
    BY DEF TypeOK
  <2> QED
    BY <2>1 DEF TypeOK, CallActions, OtherActions, PrintCall, ReadNumber, SaveInput, Shift,
         WriteEntry, CountEntry, Show, ReadCall, SetReading, WaitForSession, CookTerminal,
         TakeStdin, InvalidInput, SaveAttributesAgain, SetRawAgain, ReadReturns
<1> QED
  BY <1>1, <1>2, <1>3 DEF TypeOK, ConsoleTypeOK

(* A call: it is entered with a new message, and finds room or a full      *)
(* array.                                                                  *)
Called ==
  /\ UNCHANGED <<monitorHistory, historyCount>>
  /\ cpu.pc \notin {"shift", "entry", "count"}
  /\ cpu'.issued = cpu.issued + 1
  /\ cpu'.i = 1
  /\ \/ cpu'.pc = "entry" /\ historyCount < MAX_HISTORY_LINES
     \/ cpu'.pc = "shift" /\ historyCount = MAX_HISTORY_LINES

LEMMA CallStep ==
  ASSUME Inv, CallActions
  PROVE  Called /\ CpuTypeOK'
<1>1. CpuTypeOK /\ historyCount \in 0 .. MAX_HISTORY_LINES
  BY DEF Inv, TypeOK, CpuTypeOK
<1>2. PICK then \in {"show", "input", "getattr"}, answer \in {"none", "whole", "cut"} :
        cpu' = [SaveCall(then) EXCEPT !.answer = answer]
  <2>1. CASE PrintCall
    <3>1. cpu' = [SaveCall("show") EXCEPT !.answer = cpu.answer]
      BY <1>1, <2>1 DEF PrintCall, SaveCall, AfterSave, CpuTypeOK
    <3> QED
      BY <1>1, <3>1 DEF CpuTypeOK
  <2>2. CASE SaveInput
    <3>1. cpu' = [SaveCall("getattr") EXCEPT !.answer = cpu.answer]
      BY <1>1, <2>2 DEF SaveInput, SaveCall, CpuTypeOK
    <3> QED
      BY <1>1, <3>1 DEF CpuTypeOK
  <2>3. CASE ReadNumber
    <3>1. PICK answer \in {"none", "whole", "cut"}, tooLarge \in BOOLEAN :
            cpu' = [SaveCall(IF tooLarge THEN "input" ELSE "getattr") EXCEPT !.answer = answer]
      BY <2>3 DEF ReadNumber
    <3> QED
      BY <3>1
  <2> QED
    BY <2>1, <2>2, <2>3 DEF CallActions
<1>3. /\ UNCHANGED <<monitorHistory, historyCount>>
      /\ cpu.pc \notin {"shift", "entry", "count"}
  BY DEF CallActions, PrintCall, ReadNumber, SaveInput, history
<1>4. /\ cpu' = [cpu EXCEPT !.pc = IF historyCount < MAX_HISTORY_LINES THEN "entry" ELSE "shift",
                            !.issued = @ + 1, !.i = 1, !.then = then, !.answer = answer]
  BY <1>1, <1>2 DEF SaveCall, FreeEntry, CpuTypeOK
<1>5. cpu.issued \in Nat /\ 1 \in 0 .. MAX_HISTORY_LINES
  BY <1>1, HistoryAssumption DEF CpuTypeOK
<1>6. CpuTypeOK'
  <2> DEFINE p == IF historyCount < MAX_HISTORY_LINES THEN "entry" ELSE "shift"
             n == cpu.issued + 1
  <2>1. p \in {"entry", "shift"} /\ n \in Nat
    BY <1>5
  <2>2. cpu' = [cpu EXCEPT !.pc = p, !.issued = n, !.i = 1, !.then = then, !.answer = answer]
    BY <1>4
  <2> HIDE DEF p, n
  <2> QED
    BY <1>1, <1>2, <1>5, <2>1, <2>2 DEF CpuTypeOK
<1>7. /\ cpu'.issued = cpu.issued + 1 /\ cpu'.i = 1
      /\ cpu'.pc = IF historyCount < MAX_HISTORY_LINES THEN "entry" ELSE "shift"
  BY <1>1, <1>4 DEF CpuTypeOK
<1>8. historyCount < MAX_HISTORY_LINES \/ historyCount = MAX_HISTORY_LINES
  BY <1>1, HistoryAssumption
<1> QED
  BY <1>3, <1>6, <1>7, <1>8 DEF Called

-----------------------------------------------------------------------------
LEMMA CpuStep ==
  ASSUME Inv, CallActions \/ Shift \/ WriteEntry \/ CountEntry \/ OtherActions
  PROVE  Inv'
<1>0. /\ monitorHistory \in [Indexes -> Nat] /\ historyCount \in 0 .. MAX_HISTORY_LINES
      /\ CpuTypeOK /\ SaveInv
  BY DEF Inv, TypeOK, CpuTypeOK
<1> SUFFICES /\ monitorHistory' \in [Indexes -> Nat] /\ historyCount' \in 0 .. MAX_HISTORY_LINES
             /\ CpuTypeOK' /\ SaveInv'
  BY CpuRestType DEF Inv, TypeOK, CpuTypeOK, ConsoleTypeOK
<1>1. CASE CallActions
  BY <1>0, <1>1, CallStep DEF Called, SaveInv
<1>2. CASE Shift
  BY <1>0, <1>2, HistoryAssumption DEF Shift, ShiftEnd, CpuAt, CpuTypeOK, SaveInv, Indexes
<1>3. CASE WriteEntry
  BY <1>0, <1>3, HistoryAssumption DEF WriteEntry, CpuAt, CpuTypeOK, SaveInv, Indexes
<1>4. CASE CountEntry
  BY <1>0, <1>4, HistoryAssumption DEF CountEntry, CpuAt, CpuTypeOK, SaveInv
<1>5. CASE OtherActions
  BY <1>0, <1>5, HistoryAssumption
     DEF OtherActions, Show, ReadCall, SetReading, WaitForSession, CookTerminal, TakeStdin,
         InvalidInput, SaveAttributesAgain, SetRawAgain, ReadReturns, CpuAt, CpuTypeOK, SaveInv,
         history
<1> QED
  BY <1>1, <1>2, <1>3, <1>4, <1>5

LEMMA NextInv == Inv /\ [Next]_vars => Inv'
<1> SUFFICES ASSUME Inv, [Next]_vars PROVE Inv'
  OBVIOUS
<1>1. CASE Next
  BY <1>1, ConsoleStep, ConsoleCases, CpuStep, CpuCases DEF Next
<1>2. CASE UNCHANGED vars
  BY <1>2 DEF vars, history, flags, terminal, Inv, TypeOK, SaveInv
<1> QED
  BY <1>1, <1>2

(* The history keeps to its array: neither the index of an entry that is   *)
(* written or shifted nor the replay's runs out of it.                     *)
THEOREM MonitorTypeOK == Spec => []TypeOK
<1>1. Inv => TypeOK
  BY DEF Inv
<1> QED
  BY <1>1, InitInv, NextInv, PTL DEF Spec

-----------------------------------------------------------------------------
LEMMA InitLog == Init => Log!Init
BY HistoryAssumption DEF Init, Log!Init, Lines, Kept, Nothing

(* A call of monitorSaveHistory is the log's step ...                      *)
LEMMA CalledRecords ==
  ASSUME Inv, Called
  PROVE  Log!Record
<1>0. /\ monitorHistory \in [Indexes -> Nat] /\ historyCount \in 0 .. MAX_HISTORY_LINES
      /\ cpu.issued \in Nat /\ MAX_HISTORY_LINES \in Nat \ {0}
  BY HistoryAssumption DEF Inv, TypeOK
<1>1. Lines = Kept /\ Kept \in Seq(Nat) /\ Len(Kept) = historyCount
  BY <1>0 DEF Lines, Kept, Called, Indexes
<1>2. Kept' = Kept
  BY DEF Kept, Called
<1>3. CASE cpu'.pc = "entry" /\ historyCount < MAX_HISTORY_LINES
  BY <1>0, <1>1, <1>2, <1>3 DEF Lines, Called, Log!Record
<1>4. CASE cpu'.pc = "shift" /\ historyCount = MAX_HISTORY_LINES
  <2> DEFINE old == Kept
             new == Append(Tail(old), cpu.issued + 1)
  <2>1. /\ new \in Seq(Nat) /\ Len(new) = MAX_HISTORY_LINES
        /\ \A k \in 1 .. MAX_HISTORY_LINES :
             new[k] = IF k = MAX_HISTORY_LINES THEN cpu.issued + 1 ELSE old[k + 1]
    BY <1>0, <1>1, <1>4
  <2>2. \A k \in 1 .. MAX_HISTORY_LINES - 1 : old[k + 1] = monitorHistory[k]
    BY <1>0, <1>4 DEF Kept
  <2>3. Lines' = Moved'
    BY <1>4 DEF Lines
  <2>4. Moved' = [k \in 1 .. MAX_HISTORY_LINES |->
                    IF k = MAX_HISTORY_LINES THEN cpu.issued + 1 ELSE monitorHistory[k]]
    BY <1>0 DEF Moved, Called
  <2>5. Moved' = new
    <3> HIDE DEF new, old
    <3> QED
      BY <2>1, <2>2, <2>4
  <2> QED
    BY <1>0, <1>1, <1>4, <2>3, <2>5 DEF Called, Log!Record
<1> QED
  BY <1>3, <1>4 DEF Called

(* ... and the steps inside it are none.                                   *)
LEMMA ShiftStutters ==
  ASSUME Inv, Shift
  PROVE  Lines' = Lines /\ cpu'.issued = cpu.issued
<1>0. /\ monitorHistory \in [Indexes -> Nat] /\ historyCount = MAX_HISTORY_LINES
      /\ cpu.issued \in Nat /\ cpu.i \in 1 .. MAX_HISTORY_LINES
      /\ MAX_HISTORY_LINES \in Nat \ {0} /\ cpu.pc = "shift" /\ CpuTypeOK
  BY HistoryAssumption DEF Inv, TypeOK, SaveInv, Shift, CpuTypeOK
<1>1. Lines = Moved
  BY <1>0 DEF Lines
<1>2. CASE cpu.i < MAX_HISTORY_LINES
  <2>1. /\ monitorHistory' = [monitorHistory EXCEPT ![cpu.i - 1] = monitorHistory[cpu.i]]
        /\ cpu' = [cpu EXCEPT !.i = @ + 1]
    BY <1>2 DEF Shift, ShiftEnd
  <2>2. cpu'.i = cpu.i + 1 /\ cpu'.issued = cpu.issued /\ cpu'.pc = "shift"
    BY <1>0, <2>1 DEF CpuTypeOK
  <2>3. \A k \in 1 .. MAX_HISTORY_LINES - 1 :
          /\ k < cpu.i => monitorHistory'[k - 1] = monitorHistory[k - 1]
          /\ k = cpu.i => monitorHistory'[k - 1] = monitorHistory[k]
          /\ k > cpu.i => monitorHistory'[k] = monitorHistory[k]
    BY <1>0, <2>1 DEF Indexes
  <2>4. Moved' = Moved
    BY <1>0, <2>2, <2>3 DEF Moved
  <2> QED
    BY <1>1, <2>2, <2>4 DEF Lines
<1>3. CASE ~(cpu.i < MAX_HISTORY_LINES)
  <2>1. /\ monitorHistory' = [monitorHistory EXCEPT ![MAX_HISTORY_LINES - 1] = cpu.issued]
        /\ historyCount' = historyCount /\ cpu' = [cpu EXCEPT !.pc = cpu.then]
    BY <1>3 DEF Shift, ShiftEnd, CpuAt
  <2>2. cpu'.pc \notin {"shift", "entry", "count"} /\ cpu'.issued = cpu.issued
    BY <1>0, <2>1 DEF CpuTypeOK
  <2>3. Lines' = Kept'
    BY <2>2 DEF Lines
  <2>4. \A k \in 1 .. MAX_HISTORY_LINES :
          monitorHistory'[k - 1] = IF k = MAX_HISTORY_LINES THEN cpu.issued ELSE monitorHistory[k - 1]
    BY <1>0, <2>1 DEF Indexes
  <2>5. Kept' = Moved
    BY <1>0, <1>3, <2>1, <2>4 DEF Kept, Moved
  <2> QED
    BY <1>1, <2>2, <2>3, <2>5
<1> QED
  BY <1>2, <1>3

LEMMA EntryStutters ==
  ASSUME Inv, WriteEntry \/ CountEntry
  PROVE  Lines' = Lines /\ cpu'.issued = cpu.issued
<1>0. /\ monitorHistory \in [Indexes -> Nat] /\ historyCount \in Nat
      /\ historyCount < MAX_HISTORY_LINES /\ cpu.issued \in Nat
      /\ MAX_HISTORY_LINES \in Nat \ {0} /\ cpu.pc \in {"entry", "count"} /\ CpuTypeOK
      /\ cpu.pc = "count" => monitorHistory[historyCount] = cpu.issued
  BY HistoryAssumption DEF Inv, TypeOK, SaveInv, WriteEntry, CountEntry, CpuTypeOK
<1>1. Lines = Append(Kept, cpu.issued)
  BY <1>0 DEF Lines
<1>2. CASE WriteEntry
  <2>1. /\ monitorHistory' = [monitorHistory EXCEPT ![historyCount] = cpu.issued]
        /\ historyCount' = historyCount /\ cpu' = [cpu EXCEPT !.pc = "count"]
    BY <1>2 DEF WriteEntry, CpuAt
  <2>2. cpu'.pc = "count" /\ cpu'.issued = cpu.issued
    BY <1>0, <2>1 DEF CpuTypeOK
  <2>3. Kept' = Kept
    BY <1>0, <2>1 DEF Kept, Indexes
  <2> QED
    BY <1>1, <2>2, <2>3 DEF Lines
<1>3. CASE CountEntry
  <2>1. /\ monitorHistory' = monitorHistory /\ historyCount' = historyCount + 1
        /\ cpu' = [cpu EXCEPT !.pc = cpu.then] /\ monitorHistory[historyCount] = cpu.issued
    BY <1>0, <1>3 DEF CountEntry, CpuAt
  <2>2. cpu'.pc \notin {"shift", "entry", "count"} /\ cpu'.issued = cpu.issued
    BY <1>0, <2>1 DEF CpuTypeOK
  <2>3. Lines' = Kept'
    BY <2>2 DEF Lines
  <2> DEFINE old == Kept
  <2>4. /\ old \in Seq(Nat) /\ Len(old) = historyCount
        /\ Kept' \in Seq(Nat) /\ Len(Kept') = historyCount + 1
    <3>1. \A k \in 1 .. historyCount + 1 : monitorHistory[k - 1] \in Nat
      BY <1>0 DEF Indexes
    <3>2. Kept' = [k \in 1 .. historyCount + 1 |-> monitorHistory[k - 1]]
      BY <2>1 DEF Kept
    <3>3. Kept' \in Seq(Nat) /\ Len(Kept') = historyCount + 1
      BY <1>0, <3>1, <3>2
    <3>4. \A k \in 1 .. historyCount : monitorHistory[k - 1] \in Nat
      BY <1>0, <3>1
    <3>5. old \in Seq(Nat) /\ Len(old) = historyCount
      BY <1>0, <3>4 DEF Kept
    <3> QED
      BY <3>3, <3>5
  <2>5. \A k \in 1 .. historyCount + 1 :
          Kept'[k] = IF k = historyCount + 1 THEN cpu.issued ELSE old[k]
    BY <1>0, <2>1 DEF Kept
  <2>6. Kept' = Append(old, cpu.issued)
    <3> HIDE DEF old
    <3> QED
      BY <1>0, <2>4, <2>5
  <2> QED
    BY <1>1, <2>2, <2>3, <2>6
<1> QED
  BY <1>2, <1>3

LEMMA OtherStutters ==
  ASSUME Inv, OtherActions
  PROVE  Lines' = Lines /\ cpu'.issued = cpu.issued
<1>1. CpuTypeOK
  BY DEF Inv, TypeOK, CpuTypeOK
<1>2. /\ UNCHANGED <<monitorHistory, historyCount>>
      /\ cpu.pc \notin {"shift", "entry", "count"} /\ cpu'.pc \notin {"shift", "entry", "count"}
      /\ cpu'.issued = cpu.issued
  BY <1>1 DEF OtherActions, Show, ReadCall, SetReading, WaitForSession, CookTerminal, TakeStdin,
         InvalidInput, SaveAttributesAgain, SetRawAgain, ReadReturns, CpuAt, CpuTypeOK, history
<1> QED
  BY <1>2 DEF Lines, Kept

LEMMA NextLog == Inv /\ [Next]_vars => [Log!Record]_<<Lines, cpu.issued>>
<1> SUFFICES ASSUME Inv, [Next]_vars PROVE [Log!Record]_<<Lines, cpu.issued>>
  OBVIOUS
<1>1. CASE ConsoleActions
  BY <1>1, ConsoleStep DEF Lines, Kept, Moved
<1>2. CASE CallActions
  BY <1>2, CallStep, CalledRecords
<1>3. CASE Shift \/ WriteEntry \/ CountEntry \/ OtherActions
  BY <1>3, ShiftStutters, EntryStutters, OtherStutters
<1>4. CASE UNCHANGED vars
  BY <1>4 DEF vars, history, Lines, Kept, Moved
<1> QED
  BY <1>1, <1>2, <1>3, <1>4, ConsoleCases, CpuCases DEF Next

(* The array that is shifted in place, and its count, implement the log of *)
(* the last messages, whatever the session does meanwhile.                 *)
THEOREM MonitorImplementsLog == Spec => ImplementsLog
<1> QED
  BY InitInv, NextInv, InitLog, NextLog, PTL DEF Spec, ImplementsLog, Log!Spec
-----------------------------------------------------------------------------
(* Where the console thread and the read service are to each other.        *)
Session == {"replay", "getattr", "setattr", "poll", "getchar", "restore", "close"}

SavingAnswer == cpu.pc \in {"shift", "entry", "count"} /\ cpu.then # "show"

(* The terminal has been given back to the user for a line ...             *)
Cooked == cpu.pc \in {"stdin", "scanf", "input", "getattr", "setattr"} \/ SavingAnswer

(* ... for which the session was made to wait.                             *)
Waiting == cpu.pc \in {"cook", "done"} \/ Cooked

Flagged == Waiting \/ cpu.pc = "wait"

(* As long as no session was closed in the middle of a read service, the   *)
(* service reads within a session that does not, and the terminal has      *)
(* lines except while the session polls.                                   *)
TermInv ==
  /\ OS_MONITOR_ACTIVE <=> console.pc \in Session
  /\ cpu.pc \in {"shift", "entry", "count"} => cpu.then # "run"
  /\ ~outlived =>
       /\ console.pc \notin {"fgetsRaw", "failed"}
       /\ ReadUnderWay => console.pc \in Session
       /\ isSyscallReading <=> Flagged
       /\ Waiting => console.pc = "poll"
       /\ console.pc \in {"setattr", "poll", "getchar", "restore"} => origTermios
       /\ icanon <=> console.pc \notin {"poll", "getchar", "restore"} \/ Cooked
       /\ stdin # "tail"
       /\ cpu.answer # "cut"

(* As long as nothing was dropped, an entry of the history is the number   *)
(* of its message.                                                         *)
Counted ==
  /\ cpu.pc # "shift"
  /\ cpu.issued = historyCount + (IF cpu.pc \in {"entry", "count"} THEN 1 ELSE 0)
  /\ \A i \in 0 .. historyCount - 1 : monitorHistory[i] = i + 1

(* What the user has answered is on the screen, before it is saved.        *)
AnswerShown ==
  /\ SavingAnswer => cpu.issued \in screen
  /\ cpu.pc = "input" \/ (SavingAnswer /\ cpu.then = "input") => cpu.issued + 1 \in screen

OnScreen(i) ==
  \/ i + 1 \in screen
  \/ cpu.pc = "show" /\ i + 1 = cpu.issued
  \/ console.pc = "replay" /\ console.i <= i

ScreenInv ==
  NothingDropped =>
    /\ Counted
    /\ ~outlived =>
         /\ AnswerShown
         /\ console.pc \in Session => \A i \in 0 .. historyCount - 1 : OnScreen(i)
LEMMA ConsoleTerm ==
  ASSUME Inv, TermInv, ConsoleActions
  PROVE  TermInv'
<1>0. ConsoleTypeOK /\ icanon \in BOOLEAN /\ origTermios \in BOOLEAN /\ UNCHANGED cpu
  BY ConsoleStep DEF Inv, TypeOK, ConsoleTypeOK
<1>1. CASE Prompt
  BY <1>0, <1>1 DEF Prompt, ConsoleAt, ConsoleTypeOK, flags, terminal, TermInv, Session,
      ReadUnderWay, Flagged, Waiting, Cooked, SavingAnswer
<1>2. CASE ReadRemainder
  BY <1>0, <1>2 DEF ReadRemainder, ConsoleAt, ConsoleTypeOK, flags, terminal, TermInv, Session,
      ReadUnderWay, Flagged, Waiting, Cooked, SavingAnswer
<1>3. CASE ReadCommand
  BY <1>0, <1>3 DEF ReadCommand, ConsoleAt, ConsoleTypeOK, flags, terminal, TermInv, Session,
      ReadUnderWay, Flagged, Waiting, Cooked, SavingAnswer
<1>4. CASE ReadNothing
  BY <1>0, <1>4 DEF ReadNothing, ConsoleAt, ConsoleTypeOK, flags, terminal, TermInv, Session,
      ReadUnderWay, Flagged, Waiting, Cooked, SavingAnswer
<1>5. CASE Replay \/ ReplayDone
  BY <1>0, <1>5 DEF Replay, ReplayDone, ConsoleAt, ConsoleTypeOK, flags, terminal, TermInv, Session,
      ReadUnderWay, Flagged, Waiting, Cooked, SavingAnswer
<1>6. CASE SaveAttributes
  BY <1>0, <1>6 DEF SaveAttributes, ConsoleAt, ConsoleTypeOK, flags, terminal, TermInv, Session,
      ReadUnderWay, Flagged, Waiting, Cooked, SavingAnswer
<1>7. CASE SetRaw
  BY <1>0, <1>7 DEF SetRaw, ConsoleAt, ConsoleTypeOK, flags, terminal, TermInv, Session,
      ReadUnderWay, Flagged, Waiting, Cooked, SavingAnswer
<1>8. CASE RawRefused \/ Close
  <2>1. /\ console.pc \in {"getattr", "setattr", "close"} /\ console' = [console EXCEPT !.pc = "prompt"]
        /\ OS_MONITOR_ACTIVE' = FALSE /\ outlived' = (outlived \/ ReadUnderWay)
        /\ UNCHANGED <<isSyscallReading, icanon, origTermios, stdin, cpu>>
    BY <1>8 DEF RawRefused, Close, SessionEnds, ConsoleAt, terminal
  <2>2. console'.pc = "prompt"
    BY <1>0, <2>1 DEF ConsoleTypeOK
  <2>3. CASE outlived \/ ReadUnderWay
    BY <2>1, <2>2, <2>3 DEF TermInv, Session
  <2>4. CASE ~outlived /\ ~ReadUnderWay
    <3>1. ~Flagged /\ icanon /\ stdin # "tail" /\ cpu.answer # "cut" /\ ~isSyscallReading
      BY <2>1, <2>4 DEF TermInv, ReadUnderWay, Flagged, Waiting, Cooked, SavingAnswer
    <3>2. ~Flagged' /\ ~ReadUnderWay' /\ ~Waiting' /\ ~Cooked' /\ ~SavingAnswer'
      BY <2>1, <2>4, <3>1 DEF ReadUnderWay, Flagged, Waiting, Cooked, SavingAnswer
    <3>3. cpu'.pc \in {"shift", "entry", "count"} => cpu'.then # "run"
      BY <2>1 DEF TermInv
    <3> QED
      BY <2>1, <2>2, <3>1, <3>2, <3>3 DEF TermInv, Session
  <2> QED
    BY <2>3, <2>4
<1>9. CASE Poll
  BY <1>0, <1>9 DEF Poll, PollAllowed, ConsoleAt, ConsoleTypeOK, flags, terminal, TermInv, Session,
      ReadUnderWay, Flagged, Waiting, Cooked, SavingAnswer
<1>10. CASE OtherKey
  BY <1>0, <1>10 DEF OtherKey, ConsoleAt, ConsoleTypeOK, flags, terminal, TermInv, Session,
      ReadUnderWay, Flagged, Waiting, Cooked, SavingAnswer
<1>11. CASE Escape
  BY <1>0, <1>11 DEF Escape, ConsoleAt, ConsoleTypeOK, flags, terminal, TermInv, Session,
      ReadUnderWay, Flagged, Waiting, Cooked, SavingAnswer
<1>12. CASE disableRawMode
  BY <1>0, <1>12 DEF disableRawMode, ConsoleAt, ConsoleTypeOK, flags, terminal, TermInv, Session,
      ReadUnderWay, Flagged, Waiting, Cooked, SavingAnswer
<1> QED
  BY <1>1, <1>2, <1>3, <1>4, <1>5, <1>6, <1>7, <1>8, <1>9, <1>10, <1>11, <1>12 DEF ConsoleActions

LEMMA InitTerm == Init => TermInv
BY DEF Init, TermInv, Session, ReadUnderWay, Flagged, Waiting, Cooked, SavingAnswer

(* What follows a call, and what the user's answer becomes.                *)
LEMMA CallFollows ==
  ASSUME Inv, CallActions
  PROVE  /\ UNCHANGED <<flags, terminal, console, outlived>>
         /\ cpu'.pc \in {"shift", "entry"}
         /\ \/ /\ cpu.pc = "run" /\ cpu'.then = "show" /\ cpu'.answer = cpu.answer
               /\ UNCHANGED <<stdin, screen>>
            \/ /\ cpu.pc = "input" /\ cpu'.then = "getattr" /\ cpu'.answer = cpu.answer
               /\ UNCHANGED <<stdin, screen>>
            \/ /\ cpu.pc = "scanf"
               /\ stdin # "tail" /\ icanon => cpu'.answer # "cut"
               /\ icanon => stdin' = "end"
               /\ \/ /\ cpu'.then = "getattr"
                     /\ screen' = screen \union {cpu.issued + 1}
                  \/ /\ cpu'.then = "input"
                     /\ screen' = screen \union {cpu.issued + 1, cpu.issued + 2}
<1>1. CpuTypeOK /\ cpu'.pc \in {"shift", "entry"} /\ cpu.issued \in Nat
  BY CallStep DEF Called, Inv, TypeOK, CpuTypeOK
<1>2. UNCHANGED <<flags, terminal, console, outlived>>
  BY DEF CallActions, PrintCall, SaveInput, ReadNumber
<1>3. CASE PrintCall
  BY <1>1, <1>2, <1>3 DEF PrintCall, SaveCall, AfterSave, CpuTypeOK
<1>4. CASE SaveInput
  BY <1>1, <1>2, <1>4 DEF SaveInput, SaveCall, CpuTypeOK
<1>5. CASE ReadNumber
  <2>1. PICK answer \in IF stdin = "tail" THEN {"cut"} ELSE IF icanon THEN {"whole"} ELSE {"whole", "cut"},
             tooLarge \in BOOLEAN :
          /\ cpu' = [SaveCall(IF tooLarge THEN "input" ELSE "getattr") EXCEPT !.answer = answer]
          /\ screen' = screen \union cpu.issued + 1 .. cpu.issued + (IF tooLarge THEN 2 ELSE 1)
    BY <1>5 DEF ReadNumber
  <2>2. /\ cpu'.answer = answer
        /\ cpu'.then = IF tooLarge THEN "input" ELSE "getattr"
    BY <1>1, <2>1 DEF SaveCall, CpuTypeOK
  <2>3. cpu.pc = "scanf" /\ (icanon => stdin' = "end")
    BY <1>5 DEF ReadNumber
  <2>4. stdin # "tail" /\ icanon => answer # "cut"
    BY <2>1
  <2>5. CASE tooLarge
    <3>1. cpu.issued + 1 .. cpu.issued + 2 = {cpu.issued + 1, cpu.issued + 2}
      BY <1>1
    <3> QED
      BY <1>1, <1>2, <2>1, <2>2, <2>3, <2>4, <2>5, <3>1
  <2>6. CASE ~tooLarge
    <3>1. cpu.issued + 1 .. cpu.issued + 1 = {cpu.issued + 1}
      BY <1>1
    <3> QED
      BY <1>1, <1>2, <2>1, <2>2, <2>3, <2>4, <2>6, <3>1
  <2> QED
    BY <2>5, <2>6
<1> QED
  BY <1>3, <1>4, <1>5 DEF CallActions

LEMMA CpuTerm ==
  ASSUME Inv, TermInv, CallActions \/ Shift \/ WriteEntry \/ CountEntry \/ OtherActions
  PROVE  TermInv'
<1>0. CpuTypeOK /\ icanon \in BOOLEAN /\ origTermios \in BOOLEAN
  BY DEF Inv, TypeOK, CpuTypeOK
<1>1. CASE CallActions
  BY <1>1, CallFollows DEF flags, terminal, TermInv, Session,
      ReadUnderWay, Flagged, Waiting, Cooked, SavingAnswer
<1>2. CASE Shift \/ WriteEntry \/ CountEntry
  BY <1>0, <1>2 DEF Shift, WriteEntry, CountEntry, CpuAt, CpuTypeOK, flags, terminal, TermInv, Session,
      ReadUnderWay, Flagged, Waiting, Cooked, SavingAnswer
<1>3. CASE Show \/ ReadCall
  BY <1>0, <1>3 DEF Show, ReadCall, CpuAt, CpuTypeOK, flags, terminal, TermInv, Session,
      ReadUnderWay, Flagged, Waiting, Cooked, SavingAnswer
<1>4. CASE SetReading
  BY <1>0, <1>4 DEF SetReading, CpuAt, CpuTypeOK, flags, terminal, TermInv, Session,
      ReadUnderWay, Flagged, Waiting, Cooked, SavingAnswer
<1>5. CASE WaitForSession
  BY <1>0, <1>5 DEF WaitForSession, Waited, CpuAt, CpuTypeOK, flags, terminal, TermInv, Session,
      ReadUnderWay, Flagged, Waiting, Cooked, SavingAnswer
<1>6. CASE CookTerminal
  BY <1>0, <1>6 DEF CookTerminal, CookedMode, CpuAt, CpuTypeOK, flags, terminal, TermInv, Session,
      ReadUnderWay, Flagged, Waiting, Cooked, SavingAnswer
<1>7. CASE TakeStdin \/ InvalidInput
  BY <1>0, <1>7 DEF TakeStdin, InvalidInput, CpuAt, CpuTypeOK, flags, terminal, TermInv, Session,
      ReadUnderWay, Flagged, Waiting, Cooked, SavingAnswer
<1>8. CASE SaveAttributesAgain
  BY <1>0, <1>8 DEF SaveAttributesAgain, CpuAt, CpuTypeOK, flags, terminal, TermInv, Session,
      ReadUnderWay, Flagged, Waiting, Cooked, SavingAnswer
<1>9. CASE SetRawAgain
  BY <1>0, <1>9 DEF SetRawAgain, CpuAt, CpuTypeOK, flags, terminal, TermInv, Session,
      ReadUnderWay, Flagged, Waiting, Cooked, SavingAnswer
<1>10. CASE ReadReturns
  BY <1>0, <1>10 DEF ReadReturns, CpuAt, CpuTypeOK, flags, terminal, TermInv, Session,
      ReadUnderWay, Flagged, Waiting, Cooked, SavingAnswer
<1> QED
  BY <1>1, <1>2, <1>3, <1>4, <1>5, <1>6, <1>7, <1>8, <1>9, <1>10 DEF OtherActions

LEMMA NextTerm == Inv /\ TermInv /\ [Next]_vars => TermInv'
<1> SUFFICES ASSUME Inv, TermInv, [Next]_vars PROVE TermInv'
  OBVIOUS
<1>1. CASE Next
  BY <1>1, ConsoleTerm, ConsoleCases, CpuTerm, CpuCases DEF Next
<1>2. CASE UNCHANGED vars
  BY <1>2 DEF vars, history, flags, terminal, TermInv, Session,
      ReadUnderWay, Flagged, Waiting, Cooked, SavingAnswer
<1> QED
  BY <1>1, <1>2

(* The prompt finds the terminal with lines, and the console does not give *)
(* up, unless a session was closed in the middle of a read service: no     *)
(* other order of the two threads leaves the raw mode behind.              *)
THEOREM PromptHasLines == Spec => []TerminalRestored
<1>1. TermInv => TerminalRestored
  BY DEF TerminalRestored, TermInv, Session, ReadUnderWay, Flagged, Waiting, Cooked, SavingAnswer
<1> QED
  BY <1>1, InitInv, NextInv, InitTerm, NextTerm, PTL DEF Spec

(* With the same proviso, a program gets the number its user typed.        *)
THEOREM AnswersAreWhole == Spec => []AnswerWhole
<1>1. TermInv => AnswerWhole
  BY DEF AnswerWhole, TermInv
<1> QED
  BY <1>1, InitInv, NextInv, InitTerm, NextTerm, PTL DEF Spec

(* What session and service wait for comes: the service finds stdin free   *)
(* when it wants to read, a getchar of the session has its timeout, and a  *)
(* session only makes room for a service that is under way.                *)
NoMutualWait ==
  ~outlived =>
    /\ cpu.pc = "stdin" => StdinFree
    /\ console.pc = "getchar" => ~icanon
    /\ isSyscallReading => Flagged

(* Session and read service never wait for each other, with the same       *)
(* proviso: why ReadAnswered holds for every history and every user.       *)
THEOREM NobodyWaitsForTheOther == Spec => []NoMutualWait
<1>1. Inv /\ TermInv => NoMutualWait
  BY DEF NoMutualWait, TermInv, StdinFree, Waiting, Cooked, SavingAnswer
<1> QED
  BY <1>1, InitInv, NextInv, InitTerm, NextTerm, PTL DEF Spec

-----------------------------------------------------------------------------
LEMMA InitScreen == Init => ScreenInv
BY HistoryAssumption DEF Init, ScreenInv, Counted, AnswerShown, SavingAnswer, Session

LEMMA ConsoleScreen ==
  ASSUME Inv, TermInv, ScreenInv, ConsoleActions
  PROVE  ScreenInv'
<1>0. ConsoleTypeOK /\ historyCount \in Nat /\ UNCHANGED <<monitorHistory, historyCount, cpu>>
  BY ConsoleStep DEF Inv, TypeOK, ConsoleTypeOK
<1>1. SUFFICES ASSUME NothingDropped, Counted, ~outlived'
               PROVE  /\ AnswerShown'
                      /\ console'.pc \in Session => \A i \in 0 .. historyCount - 1 : OnScreen(i)'
  BY <1>0 DEF ScreenInv, NothingDropped, Counted
<1>2. ~outlived
  BY <1>1 DEF ConsoleActions, Prompt, ReadRemainder, ReadCommand, ReadNothing, Replay, ReplayDone,
         SaveAttributes, SetRaw, RawRefused, Poll, OtherKey, Escape, disableRawMode, Close, SessionEnds
<1>3. AnswerShown /\ (console.pc \in Session => \A i \in 0 .. historyCount - 1 : OnScreen(i))
  BY <1>1, <1>2 DEF ScreenInv
<1>4. CASE ReadCommand
  <2>1. ~ReadUnderWay
    BY <1>2, <1>4 DEF ReadCommand, TermInv, Session
  <2>2. AnswerShown'
    BY <1>0, <2>1 DEF AnswerShown, SavingAnswer, ReadUnderWay
  <2>3. console'.pc \in Session => console' = [pc |-> "replay", i |-> 0]
    BY <1>0, <1>4 DEF ReadCommand, ConsoleAt, ConsoleTypeOK, Session
  <2> QED
    BY <2>2, <2>3 DEF OnScreen
<1>5. CASE Replay
  <2>1. /\ console.pc = "replay" /\ console.i \in Nat /\ console.i < historyCount
        /\ screen' = screen \union {console.i + 1}
        /\ console'.pc = "replay" /\ console'.i = console.i + 1
    BY <1>0, <1>1, <1>5 DEF Replay, Counted, ConsoleTypeOK
  <2>2. AnswerShown'
    BY <1>0, <1>3, <2>1 DEF AnswerShown, SavingAnswer
  <2>3. ASSUME NEW i \in 0 .. historyCount - 1 PROVE OnScreen(i)'
    <3>1. OnScreen(i)
      BY <1>3, <2>1 DEF Session
    <3> QED
      BY <1>0, <2>1, <3>1 DEF OnScreen
  <2> QED
    BY <2>2, <2>3
<1>6. CASE ReplayDone
  <2>1. console.pc = "replay" /\ console.i \in Nat /\ console.i >= historyCount /\ UNCHANGED screen
    BY <1>0, <1>6 DEF ReplayDone, ConsoleTypeOK
  <2> QED
    BY <1>0, <1>3, <2>1 DEF AnswerShown, SavingAnswer, OnScreen, Session
<1>7. CASE Prompt \/ ReadRemainder \/ ReadNothing \/ RawRefused \/ Close
  <2>1. UNCHANGED screen /\ console'.pc \notin Session
    BY <1>0, <1>7 DEF Prompt, ReadRemainder, ReadNothing, RawRefused, Close, SessionEnds, ConsoleAt,
                      ConsoleTypeOK, Session
  <2> QED
    BY <1>0, <1>3, <2>1 DEF AnswerShown, SavingAnswer
<1>8. CASE SaveAttributes \/ SetRaw \/ Poll \/ OtherKey \/ Escape \/ disableRawMode
  <2>1. UNCHANGED screen /\ console.pc \in Session \ {"replay"}
    BY <1>0, <1>8 DEF SaveAttributes, SetRaw, Poll, OtherKey, Escape, disableRawMode, Session
  <2> QED
    BY <1>0, <1>3, <2>1 DEF AnswerShown, SavingAnswer, OnScreen
<1> QED
  BY <1>4, <1>5, <1>6, <1>7, <1>8 DEF ConsoleActions

LEMMA CpuScreen ==
  ASSUME Inv, TermInv, ScreenInv, CallActions \/ Shift \/ WriteEntry \/ CountEntry \/ OtherActions,
         NothingDropped'
  PROVE  ScreenInv'
<1>0. /\ CpuTypeOK /\ historyCount \in 0 .. MAX_HISTORY_LINES /\ monitorHistory \in [Indexes -> Nat]
      /\ cpu.issued \in Nat /\ MAX_HISTORY_LINES \in Nat
  BY HistoryAssumption DEF Inv, TypeOK, CpuTypeOK
<1>1. NothingDropped /\ Counted /\ UNCHANGED <<outlived, console>>
  <2>1. UNCHANGED <<outlived, console>> /\ (CallActions \/ cpu'.issued = cpu.issued)
    BY <1>0 DEF CallActions, OtherActions, PrintCall, ReadNumber, SaveInput, Shift, WriteEntry,
         CountEntry, Show, ReadCall, SetReading, WaitForSession, CookTerminal, TakeStdin,
         InvalidInput, SaveAttributesAgain, SetRawAgain, ReadReturns, CpuAt, CpuTypeOK
  <2>2. CallActions => cpu'.issued = cpu.issued + 1
    BY CallStep DEF Called
  <2>3. NothingDropped
    BY <1>0, <2>1, <2>2 DEF NothingDropped
  <2> QED
    BY <2>1, <2>3 DEF ScreenInv
<1>2. ~outlived => /\ AnswerShown
                   /\ console.pc \in Session => \A i \in 0 .. historyCount - 1 : OnScreen(i)
  BY <1>1 DEF ScreenInv
<1>3. CASE CallActions
  <2>1. Called /\ cpu.pc \in {"run", "input", "scanf"} /\ cpu'.pc \notin {"show", "input"}
    BY <1>3, CallStep, CallFollows
  <2>2. Counted'
    BY <1>0, <1>1, <2>1 DEF Called, Counted, NothingDropped
  <2>3. screen \subseteq screen'
    BY <1>3, CallFollows
  <2>4. AnswerShown => AnswerShown'
    BY <1>0, <1>3, <2>1, CallFollows DEF AnswerShown, SavingAnswer, Called
  <2>5. \A i \in 0 .. historyCount - 1 : OnScreen(i) => OnScreen(i)'
    BY <1>1, <2>1, <2>3 DEF OnScreen
  <2> QED
    BY <1>1, <1>2, <2>1, <2>2, <2>4, <2>5 DEF ScreenInv, Called
<1>4. CASE Shift
  BY <1>1, <1>4 DEF Shift, Counted
<1>5. CASE WriteEntry
  <2>1. /\ cpu.pc = "entry" /\ cpu'.pc = "count" /\ cpu'.then = cpu.then /\ cpu'.issued = cpu.issued
        /\ UNCHANGED <<historyCount, screen>>
        /\ \A i \in 0 .. historyCount - 1 : monitorHistory'[i] = monitorHistory[i]
    BY <1>0, <1>5 DEF WriteEntry, CpuAt, CpuTypeOK, Indexes
  <2>2. Counted' /\ (AnswerShown => AnswerShown')
    BY <1>1, <2>1 DEF Counted, AnswerShown, SavingAnswer
  <2>3. \A i \in 0 .. historyCount - 1 : OnScreen(i) => OnScreen(i)'
    BY <1>1, <2>1 DEF OnScreen
  <2> QED
    BY <1>1, <1>2, <2>1, <2>2, <2>3 DEF ScreenInv
<1>6. CASE CountEntry
  <2>1. /\ cpu.pc = "count" /\ cpu'.pc = cpu.then /\ cpu'.then = cpu.then /\ cpu'.issued = cpu.issued
        /\ historyCount' = historyCount + 1 /\ UNCHANGED <<monitorHistory, screen>>
        /\ cpu.then \in {"show", "input", "getattr"}
    BY <1>0, <1>6 DEF CountEntry, CpuAt, CpuTypeOK, TermInv
  <2>2. monitorHistory[historyCount] = cpu.issued /\ cpu.issued = historyCount + 1
    BY <1>1, <2>1 DEF Inv, SaveInv, Counted
  <2>3. Counted'
    BY <1>0, <1>1, <2>1, <2>2 DEF Counted
  <2>4. AnswerShown => AnswerShown'
    BY <2>1 DEF AnswerShown, SavingAnswer
  <2>5. \A i \in 0 .. historyCount - 1 : OnScreen(i) => OnScreen(i)'
    BY <1>1, <2>1 DEF OnScreen
  <2>6. \A i \in {historyCount} : AnswerShown => OnScreen(i)'
    BY <2>1, <2>2 DEF AnswerShown, SavingAnswer, OnScreen
  <2>7. \A i \in 0 .. historyCount' - 1 : i \in 0 .. historyCount - 1 \/ i \in {historyCount}
    BY <1>0, <2>1
  <2> QED
    BY <1>1, <1>2, <2>3, <2>4, <2>5, <2>6, <2>7 DEF ScreenInv
<1>7. CASE Show
  <2>1. /\ cpu.pc = "show" /\ cpu'.pc = "run" /\ cpu'.issued = cpu.issued
        /\ screen' = IF OS_MONITOR_ACTIVE THEN screen \union {cpu.issued} ELSE screen
        /\ UNCHANGED <<monitorHistory, historyCount>>
    BY <1>0, <1>7 DEF Show, CpuAt, CpuTypeOK, history
  <2>2. Counted' /\ AnswerShown'
    BY <1>1, <2>1 DEF Counted, AnswerShown, SavingAnswer
  <2>3. console.pc \in Session => OS_MONITOR_ACTIVE
    BY DEF TermInv
  <2>4. console.pc \in Session => \A i \in 0 .. historyCount - 1 : OnScreen(i) => OnScreen(i)'
    BY <1>1, <2>1, <2>3 DEF OnScreen
  <2> QED
    BY <1>1, <1>2, <2>1, <2>2, <2>4 DEF ScreenInv
<1>8. CASE OtherActions /\ ~Show
  <2>1. /\ cpu.pc \notin {"entry", "count", "show"}
        /\ cpu'.pc \notin {"shift", "entry", "count", "show", "input"}
        /\ cpu'.issued = cpu.issued /\ UNCHANGED <<monitorHistory, historyCount, screen>>
    BY <1>0, <1>8
       DEF OtherActions, ReadCall, SetReading, WaitForSession, CookTerminal, TakeStdin,
           InvalidInput, SaveAttributesAgain, SetRawAgain, ReadReturns, CpuAt, CpuTypeOK, history
  <2>2. Counted' /\ AnswerShown'
    BY <1>1, <2>1 DEF Counted, AnswerShown, SavingAnswer
  <2>3. \A i \in 0 .. historyCount - 1 : OnScreen(i) => OnScreen(i)'
    BY <1>1, <2>1 DEF OnScreen
  <2> QED
    BY <1>1, <1>2, <2>1, <2>2, <2>3 DEF ScreenInv
<1> QED
  BY <1>3, <1>4, <1>5, <1>6, <1>7, <1>8

LEMMA NextScreen == Inv /\ TermInv /\ ScreenInv /\ [Next]_vars => ScreenInv'
<1> SUFFICES ASSUME Inv, TermInv, ScreenInv, [Next]_vars PROVE ScreenInv'
  OBVIOUS
<1>1. CASE Next
  <2>1. ~NothingDropped' => ScreenInv'
    BY DEF ScreenInv
  <2> QED
    BY <1>1, <2>1, ConsoleScreen, ConsoleCases, CpuScreen, CpuCases DEF Next
<1>2. CASE UNCHANGED vars
  BY <1>2 DEF vars, history, flags, terminal, ScreenInv, NothingDropped, Counted, AnswerShown,
              SavingAnswer, OnScreen
<1> QED
  BY <1>1, <1>2

(* What the replay of a session does not reach any more, monitorPrint      *)
(* prints, although the two share the history without a lock: the screen   *)
(* misses nothing but the message that is about to be shown.               *)
THEOREM ScreenMissesNothing == Spec => []ScreenComplete
<1>1. ScreenInv => ScreenComplete
  BY DEF ScreenInv, ScreenComplete, Counted, OnScreen, Session
<1> QED
  BY <1>1, InitInv, NextInv, InitTerm, NextTerm, InitScreen, NextScreen, PTL DEF Spec
=============================================================================
