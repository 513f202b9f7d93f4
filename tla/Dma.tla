-------------------------------- MODULE Dma ---------------------------------
(***************************************************************************)
(* The DMA controller (src/hardware/dma.c), the instructions that drive it *)
(* (executeDMAInstruction in src/hardware/cpu.c), the bus and the two DMA  *)
(* accesses to RAM (src/hardware/memory.c), and the disk.                  *)
(*                                                                         *)
(* Three threads:                                                          *)
(*   - the CPU thread executes the instructions of one process or another  *)
(*     (the scheduler may choose another one after any of them); SDMAON    *)
(*     wakes the DMA thread up and spins until pending is FALSE;           *)
(*   - the DMA thread sleeps on DMA_COND, keeps BUS_LOCK while it searches *)
(*     and while it finishes, and lets go of it for the access to RAM;     *)
(*   - the console thread loads programs, to the disk without a lock and   *)
(*     to RAM under BUS_LOCK.                                              *)
(* There is one set of registers, which all the processes share.           *)
(* The DMA thread's initialisation (dmaReset) precedes the first step: it  *)
(* is created before the kernel is initialised.  The CPU and the console   *)
(* hold BUS_LOCK within one step only.                                     *)
(***************************************************************************)
EXTENDS Integers

CONSTANTS
  DISK_TRACKS, DISK_CYLINDERS, DISK_SECTORS,
  RAM_SIZE,
  Processes, Base, Limit,  \* RB and RL of each process
  Modes,                   \* the modes programs run in: "user", "kernel"
  Operands,                \* operands of the SDMA* instructions, garbage included
  Word,
  LoaderAddresses,         \* the partition of a program that is being loaded
  LoaderSectors            \* the sectors that are still free

Tracks == 0 .. DISK_TRACKS - 1
Cylinders == 0 .. DISK_CYLINDERS - 1
Sectors == 0 .. DISK_SECTORS - 1
Places == Tracks \X Cylinders \X Sectors
Addresses == 0 .. RAM_SIZE - 1

ASSUME DmaAssumption ==
  /\ {DISK_TRACKS, DISK_CYLINDERS, DISK_SECTORS, RAM_SIZE} \subseteq Nat \ {0}
  /\ Base \in [Processes -> Addresses] /\ Limit \in [Processes -> Addresses]
  /\ Operands \subseteq Int /\ 0 \in Word
  /\ Modes \subseteq {"user", "kernel"}
  /\ LoaderAddresses \subseteq Addresses /\ LoaderSectors \subseteq Places
  /\ \A p \in Processes : LoaderAddresses \cap Base[p] .. Limit[p] = {}

VARIABLES
  DMA, RAM, DISK,
  BUS_LOCK,         \* "free", or "dma" while the DMA thread keeps it
  interruptBitmap,  \* the pending interrupts
  cpu,              \* the CPU thread: where it is, and the current process
  dma               \* the DMA thread: where it is, and its local variables

vars == <<DMA, RAM, DISK, BUS_LOCK, interruptBitmap, cpu, dma>>

Codes == {"IC_INVALID_INSTR", "IC_INVALID_ADDR", "IC_IO_DONE"}

Place == <<DMA.track, DMA.cylinder, DMA.sector>>

Init ==
  /\ DMA = [track |-> 0, cylinder |-> 0, sector |-> 0, ioDirection |-> 0, memAddr |-> 0,
            active |-> FALSE, pending |-> FALSE]
  /\ RAM \in [Addresses -> Word]
  /\ DISK \in [Places -> Word]
  /\ BUS_LOCK = "free"
  /\ interruptBitmap = {}
  /\ cpu \in [pc : {"run"}, process : Processes]
  /\ dma = [pc |-> "lock", data |-> 0, seen |-> {}]

-----------------------------------------------------------------------------
(*                             The CPU thread                              *)

(* What a failing fetchOperand raises; the operand is then garbage.        *)
FetchFaults == {{}, {"IC_INVALID_ADDR"}, {"IC_INVALID_INSTR"}}

(* A register is set when its check accepts the operand, also when the     *)
(* operand could not be fetched, which is looked at last.                  *)
SetRegister(accepted, fault, registers) ==
  /\ cpu.pc = "run"
  /\ DMA' = IF accepted THEN registers ELSE DMA
  /\ \E failed \in FetchFaults :
       interruptBitmap' = interruptBitmap \union failed \union
         (IF ~accepted THEN {fault} ELSE IF failed # {} THEN {"IC_INVALID_ADDR"} ELSE {})
  /\ cpu' = [cpu EXCEPT !.pc = "check"]
  /\ UNCHANGED <<RAM, DISK, BUS_LOCK, dma>>

(* Mutant: off by one. *)
ValidTrackOrNext(n) == 0 <= n /\ n <= DISK_TRACKS

ValidTrack(n) == 0 <= n /\ n < DISK_TRACKS

SDMAP(n) == SetRegister(ValidTrack(n), "IC_INVALID_INSTR", [DMA EXCEPT !.track = n])

SDMAC(n) == SetRegister(n \in Cylinders, "IC_INVALID_INSTR", [DMA EXCEPT !.cylinder = n])

SDMAS(n) == SetRegister(n \in Sectors, "IC_INVALID_INSTR", [DMA EXCEPT !.sector = n])

SDMAIO(n) == SetRegister(n \in {0, 1}, "IC_INVALID_INSTR", [DMA EXCEPT !.ioDirection = n])

(* In user mode the address is relative to RB, and at most RL.             *)
SDMAM(n) ==
  \E mode \in Modes :
    LET physicalAddr == IF mode = "kernel" THEN n ELSE Base[cpu.process] + n
        beyond == mode = "user" /\ physicalAddr > Limit[cpu.process]
    IN  SetRegister(~beyond /\ physicalAddr \in Addresses,
                    IF beyond THEN "IC_INVALID_ADDR" ELSE "IC_INVALID_INSTR",
                    [DMA EXCEPT !.memAddr = physicalAddr])

(* Mutant: the condition is not signalled. *)
SignalledNobody(pc) == pc

(* pthread_cond_signal: a thread that sleeps will ask for the lock again.  *)
Signalled(pc) == IF pc = "waiting" THEN "lock" ELSE pc

SDMAON ==
  /\ cpu.pc = "run"
  /\ BUS_LOCK = "free"
  /\ DMA' = [DMA EXCEPT !.pending = TRUE]
  /\ dma' = [dma EXCEPT !.pc = Signalled(@)]
  /\ cpu' = [cpu EXCEPT !.pc = "wait"]
  /\ UNCHANGED <<RAM, DISK, BUS_LOCK, interruptBitmap>>

(* Mutants: SDMAON does not wait, or waits for the wrong flag. *)
NotWaiting == TRUE
NotActive == ~DMA.active

Served == ~DMA.pending

(* The end of SDMAON, whose operand is fetched like any other one's.       *)
SDMAONReturn ==
  /\ cpu.pc = "wait"
  /\ Served
  /\ \E failed \in FetchFaults :
       interruptBitmap' = interruptBitmap \union failed \union
         (IF failed # {} THEN {"IC_INVALID_ADDR"} ELSE {})
  /\ cpu' = [cpu EXCEPT !.pc = "check"]
  /\ UNCHANGED <<DMA, RAM, DISK, BUS_LOCK, dma>>

(* An instruction that stores into the partition of its process.           *)
STR ==
  /\ cpu.pc = "run"
  /\ BUS_LOCK = "free"
  /\ \E a \in Base[cpu.process] .. Limit[cpu.process], w \in Word :
       RAM' = [RAM EXCEPT ![a] = w]
  /\ cpu' = [cpu EXCEPT !.pc = "check"]
  /\ UNCHANGED <<DMA, DISK, BUS_LOCK, interruptBitmap, dma>>

(* checkInterrupts: the first pending interrupt is handled and cleared,    *)
(* unless the program has masked them; then the scheduler may run.         *)
First(bitmap) ==
  IF "IC_INVALID_INSTR" \in bitmap THEN "IC_INVALID_INSTR"
  ELSE IF "IC_INVALID_ADDR" \in bitmap THEN "IC_INVALID_ADDR" ELSE "IC_IO_DONE"

CheckInterrupts ==
  /\ cpu.pc = "check"
  /\ interruptBitmap' \in {interruptBitmap, interruptBitmap \ {First(interruptBitmap)}}
  /\ \E p \in Processes : cpu' = [pc |-> "run", process |-> p]
  /\ UNCHANGED <<DMA, RAM, DISK, BUS_LOCK, dma>>

-----------------------------------------------------------------------------
(*                             The DMA thread                              *)

(* pthread_cond_wait: with nothing pending the lock is given back.         *)
DmaWait ==
  /\ dma.pc = "lock"
  /\ BUS_LOCK = "free"
  /\ ~DMA.pending
  /\ dma' = [dma EXCEPT !.pc = "waiting"]
  /\ UNCHANGED <<DMA, RAM, DISK, BUS_LOCK, interruptBitmap, cpu>>

SpuriousWakeup ==
  /\ dma.pc = "waiting"
  /\ dma' = [dma EXCEPT !.pc = "lock"]
  /\ UNCHANGED <<DMA, RAM, DISK, BUS_LOCK, interruptBitmap, cpu>>

(* Mutant: the request is taken off as soon as it is seen. *)
TakenAndCleared == [DMA EXCEPT !.active = TRUE, !.pending = FALSE]

Taken == [DMA EXCEPT !.active = TRUE]

(* The transfer begins: the lock is kept during the search.                *)
DmaBegin ==
  /\ dma.pc = "lock"
  /\ BUS_LOCK = "free"
  /\ DMA.pending
  /\ BUS_LOCK' = "dma"
  /\ DMA' = Taken
  /\ dma' = [dma EXCEPT !.pc = "search"]
  /\ UNCHANGED <<RAM, DISK, interruptBitmap, cpu>>

(* Mutant: the directions are exchanged. *)
FromDisk == DMA.ioDirection = 0

ToDisk == DMA.ioDirection = 1

(* After the search the word is read from the disk, if it goes to RAM, and *)
(* the lock is given back for the access to RAM, which takes it again.     *)
DmaSearch ==
  /\ dma.pc = "search"
  /\ BUS_LOCK' = "free"
  /\ dma' = IF ToDisk THEN [dma EXCEPT !.pc = "readRam"]
                      ELSE [dma EXCEPT !.pc = "writeRam", !.data = DISK[Place]]
  /\ UNCHANGED <<DMA, RAM, DISK, interruptBitmap, cpu>>

(* dmaReadMemory and dmaWriteMemory refuse an address outside the RAM.     *)
isPhysicalAddressValid(a) == a >= 0 /\ a < RAM_SIZE

dmaReadMemory ==
  /\ dma.pc = "readRam"
  /\ BUS_LOCK = "free"
  /\ dma' = [dma EXCEPT !.pc = "writeDisk",
               !.data = IF isPhysicalAddressValid(DMA.memAddr) THEN RAM[DMA.memAddr] ELSE @]
  /\ UNCHANGED <<DMA, RAM, DISK, BUS_LOCK, interruptBitmap, cpu>>

DmaWriteDisk ==
  /\ dma.pc = "writeDisk"
  /\ BUS_LOCK = "free"
  /\ BUS_LOCK' = "dma"
  /\ DISK' = IF isPhysicalAddressValid(DMA.memAddr)
               THEN [DISK EXCEPT ![Place] = dma.data] ELSE DISK
  /\ dma' = [dma EXCEPT !.pc = "raise"]
  /\ UNCHANGED <<DMA, RAM, interruptBitmap, cpu>>

dmaWriteMemory ==
  /\ dma.pc = "writeRam"
  /\ BUS_LOCK = "free"
  /\ RAM' = IF isPhysicalAddressValid(DMA.memAddr)
              THEN [RAM EXCEPT ![DMA.memAddr] = dma.data] ELSE RAM
  /\ dma' = [dma EXCEPT !.pc = "relock"]
  /\ UNCHANGED <<DMA, DISK, BUS_LOCK, interruptBitmap, cpu>>

DmaRelock ==
  /\ dma.pc = "relock"
  /\ BUS_LOCK = "free"
  /\ BUS_LOCK' = "dma"
  /\ dma' = [dma EXCEPT !.pc = "raise"]
  /\ UNCHANGED <<DMA, RAM, DISK, interruptBitmap, cpu>>

(* raiseInterrupt reads the bitmap and writes it back.                     *)
DmaRaiseRead ==
  /\ dma.pc = "raise"
  /\ dma' = [dma EXCEPT !.pc = "raised", !.seen = interruptBitmap]
  /\ UNCHANGED <<DMA, RAM, DISK, BUS_LOCK, interruptBitmap, cpu>>

Outcome == IF isPhysicalAddressValid(DMA.memAddr) THEN "IC_IO_DONE" ELSE "IC_INVALID_ADDR"

DmaRaiseWrite ==
  /\ dma.pc = "raised"
  /\ interruptBitmap' = dma.seen \union {Outcome}
  /\ dma' = [dma EXCEPT !.pc = "end", !.seen = {}]
  /\ UNCHANGED <<DMA, RAM, DISK, BUS_LOCK, cpu>>

DmaEnd ==
  /\ dma.pc = "end"
  /\ DMA' = [DMA EXCEPT !.active = FALSE, !.pending = FALSE]
  /\ BUS_LOCK' = "free"
  /\ dma' = [dma EXCEPT !.pc = "lock"]
  /\ UNCHANGED <<RAM, DISK, interruptBitmap, cpu>>

-----------------------------------------------------------------------------
(*                           The console thread                            *)

(* createProcess puts a word of a program into RAM.                        *)
LoadWord ==
  /\ BUS_LOCK = "free"
  /\ \E a \in LoaderAddresses, w \in Word : RAM' = [RAM EXCEPT ![a] = w]
  /\ UNCHANGED <<DMA, DISK, BUS_LOCK, interruptBitmap, cpu, dma>>

(* vfsLoadToDisk puts one on the disk, with no lock.                       *)
writeSector ==
  /\ \E p \in LoaderSectors, w \in Word : DISK' = [DISK EXCEPT ![p] = w]
  /\ UNCHANGED <<DMA, RAM, BUS_LOCK, interruptBitmap, cpu, dma>>

-----------------------------------------------------------------------------
dmaThread ==
  \/ DmaWait \/ DmaBegin \/ DmaSearch
  \/ dmaReadMemory \/ DmaWriteDisk \/ dmaWriteMemory \/ DmaRelock
  \/ DmaRaiseRead \/ DmaRaiseWrite \/ DmaEnd

Next ==
  \/ \E n \in Operands : SDMAP(n) \/ SDMAC(n) \/ SDMAS(n) \/ SDMAIO(n) \/ SDMAM(n)
  \/ SDMAON \/ SDMAONReturn \/ STR \/ CheckInterrupts
  \/ dmaThread \/ SpuriousWakeup
  \/ LoadWord \/ writeSector

Spec == Init /\ [][Next]_vars

(* The DMA thread goes on when it can, and the CPU's spinning sees the end *)
(* of the transfer.  Nobody but the DMA thread keeps the lock for longer   *)
(* than an access, so that it gets it.                                     *)
Fairness == WF_vars(dmaThread) /\ WF_vars(SDMAONReturn)

FairSpec == Spec /\ Fairness

-----------------------------------------------------------------------------
(*                                Properties                               *)

DmaState ==
  [pc : {"lock", "waiting", "search", "readRam", "writeDisk", "writeRam", "relock",
         "raise", "raised", "end"},
   data : Word, seen : SUBSET Codes]

DmaRegisters ==
  [track : Tracks, cylinder : Cylinders, sector : Sectors, ioDirection : {0, 1},
   memAddr : Addresses, active : BOOLEAN, pending : BOOLEAN]

(* The registers name a place of the disk and a word of the RAM: the DMA   *)
(* thread uses them without a check of its own (memory.h: "pre-validated   *)
(* physical addresses").                                                   *)
TypeOK ==
  /\ DMA \in DmaRegisters
  /\ RAM \in [Addresses -> Word]
  /\ DISK \in [Places -> Word]
  /\ BUS_LOCK \in {"free", "dma"}
  /\ interruptBitmap \subseteq Codes
  /\ cpu \in [pc : {"run", "wait", "check"}, process : Processes]
  /\ dma \in DmaState

(* While a transfer is going on the CPU thread waits for it: neither the   *)
(* registers, nor the bitmap of interrupts, which have no lock of their    *)
(* own, are used by both threads at once.                                  *)
TransferWhileCpuWaits == DMA.active => DMA.pending /\ cpu.pc = "wait"

(* The transfer's interrupt is pending when SDMAON returns, so that it is  *)
(* handled in the cycle of the program that asked.                         *)
DoneBeforeReturn ==
  cpu.pc = "wait" /\ ~DMA.pending => "IC_IO_DONE" \in interruptBitmap

(* Only checkInterrupts takes an interrupt off: none is lost because the   *)
(* DMA thread and the CPU thread both write the bitmap.                    *)
NoInterruptLost ==
  [][cpu.pc = "check" \/ interruptBitmap \subseteq interruptBitmap']_vars

(* SDMAON does one transfer, with the registers of when it was executed.   *)
Progress ==
  IF cpu.pc # "wait" THEN "none"
  ELSE IF ~DMA.pending \/ dma.pc \in {"relock", "raise", "raised", "end"} THEN "served"
  ELSE IF dma.pc \in {"writeDisk", "writeRam"} THEN "fetched" ELSE "asked"

Channel == INSTANCE DmaChannel
  WITH order <- [sector |-> Place, memAddr |-> DMA.memAddr, toDisk |-> DMA.ioDirection = 1],
       request <- [at |-> Progress, data |-> dma.data]

ImplementsChannel == Channel!Spec

(* SDMAON always returns: the DMA thread does not miss the signal, and no  *)
(* thread waits for the lock for ever.                                     *)
SDMAONReturns == cpu.pc = "wait" ~> cpu.pc # "wait"

=============================================================================
