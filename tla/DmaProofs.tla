----------------------------- MODULE DmaProofs ------------------------------
(***************************************************************************)
(* Theorems about Dma, for every geometry, RAM, partition and operand.     *)
(* They rest on one inductive invariant: where the DMA thread is decides   *)
(* who has BUS_LOCK and whether a transfer is active, a transfer is        *)
(* pending while it is active, and the CPU thread waits while it is        *)
(* pending.                                                                *)
(***************************************************************************)
EXTENDS Dma, TLAPS

Locked == {"search", "raise", "raised", "end"}
ToDiskSteps == {"readRam", "writeDisk"}
ToRamSteps == {"writeRam", "relock"}

(* The handshake: pending, active, the lock, and the two program counters. *)
Handshake ==
  /\ DMA.active <=> dma.pc \in Locked \union ToDiskSteps \union ToRamSteps
  /\ DMA.active => DMA.pending
  /\ DMA.pending => cpu.pc = "wait"
  /\ BUS_LOCK = "dma" <=> dma.pc \in Locked
  /\ DMA.pending => dma.pc # "waiting"

Direction ==
  /\ dma.pc \in ToDiskSteps => DMA.ioDirection = 1
  /\ dma.pc \in ToRamSteps => DMA.ioDirection # 1

(* What the DMA thread has read of the bitmap is still what is there.      *)
Raising ==
  /\ dma.pc = "raised" => dma.seen = interruptBitmap
  /\ dma.pc = "end" => "IC_IO_DONE" \in interruptBitmap
  /\ DoneBeforeReturn

IInv == TypeOK /\ Handshake /\ Direction /\ Raising

-----------------------------------------------------------------------------
(*                       What the CPU's instructions do                    *)

(* An SDMA* instruction that sets a register changes neither flag, and     *)
(* every register keeps its range.                                         *)
SetOutcome ==
  /\ cpu.pc = "run" /\ cpu' = [cpu EXCEPT !.pc = "check"]
  /\ DMA' \in DmaRegisters /\ DMA'.active = DMA.active /\ DMA'.pending = DMA.pending
  /\ interruptBitmap \subseteq interruptBitmap' /\ interruptBitmap' \subseteq Codes
  /\ UNCHANGED <<RAM, DISK, BUS_LOCK, dma>>

LEMMA SetRegisterOutcome ==
  ASSUME TypeOK, NEW accepted \in BOOLEAN, NEW fault \in Codes, NEW registers,
         accepted => /\ registers \in DmaRegisters
                     /\ registers.active = DMA.active /\ registers.pending = DMA.pending,
         SetRegister(accepted, fault, registers)
  PROVE  SetOutcome
<1>1. DMA \in DmaRegisters
  BY DEF TypeOK
<1>2. DMA' \in DmaRegisters /\ DMA'.active = DMA.active /\ DMA'.pending = DMA.pending
  BY <1>1 DEF SetRegister
<1>3. interruptBitmap \subseteq interruptBitmap' /\ interruptBitmap' \subseteq Codes
  BY DEF SetRegister, TypeOK, FetchFaults, Codes
<1> QED
  BY <1>2, <1>3 DEF SetOutcome, SetRegister

LEMMA SetupOutcome ==
  ASSUME TypeOK, NEW n \in Operands,
         SDMAP(n) \/ SDMAC(n) \/ SDMAS(n) \/ SDMAIO(n) \/ SDMAM(n)
  PROVE  SetOutcome
<1>0. DMA \in DmaRegisters /\ n \in Int
  BY DmaAssumption DEF TypeOK
<1>f. "IC_INVALID_INSTR" \in Codes /\ "IC_INVALID_ADDR" \in Codes
  BY DEF Codes
<1>1. CASE SDMAP(n)
  <2> DEFINE r == [DMA EXCEPT !.track = n]
  <2>1. ValidTrack(n) => n \in Tracks
    BY <1>0, DmaAssumption DEF ValidTrack, Tracks
  <2>2. ValidTrack(n) \in BOOLEAN
    BY DEF ValidTrack
  <2>3. SetRegister(ValidTrack(n), "IC_INVALID_INSTR", r)
    BY <1>1 DEF SDMAP
  <2>4. /\ ValidTrack(n) => r \in DmaRegisters
        /\ r.active = DMA.active /\ r.pending = DMA.pending
    BY <1>0, <2>1 DEF DmaRegisters
  <2> HIDE DEF r
  <2> QED
    BY <1>0, <1>f, <2>2, <2>3, <2>4, SetRegisterOutcome
<1>2. CASE SDMAC(n)
  <2> DEFINE accepted == n \in Cylinders
             r == [DMA EXCEPT !.cylinder = n]
  <2>1. SetRegister(accepted, "IC_INVALID_INSTR", r)
    BY <1>2 DEF SDMAC
  <2>2. /\ accepted => r \in DmaRegisters
        /\ r.active = DMA.active /\ r.pending = DMA.pending
    BY <1>0 DEF DmaRegisters
  <2>3. accepted \in BOOLEAN
    OBVIOUS
  <2> HIDE DEF accepted, r
  <2> QED
    BY <1>0, <1>f, <2>1, <2>2, <2>3, SetRegisterOutcome
<1>3. CASE SDMAS(n)
  <2> DEFINE accepted == n \in Sectors
             r == [DMA EXCEPT !.sector = n]
  <2>1. SetRegister(accepted, "IC_INVALID_INSTR", r)
    BY <1>3 DEF SDMAS
  <2>2. /\ accepted => r \in DmaRegisters
        /\ r.active = DMA.active /\ r.pending = DMA.pending
    BY <1>0 DEF DmaRegisters
  <2>3. accepted \in BOOLEAN
    OBVIOUS
  <2> HIDE DEF accepted, r
  <2> QED
    BY <1>0, <1>f, <2>1, <2>2, <2>3, SetRegisterOutcome
<1>4. CASE SDMAIO(n)
  <2> DEFINE accepted == n \in {0, 1}
             r == [DMA EXCEPT !.ioDirection = n]
  <2>1. SetRegister(accepted, "IC_INVALID_INSTR", r)
    BY <1>4 DEF SDMAIO
  <2>2. /\ accepted => r \in DmaRegisters
        /\ r.active = DMA.active /\ r.pending = DMA.pending
    BY <1>0 DEF DmaRegisters
  <2>3. accepted \in BOOLEAN
    OBVIOUS
  <2> HIDE DEF accepted, r
  <2> QED
    BY <1>0, <1>f, <2>1, <2>2, <2>3, SetRegisterOutcome
<1>5. CASE SDMAM(n)
  <2>1. PICK mode \in Modes :
          LET physicalAddr == IF mode = "kernel" THEN n ELSE Base[cpu.process] + n
              beyond == mode = "user" /\ physicalAddr > Limit[cpu.process]
          IN  SetRegister(~beyond /\ physicalAddr \in Addresses,
                          IF beyond THEN "IC_INVALID_ADDR" ELSE "IC_INVALID_INSTR",
                          [DMA EXCEPT !.memAddr = physicalAddr])
    BY <1>5 DEF SDMAM
  <2> DEFINE a == IF mode = "kernel" THEN n ELSE Base[cpu.process] + n
             beyond == mode = "user" /\ a > Limit[cpu.process]
             accepted == ~beyond /\ a \in Addresses
             fault == IF beyond THEN "IC_INVALID_ADDR" ELSE "IC_INVALID_INSTR"
             r == [DMA EXCEPT !.memAddr = a]
  <2>2. SetRegister(accepted, fault, r)
    BY <2>1
  <2>3. accepted \in BOOLEAN /\ fault \in Codes
    BY <1>f
  <2>4. /\ accepted => r \in DmaRegisters
        /\ r.active = DMA.active /\ r.pending = DMA.pending
    BY <1>0 DEF DmaRegisters
  <2> HIDE DEF accepted, fault, r
  <2> QED
    BY <2>2, <2>3, <2>4, SetRegisterOutcome
<1> QED
  BY <1>1, <1>2, <1>3, <1>4, <1>5

-----------------------------------------------------------------------------
(*                     The invariant is inductive                          *)

LEMMA InitIInv == Init => IInv
<1> SUFFICES ASSUME Init PROVE IInv
  OBVIOUS
<1>1. DMA \in DmaRegisters
  BY DmaAssumption DEF Init, DmaRegisters, Tracks, Cylinders, Sectors, Addresses
<1>2. dma \in DmaState /\ cpu \in [pc : {"run", "wait", "check"}, process : Processes]
  BY DmaAssumption DEF Init, DmaState
<1> QED
  BY <1>1, <1>2 DEF Init, IInv, TypeOK, Handshake, Direction, Raising, DoneBeforeReturn,
     Locked, ToDiskSteps, ToRamSteps

(* The steps of the CPU thread.  It has nothing pending when it executes   *)
(* an instruction, so that the DMA thread is at its wait.                  *)
LEMMA CpuStep ==
  ASSUME IInv,
         \/ \E n \in Operands : SDMAP(n) \/ SDMAC(n) \/ SDMAS(n) \/ SDMAIO(n) \/ SDMAM(n)
         \/ SDMAON \/ SDMAONReturn \/ STR \/ CheckInterrupts
  PROVE  IInv'
<1> USE DEF IInv
<1>1. ASSUME NEW n \in Operands, SDMAP(n) \/ SDMAC(n) \/ SDMAS(n) \/ SDMAIO(n) \/ SDMAM(n)
      PROVE  IInv'
  <2>1. SetOutcome
    BY <1>1, SetupOutcome
  <2>2. TypeOK'
    BY <2>1 DEF SetOutcome, TypeOK
  <2>3. dma.pc \in {"lock", "waiting"} /\ ~DMA'.active /\ ~DMA'.pending /\ cpu'.pc = "check"
    BY <2>1 DEF SetOutcome, Handshake, TypeOK, DmaState, Locked, ToDiskSteps, ToRamSteps
  <2> QED
    BY <2>1, <2>2, <2>3 DEF SetOutcome, Handshake, Direction, Raising, DoneBeforeReturn, Locked,
       ToDiskSteps, ToRamSteps
<1>2. CASE SDMAON
  <2>1. dma.pc \in {"lock", "waiting"} /\ ~DMA.active /\ dma' = [dma EXCEPT !.pc = "lock"]
    BY <1>2 DEF SDMAON, Signalled, Handshake, TypeOK, DmaState, Locked, ToDiskSteps, ToRamSteps
  <2>2. DMA' \in DmaRegisters /\ dma' \in DmaState
    BY <1>2, <2>1 DEF SDMAON, TypeOK, DmaRegisters, DmaState
  <2>3. /\ DMA'.pending /\ ~DMA'.active /\ dma'.pc = "lock" /\ cpu'.pc = "wait"
        /\ UNCHANGED <<RAM, DISK, BUS_LOCK, interruptBitmap>> /\ BUS_LOCK = "free"
        /\ cpu' \in [pc : {"run", "wait", "check"}, process : Processes]
    BY <1>2, <2>1 DEF SDMAON, TypeOK, DmaRegisters, DmaState
  <2> QED
    BY <2>2, <2>3 DEF TypeOK, Handshake, Direction, Raising, DoneBeforeReturn, Locked,
       ToDiskSteps, ToRamSteps
<1>3. CASE SDMAONReturn
  <2>1. ~DMA.pending /\ dma.pc \in {"lock", "waiting"}
    BY <1>3 DEF SDMAONReturn, Served, Handshake, TypeOK, DmaState, Locked, ToDiskSteps, ToRamSteps
  <2>2. interruptBitmap' \subseteq Codes
    BY <1>3 DEF SDMAONReturn, FetchFaults, Codes, TypeOK
  <2> QED
    BY <1>3, <2>1, <2>2 DEF SDMAONReturn, TypeOK, Handshake, Direction, Raising,
       DoneBeforeReturn, Locked, ToDiskSteps, ToRamSteps
<1>4. CASE STR
  <2>1. RAM' \in [Addresses -> Word]
    BY <1>4 DEF STR, TypeOK
  <2>2. dma.pc \in {"lock", "waiting"}
    BY <1>4 DEF STR, Handshake, TypeOK, DmaState, Locked, ToDiskSteps, ToRamSteps
  <2> QED
    BY <1>4, <2>1, <2>2 DEF STR, TypeOK, Handshake, Direction, Raising, DoneBeforeReturn
<1>5. CASE CheckInterrupts
  <2>1. dma.pc \in {"lock", "waiting"} /\ ~DMA.pending
    BY <1>5 DEF CheckInterrupts, Handshake, TypeOK, DmaState, Locked, ToDiskSteps, ToRamSteps
  <2>2. interruptBitmap' \subseteq Codes
    BY <1>5 DEF CheckInterrupts, TypeOK
  <2> QED
    BY <1>5, <2>1, <2>2 DEF CheckInterrupts, TypeOK, Handshake, Direction, Raising,
       DoneBeforeReturn
<1> QED
  BY <1>1, <1>2, <1>3, <1>4, <1>5

(* The steps of the DMA thread: the CPU waits from the first to the last.  *)
LEMMA DmaStep == ASSUME IInv, dmaThread \/ SpuriousWakeup PROVE IInv'
<1> USE DEF IInv
<1>d. dma \in DmaState /\ DMA \in DmaRegisters /\ Place \in Places
  BY DEF TypeOK, DmaRegisters, Place, Places
<1>1. CASE DmaWait \/ SpuriousWakeup
  <2>1. dma' \in DmaState /\ dma.pc \in {"lock", "waiting"} /\ dma'.pc \in {"lock", "waiting"}
    BY <1>1, <1>d DEF DmaWait, SpuriousWakeup, DmaState
  <2> QED
    BY <1>1, <2>1 DEF DmaWait, SpuriousWakeup, TypeOK, Handshake, Direction, Raising,
       DoneBeforeReturn, Locked, ToDiskSteps, ToRamSteps
<1>2. CASE DmaBegin
  <2>1. dma' \in DmaState /\ DMA' \in DmaRegisters /\ dma'.pc = "search" /\ DMA'.active
        /\ DMA'.pending
    BY <1>2, <1>d DEF DmaBegin, Taken, DmaState, DmaRegisters
  <2> QED
    BY <1>2, <2>1 DEF DmaBegin, TypeOK, Handshake, Direction, Raising, DoneBeforeReturn, Locked,
       ToDiskSteps, ToRamSteps
<1>3. CASE DmaSearch
  <2>1. dma' \in DmaState /\ dma'.pc \in {"readRam", "writeRam"}
        /\ (dma'.pc = "readRam" <=> ToDisk)
    BY <1>3, <1>d DEF DmaSearch, DmaState, TypeOK
  <2> QED
    BY <1>3, <2>1 DEF DmaSearch, ToDisk, TypeOK, Handshake, Direction, Raising, DoneBeforeReturn,
       Locked, ToDiskSteps, ToRamSteps
<1>4. CASE dmaReadMemory
  <2>1. dma' \in DmaState /\ dma'.pc = "writeDisk"
    BY <1>4, <1>d DEF dmaReadMemory, DmaState, DmaRegisters, TypeOK
  <2> QED
    BY <1>4, <2>1 DEF dmaReadMemory, TypeOK, Handshake, Direction, Raising, DoneBeforeReturn,
       Locked, ToDiskSteps, ToRamSteps
<1>5. CASE DmaWriteDisk
  <2>1. dma' \in DmaState /\ dma'.pc = "raise" /\ DISK' \in [Places -> Word]
    BY <1>5, <1>d DEF DmaWriteDisk, DmaState, TypeOK
  <2> QED
    BY <1>5, <2>1 DEF DmaWriteDisk, TypeOK, Handshake, Direction, Raising, DoneBeforeReturn,
       Locked, ToDiskSteps, ToRamSteps
<1>6. CASE dmaWriteMemory
  <2>1. dma' \in DmaState /\ dma'.pc = "relock" /\ RAM' \in [Addresses -> Word]
    BY <1>6, <1>d DEF dmaWriteMemory, DmaState, TypeOK
  <2> QED
    BY <1>6, <2>1 DEF dmaWriteMemory, TypeOK, Handshake, Direction, Raising, DoneBeforeReturn,
       Locked, ToDiskSteps, ToRamSteps
<1>7. CASE DmaRelock
  <2>1. dma' \in DmaState /\ dma'.pc = "raise"
    BY <1>7, <1>d DEF DmaRelock, DmaState
  <2> QED
    BY <1>7, <2>1 DEF DmaRelock, TypeOK, Handshake, Direction, Raising, DoneBeforeReturn, Locked,
       ToDiskSteps, ToRamSteps
<1>8. CASE DmaRaiseRead
  <2>1. dma' \in DmaState /\ dma'.pc = "raised" /\ dma'.seen = interruptBitmap
    BY <1>8, <1>d DEF DmaRaiseRead, DmaState, TypeOK
  <2> QED
    BY <1>8, <2>1 DEF DmaRaiseRead, TypeOK, Handshake, Direction, Raising, DoneBeforeReturn,
       Locked, ToDiskSteps, ToRamSteps
<1>9. CASE DmaRaiseWrite
  <2>1. dma' \in DmaState /\ dma'.pc = "end"
    BY <1>9, <1>d DEF DmaRaiseWrite, DmaState, Codes
  <2>2. Outcome = "IC_IO_DONE"
    BY <1>d, DmaAssumption DEF Outcome, isPhysicalAddressValid, DmaRegisters, Addresses
  <2>3. interruptBitmap' = interruptBitmap \union {"IC_IO_DONE"} /\ interruptBitmap' \subseteq Codes
    BY <1>9, <2>2 DEF DmaRaiseWrite, Raising, TypeOK, Codes
  <2> QED
    BY <1>9, <2>1, <2>3 DEF DmaRaiseWrite, TypeOK, Handshake, Direction, Raising,
       DoneBeforeReturn, Locked, ToDiskSteps, ToRamSteps
<1>10. CASE DmaEnd
  <2>1. dma' \in DmaState /\ DMA' \in DmaRegisters /\ dma'.pc = "lock" /\ ~DMA'.active
        /\ ~DMA'.pending
    BY <1>10, <1>d DEF DmaEnd, DmaState, DmaRegisters
  <2> QED
    BY <1>10, <2>1 DEF DmaEnd, TypeOK, Handshake, Direction, Raising, DoneBeforeReturn, Locked,
       ToDiskSteps, ToRamSteps
<1> QED
  BY <1>1, <1>2, <1>3, <1>4, <1>5, <1>6, <1>7, <1>8, <1>9, <1>10 DEF dmaThread

LEMMA StepIInv == IInv /\ [Next]_vars => IInv'
<1> SUFFICES ASSUME IInv, [Next]_vars PROVE IInv'
  OBVIOUS
<1> USE DEF IInv, TypeOK, Handshake, Direction, Raising, DoneBeforeReturn
<1>1. CASE LoadWord
  BY <1>1 DEF LoadWord
<1>2. CASE writeSector
  BY <1>2 DEF writeSector
<1>3. CASE UNCHANGED vars
  BY <1>3 DEF vars
<1> QED
  BY <1>1, <1>2, <1>3, CpuStep, DmaStep DEF Next

LEMMA Invariance == Spec => []IInv
BY InitIInv, StepIInv, PTL DEF Spec

-----------------------------------------------------------------------------
(*                               The theorems                              *)

(* The DMA registers always name a place of the disk and a word of the     *)
(* RAM, whatever operands the programs give (the checks of                 *)
(* executeDMAInstruction).                                                 *)
THEOREM TypeCorrect == Spec => []TypeOK
BY Invariance, PTL DEF IInv

(* While the DMA thread transfers, the CPU thread is in SDMAON's loop.     *)
THEOREM CpuWaits == Spec => []TransferWhileCpuWaits
<1>1. IInv => TransferWhileCpuWaits
  BY DEF IInv, Handshake, TransferWhileCpuWaits
<1> QED
  BY <1>1, Invariance, PTL

(* IC_IO_DONE is pending when SDMAON returns.                              *)
THEOREM DoneInCycle == Spec => []DoneBeforeReturn
BY Invariance, PTL DEF IInv, Raising

(* No interrupt is lost between raiseInterrupt's read and write of the     *)
(* bitmap, on whichever thread.                                            *)
THEOREM NothingLost == Spec => NoInterruptLost
<1>1. IInv /\ [Next]_vars
        => [cpu.pc = "check" \/ interruptBitmap \subseteq interruptBitmap']_vars
  <2> SUFFICES ASSUME IInv, [Next]_vars, cpu.pc # "check"
               PROVE  interruptBitmap \subseteq interruptBitmap'
    OBVIOUS
  <2>1. ASSUME NEW n \in Operands, SDMAP(n) \/ SDMAC(n) \/ SDMAS(n) \/ SDMAIO(n) \/ SDMAM(n)
        PROVE  interruptBitmap \subseteq interruptBitmap'
    BY <2>1, SetupOutcome DEF IInv, SetOutcome
  <2>2. CASE dmaThread \/ SpuriousWakeup
    BY <2>2 DEF dmaThread, SpuriousWakeup, DmaWait, DmaBegin, DmaSearch, dmaReadMemory,
       DmaWriteDisk, dmaWriteMemory, DmaRelock, DmaRaiseRead, DmaRaiseWrite, DmaEnd, IInv, Raising
  <2>3. CASE SDMAON \/ SDMAONReturn \/ STR \/ CheckInterrupts \/ LoadWord \/ writeSector
    BY <2>3 DEF SDMAON, SDMAONReturn, STR, CheckInterrupts, LoadWord, writeSector
  <2> QED
    BY <2>1, <2>2, <2>3 DEF Next, vars
<1> QED
  BY <1>1, Invariance, PTL DEF Spec, NoInterruptLost

-----------------------------------------------------------------------------
(*                   Nothing keeps SDMAON from returning                   *)

(* The DMA thread is not asleep on DMA_COND with a request pending, and    *)
(* the lock is free whenever it has to take it.                            *)
DmaThreadMayGo ==
  DMA.pending => dma.pc # "waiting" /\ (dma.pc \in Locked \/ BUS_LOCK = "free")

(* The signal of SDMAON is not lost, also when it is sent before the DMA   *)
(* thread waits (dma.c:30), and nobody keeps BUS_LOCK from it for longer   *)
(* than an access: what SDMAON spins for can always go on.                 *)
THEOREM SignalNotLost == Spec => []DmaThreadMayGo
<1>1. IInv => DmaThreadMayGo
  BY DEF IInv, TypeOK, Handshake, DmaThreadMayGo
<1> QED
  BY <1>1, Invariance, PTL

(* The steps the DMA thread has left until it clears pending, at most.     *)
TransferLeft ==
  [waiting |-> 8, lock |-> 7, search |-> 6, readRam |-> 5, writeRam |-> 5,
   writeDisk |-> 4, relock |-> 4, raise |-> 3, raised |-> 2, end |-> 1][dma.pc]

(* Every step of the DMA thread brings the transfer nearer to its end, and *)
(* nobody else takes it back or puts it off.                               *)
TransferAdvances ==
  [][DMA.pending =>
       IF dmaThread THEN ~DMA'.pending \/ TransferLeft' < TransferLeft
       ELSE DMA'.pending /\ dma'.pc = dma.pc]_vars

(* A pending request is done after seven steps of the DMA thread at most,  *)
(* whatever the CPU and the console do meanwhile.                          *)
THEOREM TransferEnds == Spec => TransferAdvances
<1> DEFINE Advance == DMA.pending =>
             IF dmaThread THEN ~DMA'.pending \/ TransferLeft' < TransferLeft
             ELSE DMA'.pending /\ dma'.pc = dma.pc
<1>1. IInv /\ [Next]_vars => [Advance]_vars
  <2> SUFFICES ASSUME IInv, Next, DMA.pending
               PROVE  IF dmaThread THEN ~DMA'.pending \/ TransferLeft' < TransferLeft
                      ELSE DMA'.pending /\ dma'.pc = dma.pc
    BY DEF vars
  <2>0. dma \in DmaState /\ DMA \in DmaRegisters /\ cpu.pc = "wait" /\ dma.pc # "waiting"
    BY DEF IInv, TypeOK, Handshake
  <2>1. CASE dmaThread
    <3> SUFFICES ~DMA'.pending \/ TransferLeft' < TransferLeft
      BY <2>1
    <3>1. CASE DmaBegin
      <4>1. dma.pc = "lock" /\ dma'.pc = "search"
        BY <2>0, <3>1 DEF DmaBegin, DmaState
      <4> QED
        BY <4>1 DEF TransferLeft
    <3>2. CASE DmaSearch
      <4>1. dma.pc = "search" /\ dma'.pc \in {"readRam", "writeRam"}
        BY <2>0, <3>2 DEF DmaSearch, DmaState
      <4> QED
        BY <4>1 DEF TransferLeft
    <3>3. CASE dmaReadMemory \/ DmaWriteDisk \/ dmaWriteMemory
      <4>1. \/ dma.pc = "readRam" /\ dma'.pc = "writeDisk"
            \/ dma.pc = "writeDisk" /\ dma'.pc = "raise"
            \/ dma.pc = "writeRam" /\ dma'.pc = "relock"
        BY <2>0, <3>3 DEF dmaReadMemory, DmaWriteDisk, dmaWriteMemory, DmaState
      <4> QED
        BY <4>1 DEF TransferLeft
    <3>4. CASE DmaRelock \/ DmaRaiseRead \/ DmaRaiseWrite
      <4>1. \/ dma.pc = "relock" /\ dma'.pc = "raise"
            \/ dma.pc = "raise" /\ dma'.pc = "raised"
            \/ dma.pc = "raised" /\ dma'.pc = "end"
        BY <2>0, <3>4 DEF DmaRelock, DmaRaiseRead, DmaRaiseWrite, DmaState
      <4> QED
        BY <4>1 DEF TransferLeft
    <3>5. CASE DmaEnd
      BY <2>0, <3>5 DEF DmaEnd, DmaRegisters
    <3>6. ~DmaWait
      BY DEF DmaWait
    <3> QED
      BY <2>1, <3>1, <3>2, <3>3, <3>4, <3>5, <3>6 DEF dmaThread
  <2>2. CASE ~dmaThread
    <3>1. \A n \in Operands : ~(SDMAP(n) \/ SDMAC(n) \/ SDMAS(n) \/ SDMAIO(n) \/ SDMAM(n))
      BY <2>0 DEF SDMAP, SDMAC, SDMAS, SDMAIO, SDMAM, SetRegister
    <3>2. ~(SDMAON \/ SDMAONReturn \/ STR \/ CheckInterrupts \/ SpuriousWakeup)
      BY <2>0 DEF SDMAON, SDMAONReturn, Served, STR, CheckInterrupts, SpuriousWakeup
    <3>3. CASE LoadWord \/ writeSector
      BY <2>2, <3>3 DEF LoadWord, writeSector
    <3> QED
      BY <2>2, <3>1, <3>2, <3>3 DEF Next
  <2> QED
    BY <2>1, <2>2
<1> QED
  BY <1>1, Invariance, PTL DEF Spec, TransferAdvances

-----------------------------------------------------------------------------
(*                  SDMAON does one transfer, and the right one            *)

LEMMA InitChannel == Init => Channel!Init
BY DEF Init, Channel!Init, Progress

LEMMA StepChannel == IInv /\ [Next]_vars => [Channel!Next]_(Channel!dvars)
<1> SUFFICES ASSUME IInv, [Next]_vars PROVE [Channel!Next]_(Channel!dvars)
  OBVIOUS
<1> USE DEF IInv
<1> DEFINE Registers == [sector |-> Place, memAddr |-> DMA.memAddr, toDisk |-> DMA.ioDirection = 1]
           Request == [at |-> Progress, data |-> dma.data]
<1>a. DMA.memAddr \in Addresses /\ isPhysicalAddressValid(DMA.memAddr) /\ dma \in DmaState
  BY DmaAssumption DEF TypeOK, DmaRegisters, isPhysicalAddressValid, Addresses
<1>b. cpu.pc # "wait" => dma.pc \in {"lock", "waiting"} /\ ~DMA.pending
  BY <1>a DEF Handshake, DmaState, Locked, ToDiskSteps, ToRamSteps
<1>c. dma.pc \notin {"lock", "waiting"} => DMA.pending /\ cpu.pc = "wait"
  BY <1>a DEF Handshake, DmaState, Locked, ToDiskSteps, ToRamSteps
<1>1. ASSUME NEW n \in Operands, SDMAP(n) \/ SDMAC(n) \/ SDMAS(n) \/ SDMAIO(n) \/ SDMAM(n)
      PROVE  Channel!Setup
  <2>1. SetOutcome
    BY <1>1, SetupOutcome
  <2>2. Progress = "none" /\ Progress' = "none"
    BY <2>1 DEF SetOutcome, Progress, TypeOK
  <2> QED
    BY <2>1, <2>2 DEF SetOutcome, Channel!Setup
<1>2. CASE SDMAON
  <2>1. DMA'.pending /\ dma'.pc = "lock" /\ dma'.data = dma.data /\ cpu'.pc = "wait"
    BY <1>2, <1>a, <1>b DEF SDMAON, Signalled, DmaState, TypeOK, DmaRegisters
  <2>2. Progress = "none" /\ Progress' = "asked"
    BY <1>2, <2>1 DEF SDMAON, Progress
  <2>3. UNCHANGED Registers
    BY <1>2 DEF SDMAON, Place
  <2> QED
    BY <1>2, <2>1, <2>2, <2>3 DEF SDMAON, Channel!Ask, Channel!Move, Channel!Next
<1>3. CASE SDMAONReturn
  <2>1. Progress = "served" /\ Progress' = "none"
    BY <1>3 DEF SDMAONReturn, Served, Progress, TypeOK
  <2>2. UNCHANGED <<Registers, RAM, DISK, dma>>
    BY <1>3 DEF SDMAONReturn, Place
  <2> QED
    BY <2>1, <2>2 DEF Channel!Return, Channel!Move, Channel!Next
<1>4. CASE STR
  <2>1. PICK a \in Base[cpu.process] .. Limit[cpu.process], w \in Word :
          RAM' = [RAM EXCEPT ![a] = w]
    BY <1>4 DEF STR
  <2>2. a \in DOMAIN RAM
    BY <2>1, DmaAssumption DEF TypeOK, Addresses
  <2>3. Progress = "none" /\ Progress' = "none" /\ UNCHANGED <<DISK, Registers, dma>>
    BY <1>4 DEF STR, Progress, Place, TypeOK
  <2>4. \E x \in DOMAIN RAM, v \in Word :
          /\ Request.at = "none" \/ x \in LoaderAddresses
          /\ RAM' = [RAM EXCEPT ![x] = v]
    BY <2>1, <2>2, <2>3
  <2> QED
    BY <2>3, <2>4 DEF Channel!Store, Channel!Next
<1>5. CASE CheckInterrupts
  BY <1>5 DEF CheckInterrupts, Progress, Place, Channel!dvars
<1>6. CASE DmaWait \/ SpuriousWakeup \/ DmaBegin
  <2>1. UNCHANGED <<Registers, RAM, DISK, dma.data>>
    BY <1>6, <1>a DEF DmaWait, SpuriousWakeup, DmaBegin, Taken, Place, DmaState, TypeOK,
       DmaRegisters
  <2>2. Progress' = Progress
    BY <1>6, <1>c, <1>a DEF DmaWait, SpuriousWakeup, DmaBegin, Taken, Progress, TypeOK, DmaRegisters,
       DmaState
  <2> QED
    BY <2>1, <2>2 DEF Channel!dvars
<1>7. CASE DmaSearch
  <2>1. Progress = "asked" /\ UNCHANGED <<Registers, RAM, DISK, cpu, DMA>>
    BY <1>7, <1>c DEF DmaSearch, Progress, Place
  <2>2. CASE ToDisk
    <3>1. Progress' = "asked" /\ dma'.data = dma.data
      BY <1>7, <1>a, <1>c, <2>1, <2>2 DEF DmaSearch, Progress, DmaState
    <3> QED
      BY <2>1, <3>1 DEF Channel!dvars
  <2>3. CASE ~ToDisk
    <3>1. Progress' = "fetched" /\ dma'.data = DISK[Place]
      BY <1>7, <1>a, <1>c, <2>1, <2>3 DEF DmaSearch, Progress, DmaState
    <3> QED
      BY <2>1, <2>3, <3>1 DEF Channel!Fetch, Channel!Move, Channel!Next, ToDisk
  <2> QED
    BY <2>2, <2>3
<1>8. CASE dmaReadMemory
  <2>1. Progress = "asked" /\ UNCHANGED <<Registers, RAM, DISK, cpu, DMA>>
    BY <1>8, <1>c DEF dmaReadMemory, Progress, Place
  <2>2. Progress' = "fetched" /\ dma'.data = RAM[DMA.memAddr] /\ DMA.ioDirection = 1
    BY <1>8, <1>a, <1>c, <2>1 DEF dmaReadMemory, Progress, DmaState, Direction, ToDiskSteps
  <2> QED
    BY <2>1, <2>2 DEF Channel!Fetch, Channel!Move, Channel!Next
<1>9. CASE DmaWriteDisk
  <2>1. Progress = "fetched" /\ UNCHANGED <<Registers, RAM, cpu, DMA>>
    BY <1>9, <1>c DEF DmaWriteDisk, Progress, Place
  <2>2. Progress' = "served" /\ dma'.data = dma.data /\ DMA.ioDirection = 1
        /\ DISK' = [DISK EXCEPT ![Place] = dma.data]
    BY <1>9, <1>a, <1>c, <2>1 DEF DmaWriteDisk, Progress, DmaState, Direction, ToDiskSteps
  <2> QED
    BY <2>1, <2>2 DEF Channel!Deliver, Channel!Move, Channel!Next
<1>10. CASE dmaWriteMemory
  <2>1. Progress = "fetched" /\ UNCHANGED <<Registers, DISK, cpu, DMA>>
    BY <1>10, <1>c DEF dmaWriteMemory, Progress, Place
  <2>2. Progress' = "served" /\ dma'.data = dma.data /\ DMA.ioDirection # 1
        /\ RAM' = [RAM EXCEPT ![DMA.memAddr] = dma.data]
    BY <1>10, <1>a, <1>c, <2>1 DEF dmaWriteMemory, Progress, DmaState, Direction, ToRamSteps
  <2> QED
    BY <2>1, <2>2 DEF Channel!Deliver, Channel!Move, Channel!Next
<1>11. CASE DmaRelock \/ DmaRaiseRead \/ DmaRaiseWrite \/ DmaEnd
  <2>1. Progress = "served" /\ cpu.pc = "wait"
    BY <1>11, <1>c DEF DmaRelock, DmaRaiseRead, DmaRaiseWrite, DmaEnd, Progress
  <2>2. /\ UNCHANGED <<Registers, RAM, DISK, cpu>> /\ dma'.data = dma.data
        /\ dma'.pc \in {"raise", "raised", "end"} \/ ~DMA'.pending
    BY <1>11, <1>a DEF DmaRelock, DmaRaiseRead, DmaRaiseWrite, DmaEnd, Place, DmaState, TypeOK,
       DmaRegisters
  <2>3. Progress' = "served"
    BY <2>1, <2>2 DEF Progress
  <2> QED
    BY <2>1, <2>2, <2>3 DEF Channel!dvars
<1>12. CASE LoadWord
  <2>1. Progress' = Progress /\ UNCHANGED <<DISK, Registers, dma>>
    BY <1>12 DEF LoadWord, Progress, Place
  <2> QED
    BY <1>12, <2>1, DmaAssumption DEF LoadWord, TypeOK, Channel!Store, Channel!Next
<1>13. CASE writeSector
  <2>1. Progress' = Progress /\ UNCHANGED <<RAM, Registers, dma>>
    BY <1>13 DEF writeSector, Progress, Place
  <2> QED
    BY <1>13, <2>1 DEF writeSector, Channel!WriteDisk, Channel!Next
<1>14. CASE UNCHANGED vars
  BY <1>14 DEF vars, Progress, Place, Channel!dvars
<1> QED
  BY <1>1, <1>2, <1>3, <1>4, <1>5, <1>6, <1>7, <1>8, <1>9, <1>10, <1>11, <1>12, <1>13, <1>14
     DEF Next, dmaThread, Channel!Next

(* Every SDMAON moves exactly one word, from the place the registers name  *)
(* to the other, however the three threads interleave.                     *)
THEOREM Refinement == Spec => ImplementsChannel
BY InitChannel, StepChannel, Invariance, PTL DEF Spec, ImplementsChannel, Channel!Spec
=============================================================================
