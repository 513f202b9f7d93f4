------------------------------ MODULE Diskstat ------------------------------
(***************************************************************************)
(* Vfs with the console's command diskstat (printDiskStatus, console.c),   *)
(* which keeps no count of its own: it walks through the catalog and, as   *)
(* the loader did, from each program's start along the disk.  It runs on   *)
(* the console thread, between two calls of createProcess; only the        *)
(* programs' transfers go on meanwhile.                                    *)
(***************************************************************************)
EXTENDS Vfs

CONSTANT SCALE  \* sectors that diskstat shows in one character, 10

ASSUME ScaleAssumption == SCALE \in Nat \ {0}

(* printDiskStatus: where it is, and its locals.  k is the entry it is at, *)
(* w the words of it that are counted; diskMap says whose a sector is, or  *)
(* 0 (entries are numbered from 1 here, as in diskCatalog).                *)
VARIABLE stat

statvars == <<vars, stat>>

NotRunning ==
  [pc |-> "off", k |-> 0, w |-> 0, at |-> <<0, 0, 0>>, occupiedSectors |-> 0,
   diskMap |-> [p \in Places |-> 0]]

DiskstatInit == Init /\ stat = NotRunning

printDiskStatus ==
  /\ stat.pc = "off"
  /\ call.pc = "prompt"
  /\ stat' = [NotRunning EXCEPT !.pc = "entry"]
  /\ UNCHANGED vars

(* The next entry of the catalog; after the last one the map is shown.     *)
NextEntry ==
  /\ stat.pc = "entry"
  /\ stat' = IF stat.k < Len(diskCatalog)
               THEN [stat EXCEPT !.pc = "word", !.k = @ + 1, !.w = 0,
                                 !.at = diskCatalog[stat.k + 1].start]
               ELSE [stat EXCEPT !.pc = "show"]
  /\ UNCHANGED vars

(* Mutant: off by one. *)
WordsLeftAndOne == stat.w <= diskCatalog[stat.k].words

WordsLeft == stat.w < diskCatalog[stat.k].words

(* One is counted for every word on the disk.                              *)
CountWord ==
  /\ stat.pc = "word"
  /\ WordsLeft
  /\ stat' = [stat EXCEPT !.w = @ + 1, !.at = NextPlace(@),
                          !.occupiedSectors = IF stat.at \in Places THEN @ + 1 ELSE @,
                          !.diskMap = IF stat.at \in Places THEN [@ EXCEPT ![stat.at] = stat.k]
                                      ELSE @]
  /\ UNCHANGED vars

EntryCounted ==
  /\ stat.pc = "word"
  /\ ~WordsLeft
  /\ stat' = [stat EXCEPT !.pc = "entry"]
  /\ UNCHANGED vars

(* A character stands for SCALE sectors, and looks at the first two.       *)
displayId(t, c, s) ==
  IF stat.diskMap[<<t, c, s>>] # 0 \/ s + 1 >= DISK_SECTORS
    THEN stat.diskMap[<<t, c, s>>] ELSE stat.diskMap[<<t, c, s + 1>>]

Shown ==
  /\ stat.pc = "show"
  /\ stat' = NotRunning
  /\ UNCHANGED vars

(* The console thread is in diskstat, or in createProcess.                 *)
DiskstatNext ==
  \/ printDiskStatus \/ NextEntry \/ CountWord \/ EntryCounted \/ Shown
  \/ stat.pc = "off" /\ Next /\ UNCHANGED stat
  \/ DmaWriteDisk /\ UNCHANGED stat

DiskstatSpec == DiskstatInit /\ [][DiskstatNext]_statvars

-----------------------------------------------------------------------------
(* diskstat tells the truth, although it counts words, not sectors, and    *)
(* looks at two sectors of ten only: a sector is shown as the program's    *)
(* that has it, the usage is that of the sectors in use, and where a dot   *)
(* is shown there is nothing in any of the sectors it stands for.          *)
DiskstatTruthful ==
  stat.pc = "show" =>
    /\ \A p \in Places : \A k \in DOMAIN diskCatalog :
         stat.diskMap[p] = k <=> Number(p) \in Extent(diskCatalog[k])
    /\ stat.occupiedSectors = Cardinality({p \in Places : stat.diskMap[p] # 0})
    /\ \A t \in Tracks, c \in Cylinders : \A s \in {s \in Sectors : s % SCALE = 0} :
         displayId(t, c, s) = 0 =>
           \A u \in Sectors \cap (s .. s + SCALE - 1) : stat.diskMap[<<t, c, u>>] = 0
=============================================================================
