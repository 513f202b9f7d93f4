-------------------------------- MODULE Vfs ---------------------------------
(***************************************************************************)
(* The virtual disk and its catalog (src/kernel/vfs.c, src/hardware/       *)
(* disk.c), and the part of createProcess (src/kernel/core.c) that brings  *)
(* a program from a file of the host to the disk, once, and from the disk  *)
(* to a partition, at every run.                                           *)
(* Only the console thread runs this code, one program at a time, so that  *)
(* one call is modelled, word by word.  A word of a program is <<path, i>>.*)
(* Meanwhile the programs that run may write sectors with SDMAON: nothing  *)
(* keeps them off those of the catalogued programs.                        *)
(***************************************************************************)
EXTENDS Partitions, Sequences, FiniteSets

CONSTANTS
  DISK_TRACKS, DISK_CYLINDERS, DISK_SECTORS,
  HostFiles,    \* path -> programName, declared wordCount, lines of code
  Identifiers,  \* what the user types: paths, program names, neither
  DmaPlaces     \* the sectors that programs write

ASSUME VfsAssumption ==
  /\ {DISK_TRACKS, DISK_CYLINDERS, DISK_SECTORS} \subseteq Nat \ {0}
  /\ \A path \in DOMAIN HostFiles :
       HostFiles[path].wordCount \in Int /\ HostFiles[path].lines \in Nat

VARIABLES
  diskCatalog,  \* catalogCount is its length
  free,         \* freeTrack, freeCylinder, freeSector
  DISK,
  call          \* createProcess and the functions it calls: where it is, its locals

vars == <<diskCatalog, free, DISK, call>>

Tracks == 0 .. DISK_TRACKS - 1
Cylinders == 0 .. DISK_CYLINDERS - 1
Sectors == 0 .. DISK_SECTORS - 1
Places == Tracks \X Cylinders \X Sectors
totalDiskSectors == DISK_TRACKS * DISK_CYLINDERS * DISK_SECTORS

(* The number of a place, in the order in which sectors are used.          *)
Number(p) == p[1] * (DISK_CYLINDERS * DISK_SECTORS) + p[2] * DISK_SECTORS + p[3]

Zero == <<"", 0>>

(* What a program puts into a sector. *)
Alien == <<"", 1>>

(* readProgramWord: the file's next word, 0 when it has no more lines.     *)
ProgramWord(path, i) == IF i < HostFiles[path].lines THEN <<path, i>> ELSE Zero

Prompt == [pc |-> "prompt", id |-> "", path |-> "", words |-> 0, start |-> <<0, 0, 0>>,
           at |-> <<0, 0, 0>>, i |-> 0, base |-> 0, loaded |-> <<>>]

Init ==
  /\ diskCatalog = <<>>
  /\ free = <<0, 0, 0>>
  /\ DISK = [p \in Places |-> Zero]
  /\ call = Prompt

-----------------------------------------------------------------------------
(* Mutant: the next track starts at the cylinder after the last one. *)
NextPlaceKept(p) ==
  IF p[3] + 1 < DISK_SECTORS THEN <<p[1], p[2], p[3] + 1>>
  ELSE IF p[2] + 1 < DISK_CYLINDERS THEN <<p[1], p[2] + 1, 0>>
  ELSE <<p[1] + 1, p[2] + 1, 0>>

(* The next sector, on the next cylinder or track when this one is over.   *)
NextPlace(p) ==
  IF p[3] + 1 < DISK_SECTORS THEN <<p[1], p[2], p[3] + 1>>
  ELSE IF p[2] + 1 < DISK_CYLINDERS THEN <<p[1], p[2] + 1, 0>>
  ELSE <<p[1] + 1, 0, 0>>

writeSector(p, data) == IF p \in Places THEN [DISK EXCEPT ![p] = data] ELSE DISK

readSector(p) == IF p \in Places THEN DISK[p] ELSE Zero

(* vfsFileExists and vfsGetMetadata look for a path or a program name.     *)
Matches(entry, id) == entry.path = id \/ entry.name = id

vfsFileExists(id) == \E k \in DOMAIN diskCatalog : Matches(diskCatalog[k], id)

(* The entry with index k is the first one that matches. *)
vfsGetMetadata(id, k) ==
  /\ Matches(diskCatalog[k], id)
  /\ \A j \in 1 .. k - 1 : ~Matches(diskCatalog[j], id)

(* Mutant: off by one. *)
HasSpaceForOneMore(words) == words <= totalDiskSectors - Number(free) + 1

HasSpaceFor(words) == words <= totalDiskSectors - Number(free)

(* A program the catalog does not know is looked for on the host; it must  *)
(* fit behind the last one.                                                *)
CreateCall(id) ==
  /\ call.pc = "prompt"
  /\ \/ /\ vfsFileExists(id)
        /\ call' = [Prompt EXCEPT !.pc = "lookup", !.id = id]
     \/ /\ ~vfsFileExists(id)
        /\ id \in DOMAIN HostFiles
        /\ HasSpaceFor(HostFiles[id].wordCount)
        /\ call' = [Prompt EXCEPT !.pc = "write", !.id = id, !.path = id,
                                  !.words = HostFiles[id].wordCount, !.start = free]
  /\ UNCHANGED <<diskCatalog, free, DISK>>

vfsLoadWord ==
  /\ call.pc = "write"
  /\ call.i < call.words
  /\ DISK' = writeSector(free, ProgramWord(call.path, call.i))
  /\ free' = NextPlace(free)
  /\ call' = [call EXCEPT !.i = @ + 1]
  /\ UNCHANGED diskCatalog

(* Mutant: the entry starts where the free sectors do now. *)
StartAtFree == free

StartOfCall == call.start

(* The file is entered into the catalog; when that is full the call fails  *)
(* and the sectors stay written.                                           *)
vfsRegisterFile ==
  /\ call.pc = "write"
  /\ call.i >= call.words
  /\ IF Len(diskCatalog) >= MAX_PROCESSES
       THEN call' = Prompt /\ UNCHANGED diskCatalog
       ELSE /\ diskCatalog' = Append(diskCatalog,
                 [path |-> call.path, name |-> HostFiles[call.path].name,
                  start |-> StartOfCall, words |-> call.words])
            /\ call' = [Prompt EXCEPT !.pc = "lookup", !.id = call.id]
  /\ UNCHANGED <<free, DISK>>

(* createProcess takes the metadata and asks for a partition.              *)
Lookup ==
  /\ call.pc = "lookup"
  /\ \E k \in DOMAIN diskCatalog :
       LET meta == diskCatalog[k]
           required == CalculateRequiredBlocks(meta.words)
       IN  /\ vfsGetMetadata(call.id, k)
           /\ \/ call' = Prompt
              \/ /\ required > 0
                 /\ \E start \in 0 .. MAX_PROCESSES - required :
                      call' = [call EXCEPT !.pc = "copy", !.path = meta.path,
                                 !.words = meta.words, !.at = meta.start,
                                 !.base = GET_BASE_REGISTER(start)]
  /\ UNCHANGED <<diskCatalog, free, DISK>>

(* One word from the disk to RAM; loaded is what this call has written     *)
(* there, from RB on.                                                      *)
CopyWord ==
  /\ call.pc = "copy"
  /\ call.i < call.words
  /\ call' = [call EXCEPT !.loaded = Append(@, readSector(call.at)),
                          !.at = NextPlace(@), !.i = @ + 1]
  /\ UNCHANGED <<diskCatalog, free, DISK>>

(* Mutant: the last word is left out. *)
CopiedButOne == call.i + 1 >= call.words

Copied == call.i >= call.words

CopyDone ==
  /\ call.pc = "copy"
  /\ Copied
  /\ call' = [call EXCEPT !.pc = "loaded"]
  /\ UNCHANGED <<diskCatalog, free, DISK>>

(* The process is created, and the next call may begin.                    *)
Created ==
  /\ call.pc = "loaded"
  /\ call' = Prompt
  /\ UNCHANGED <<diskCatalog, free, DISK>>

(* A transfer from RAM to the disk (src/hardware/dma.c).                    *)
DmaWriteDisk ==
  /\ \E p \in DmaPlaces : DISK' = writeSector(p, Alien)
  /\ UNCHANGED <<diskCatalog, free, call>>

Next ==
  \/ \E id \in Identifiers : CreateCall(id)
  \/ vfsLoadWord \/ vfsRegisterFile
  \/ Lookup \/ CopyWord \/ CopyDone \/ Created
  \/ DmaWriteDisk

Spec == Init /\ [][Next]_vars

-----------------------------------------------------------------------------
(*                                Properties                               *)

(* The next free sector, or the place behind the last one.                 *)
Cursor == Places \union {<<DISK_TRACKS, 0, 0>>}

Entry == [path : DOMAIN HostFiles, name : {HostFiles[p].name : p \in DOMAIN HostFiles},
          start : Cursor, words : Int]

DiskWord == {Zero, Alien} \union ((DOMAIN HostFiles) \X Nat)

Call ==
  [pc : {"prompt", "write", "lookup", "copy", "loaded"}, id : Identifiers \union {""},
   path : DOMAIN HostFiles \union {""}, words : Int, start : Cursor, at : Cursor, i : Nat,
   base : Int, loaded : Seq(DiskWord)]

(* The place where the next program goes, and the place a program is being *)
(* read from, are on the disk, or just behind its end when every sector is *)
(* used.                                                                   *)
TypeOK ==
  /\ diskCatalog \in Seq(Entry) /\ Len(diskCatalog) <= MAX_PROCESSES
  /\ free \in Cursor
  /\ DISK \in [Places -> DiskWord]
  /\ call \in Call

(* The sectors of a catalogued program.                                    *)
Extent(entry) == Number(entry.start) .. Number(entry.start) + entry.words - 1

(* No sector belongs to two programs, and none of a program's is free.     *)
ExtentsDisjoint ==
  \A k \in DOMAIN diskCatalog :
    /\ Extent(diskCatalog[k]) \subseteq 0 .. Number(free) - 1
    /\ \A j \in DOMAIN diskCatalog :
         j # k => Extent(diskCatalog[j]) \cap Extent(diskCatalog[k]) = {}

(* A catalogued program stays on the disk word for word, whatever is       *)
(* stored after it, where no program writes.                               *)
CatalogFaithful ==
  \A k \in DOMAIN diskCatalog : \A p \in Places \ DmaPlaces :
    LET entry == diskCatalog[k]
    IN  Number(p) \in Extent(entry) =>
          DISK[p] = ProgramWord(entry.path, Number(p) - Number(entry.start))

(* createProcess puts into the partition, from RB on, the words of a       *)
(* program with that path or name, all of them and in order (if no program *)
(* wrote there since), and leaves room for the stack.                      *)
LoadedExactly ==
  call.pc = "loaded" =>
    /\ call.id \in {call.path, HostFiles[call.path].name}
    /\ Len(call.loaded) = HostFiles[call.path].wordCount
    /\ \A k \in 1 .. Len(call.loaded) : call.loaded[k] \in {ProgramWord(call.path, k - 1), Alien}
    /\ call.base + call.words + MIN_STACK_SIZE <= RAM_SIZE
=============================================================================
