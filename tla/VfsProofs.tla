----------------------------- MODULE VfsProofs ------------------------------
(***************************************************************************)
(* Theorems about Vfs and Diskstat, for every disk, catalog size and set   *)
(* of files.                                                               *)
(* Sectors are used in the order of their numbers, so that what has to be  *)
(* shown of places is arithmetic on numbers: the next place has the next   *)
(* number, two places have different ones, and those of the disk are the   *)
(* ones below the total.                                                   *)
(***************************************************************************)
EXTENDS Diskstat, FiniteSetTheorems

-----------------------------------------------------------------------------
(*                                Numbering                                *)

W == DISK_CYLINDERS * DISK_SECTORS

LEMMA Geometry ==
  /\ DISK_TRACKS \in Nat \ {0} /\ DISK_CYLINDERS \in Nat \ {0} /\ DISK_SECTORS \in Nat \ {0}
  /\ W \in Nat \ {0} /\ totalDiskSectors = DISK_TRACKS * W /\ totalDiskSectors \in Nat \ {0}
<1>1. DISK_TRACKS \in Nat \ {0} /\ DISK_CYLINDERS \in Nat \ {0} /\ DISK_SECTORS \in Nat \ {0}
  BY VfsAssumption
<1>2. \A a, b \in Nat \ {0} : a * b \in Nat \ {0}
  OBVIOUS
<1>3. W \in Nat \ {0}
  BY <1>1, <1>2 DEF W
<1>4. totalDiskSectors = DISK_TRACKS * W
  BY <1>1 DEF totalDiskSectors, W
<1> QED
  BY <1>1, <1>2, <1>3, <1>4

(* A place is a track, the number of its sector in the track is below W.   *)
InTrack(p) == p[2] * DISK_SECTORS + p[3]

LEMMA PlaceParts ==
  ASSUME NEW p \in Places
  PROVE  /\ p[1] \in Tracks /\ p[2] \in Cylinders /\ p[3] \in Sectors
         /\ p = <<p[1], p[2], p[3]>>
         /\ InTrack(p) \in 0 .. W - 1
         /\ Number(p) = p[1] * W + InTrack(p) /\ Number(p) \in Nat
<1>1. p[1] \in Tracks /\ p[2] \in Cylinders /\ p[3] \in Sectors /\ p = <<p[1], p[2], p[3]>>
  BY DEF Places
<1>2. p[1] \in Nat /\ p[2] \in Nat /\ p[3] \in Nat /\ p[3] <= DISK_SECTORS - 1
      /\ p[2] <= DISK_CYLINDERS - 1
  BY <1>1, Geometry DEF Tracks, Cylinders, Sectors
<1>3. p[2] * DISK_SECTORS <= (DISK_CYLINDERS - 1) * DISK_SECTORS /\ p[2] * DISK_SECTORS \in Nat
  <2>1. \A a, b, c \in Nat : a <= b => a * c <= b * c /\ a * c \in Nat
    OBVIOUS
  <2>2. DISK_CYLINDERS - 1 \in Nat
    BY Geometry
  <2> QED
    BY <1>2, <2>1, <2>2, Geometry
<1>4. (DISK_CYLINDERS - 1) * DISK_SECTORS = W - DISK_SECTORS
  BY Geometry DEF W
<1>5. InTrack(p) \in 0 .. W - 1
  BY <1>2, <1>3, <1>4, Geometry DEF InTrack
<1>6. p[1] * W \in Nat
  BY <1>2, Geometry
<1>7. Number(p) = p[1] * W + InTrack(p)
  BY <1>2, <1>3, <1>6 DEF Number, InTrack, W
<1> QED
  BY <1>1, <1>5, <1>6, <1>7

LEMMA Behind ==
  /\ <<DISK_TRACKS, 0, 0>> \notin Places
  /\ Number(<<DISK_TRACKS, 0, 0>>) = totalDiskSectors
<1>1. <<DISK_TRACKS, 0, 0>> \notin Places
  BY Geometry DEF Places, Tracks
<1>2. Number(<<DISK_TRACKS, 0, 0>>) = DISK_TRACKS * W
  BY Geometry DEF Number, W
<1> QED
  BY <1>1, <1>2, Geometry

(* The places of the disk have the numbers below the total. *)
LEMMA NumberRange ==
  ASSUME NEW p \in Cursor
  PROVE  /\ Number(p) \in 0 .. totalDiskSectors
         /\ p \in Places <=> Number(p) < totalDiskSectors
<1>1. CASE p \in Places
  <2>1. p[1] \in Nat /\ p[1] + 1 <= DISK_TRACKS
    BY <1>1, PlaceParts, Geometry DEF Tracks
  <2>2. (p[1] + 1) * W <= DISK_TRACKS * W
    BY <2>1, Geometry
  <2>3. (p[1] + 1) * W = p[1] * W + W
    BY <2>1, Geometry
  <2>4. p[1] * W \in Nat
    BY <2>1, Geometry
  <2> QED
    BY <1>1, <2>2, <2>3, <2>4, PlaceParts, Geometry
<1>2. CASE p = <<DISK_TRACKS, 0, 0>>
  BY <1>2, Behind, Geometry
<1> QED
  BY <1>1, <1>2 DEF Cursor

(* The next place has the next number. *)
LEMMA NextNumber ==
  ASSUME NEW p \in Places
  PROVE  NextPlace(p) \in Cursor /\ Number(NextPlace(p)) = Number(p) + 1
<1>1. p[1] \in Nat /\ p[2] \in Nat /\ p[3] \in Nat
      /\ p[1] < DISK_TRACKS /\ p[2] < DISK_CYLINDERS /\ p[3] < DISK_SECTORS
  BY PlaceParts, Geometry DEF Tracks, Cylinders, Sectors
<1> DEFINE x == p[1] * W
           y == p[2] * DISK_SECTORS
<1>2. x \in Nat /\ y \in Nat /\ W \in Nat
  BY <1>1, Geometry
<1>n. Number(p) = x + y + p[3]
  BY DEF Number, W
<1>3. CASE p[3] + 1 < DISK_SECTORS
  <2>1. NextPlace(p) = <<p[1], p[2], p[3] + 1>>
    BY <1>3 DEF NextPlace
  <2>2. NextPlace(p) \in Places
    BY <1>1, <1>3, <2>1, Geometry DEF Places, Tracks, Cylinders, Sectors
  <2>3. Number(NextPlace(p)) = x + y + (p[3] + 1)
    BY <2>1 DEF Number, W
  <2> HIDE DEF x, y
  <2> QED
    BY <1>1, <1>2, <1>n, <2>2, <2>3 DEF Cursor
<1>4. CASE p[3] + 1 = DISK_SECTORS /\ p[2] + 1 < DISK_CYLINDERS
  <2>1. NextPlace(p) = <<p[1], p[2] + 1, 0>>
    BY <1>1, <1>4, Geometry DEF NextPlace
  <2>2. NextPlace(p) \in Places
    BY <1>1, <1>4, <2>1, Geometry DEF Places, Tracks, Cylinders, Sectors
  <2> DEFINE z == (p[2] + 1) * DISK_SECTORS
  <2>3. z = y + p[3] + 1
    BY <1>1, <1>4, Geometry
  <2>4. Number(NextPlace(p)) = x + z + 0
    BY <2>1 DEF Number, W
  <2> HIDE DEF x, y, z
  <2> QED
    BY <1>1, <1>2, <1>n, <2>2, <2>3, <2>4 DEF Cursor
<1>5. CASE p[3] + 1 = DISK_SECTORS /\ p[2] + 1 = DISK_CYLINDERS
  <2>1. NextPlace(p) = <<p[1] + 1, 0, 0>>
    BY <1>1, <1>5, Geometry DEF NextPlace
  <2>2. NextPlace(p) \in Cursor
    BY <1>1, <2>1, Geometry DEF Cursor, Places, Tracks, Cylinders, Sectors
  <2>3. (p[2] + 1) * DISK_SECTORS = W /\ (p[2] + 1) * DISK_SECTORS = y + p[3] + 1
    BY <1>1, <1>5, Geometry DEF W
  <2>4. (p[1] + 1) * W = x + W
    BY <1>1, Geometry
  <2>5. Number(NextPlace(p)) = (p[1] + 1) * W + 0 * DISK_SECTORS + 0 /\ 0 * DISK_SECTORS = 0
    BY <2>1, Geometry DEF Number, W
  <2> HIDE DEF x, y
  <2> QED
    BY <1>1, <1>2, <1>n, <2>2, <2>3, <2>4, <2>5
<1> QED
  BY <1>1, <1>3, <1>4, <1>5, Geometry

(* Euclidean division has one result. *)
LEMMA Digits ==
  ASSUME NEW w \in Nat \ {0}, NEW a \in Nat, NEW b \in Nat,
         NEW r \in 0 .. w - 1, NEW s \in 0 .. w - 1, a * w + r = b * w + s
  PROVE  a = b /\ r = s
<1>1. \A x, y \in Nat : x < y => x * w + w <= y * w
  <2> TAKE x, y \in Nat
  <2> HAVE x < y
  <2>1. (x + 1) * w <= y * w
    OBVIOUS
  <2>2. (x + 1) * w = x * w + w
    OBVIOUS
  <2> QED
    BY <2>1, <2>2
<1>2. a * w \in Nat /\ b * w \in Nat
  OBVIOUS
<1>3. /\ a < b => a * w + w <= b * w
      /\ b < a => b * w + w <= a * w
  BY <1>1
<1> DEFINE aw == a * w
           bw == b * w
<1>4. aw \in Nat /\ bw \in Nat /\ aw + r = bw + s
  BY <1>2
<1>5. (a < b => aw + w <= bw) /\ (b < a => bw + w <= aw)
  BY <1>3
<1>6. a = b => aw = bw
  OBVIOUS
<1> HIDE DEF aw, bw
<1>7. a = b
  BY <1>4, <1>5
<1> QED
  BY <1>4, <1>6, <1>7

(* Two places have different numbers. *)
LEMMA NumberInjective ==
  ASSUME NEW p \in Places, NEW q \in Places, Number(p) = Number(q)
  PROVE  p = q
<1>1. p[1] \in Nat /\ q[1] \in Nat /\ p[2] \in Nat /\ q[2] \in Nat
      /\ p[3] \in 0 .. DISK_SECTORS - 1 /\ q[3] \in 0 .. DISK_SECTORS - 1
  BY PlaceParts, Geometry DEF Tracks, Cylinders, Sectors
<1>2. p[1] = q[1] /\ InTrack(p) = InTrack(q)
  BY <1>1, PlaceParts, Geometry, Digits
<1>3. p[2] * DISK_SECTORS + p[3] = q[2] * DISK_SECTORS + q[3]
  BY <1>2 DEF InTrack
<1>4. p[2] = q[2] /\ p[3] = q[3]
  <2> DEFINE a == p[2]
             b == q[2]
             m == p[3]
             n == q[3]
  <2>1. /\ a \in Nat /\ b \in Nat
        /\ m \in 0 .. DISK_SECTORS - 1 /\ n \in 0 .. DISK_SECTORS - 1
        /\ a * DISK_SECTORS + m = b * DISK_SECTORS + n
    BY <1>1, <1>3
  <2> HIDE DEF a, b, m, n
  <2>2. a = b /\ m = n
    BY <2>1, Geometry, Digits
  <2> QED
    BY <2>2 DEF a, b, m, n
<1> QED
  BY <1>2, <1>4, PlaceParts

-----------------------------------------------------------------------------
(*                         The inductive invariant                         *)

(* The n sectors from start on hold the first n words of path's program,   *)
(* or what a program has put there.                                        *)
Content(disk, path, start, n) ==
  \A p \in Places : Number(p) \in Number(start) .. Number(start) + n - 1 =>
    \/ disk[p] = ProgramWord(path, Number(p) - Number(start))
    \/ p \in DmaPlaces /\ disk[p] = Alien

GoodEntry(disk, entry) ==
  /\ entry.words = HostFiles[entry.path].wordCount
  /\ entry.name = HostFiles[entry.path].name
  /\ Content(disk, entry.path, entry.start, entry.words)

(* Where the catalogued programs end: a program that is being written is   *)
(* behind them.                                                            *)
Bound == IF call.pc = "write" THEN Number(call.start) ELSE Number(free)

Entries ==
  \A k \in DOMAIN diskCatalog :
    /\ GoodEntry(DISK, diskCatalog[k])
    /\ Number(diskCatalog[k].start) + diskCatalog[k].words <= Bound

Ordered ==
  \A j, k \in DOMAIN diskCatalog :
    j < k => Number(diskCatalog[j].start) + diskCatalog[j].words
               <= Number(diskCatalog[k].start)

Writing ==
  call.pc = "write" =>
    /\ call.path \in DOMAIN HostFiles
    /\ call.words = HostFiles[call.path].wordCount
    /\ Number(free) = Number(call.start) + call.i
    /\ call.i <= call.words \/ call.i = 0
    /\ Number(call.start) + call.words <= totalDiskSectors
    /\ Content(DISK, call.path, call.start, call.i)

Looking == call.pc = "lookup" => call.i = 0 /\ call.loaded = <<>>

(* The call copies the entry k. *)
CopyOf(k) ==
  /\ k \in DOMAIN diskCatalog
  /\ call.path = diskCatalog[k].path /\ call.words = diskCatalog[k].words
  /\ Matches(diskCatalog[k], call.id)
  /\ Number(call.at) = Number(diskCatalog[k].start) + call.i

Copying ==
  call.pc \in {"copy", "loaded"} =>
    /\ \E k \in DOMAIN diskCatalog : CopyOf(k)
    /\ call.i <= call.words /\ Len(call.loaded) = call.i
    /\ call.pc = "loaded" => call.i >= call.words
    /\ \A j \in 1 .. call.i : call.loaded[j] \in {ProgramWord(call.path, j - 1), Alien}
    /\ call.base + call.words + MIN_STACK_SIZE <= RAM_SIZE

IInv == TypeOK /\ Entries /\ Ordered /\ Writing /\ Looking /\ Copying

-----------------------------------------------------------------------------
(* What the invariant says of the catalog does not depend on the call,     *)
(* except for where the programs end.                                      *)
LEMMA SameCatalog ==
  ASSUME IInv, UNCHANGED diskCatalog, Bound' >= Bound,
         Number(free) \in Int, Number(free)' \in Int, Number(call.start) \in Int,
         Number(call.start)' \in Int,
         \A k \in DOMAIN diskCatalog :
           Content(DISK', diskCatalog[k].path, diskCatalog[k].start, diskCatalog[k].words)
  PROVE  Entries' /\ Ordered'
<1>1. diskCatalog \in Seq(Entry)
  BY DEF IInv, TypeOK
<1>2. ASSUME NEW k \in DOMAIN diskCatalog
      PROVE  Number(diskCatalog[k].start) + diskCatalog[k].words <= Bound'
  <2>0. diskCatalog[k] \in Entry
    BY <1>1
  <2>1. diskCatalog[k].start \in Cursor /\ diskCatalog[k].words \in Int
    BY <2>0 DEF Entry
  <2>2. Number(diskCatalog[k].start) \in Int
    BY <2>1, NumberRange, Geometry
  <2>3. Number(diskCatalog[k].start) + diskCatalog[k].words <= Bound
    BY DEF IInv, Entries
  <2>4. Bound \in Int /\ Bound' \in Int
    BY DEF Bound
  <2> QED
    BY <2>1, <2>2, <2>3, <2>4
<1>3. \A k \in DOMAIN diskCatalog : GoodEntry(DISK', diskCatalog[k])
  BY DEF IInv, Entries, GoodEntry
<1>4. Entries'
  BY <1>2, <1>3 DEF Entries
<1> QED
  BY <1>4 DEF IInv, Ordered

LEMMA CursorNumbers ==
  ASSUME TypeOK
  PROVE  /\ Number(free) \in 0 .. totalDiskSectors
         /\ Number(call.start) \in 0 .. totalDiskSectors
         /\ Number(call.at) \in 0 .. totalDiskSectors
         /\ totalDiskSectors \in Nat
         /\ \A k \in DOMAIN diskCatalog :
              /\ diskCatalog[k] \in Entry /\ diskCatalog[k].words \in Int
              /\ diskCatalog[k].start \in Cursor
              /\ Number(diskCatalog[k].start) \in 0 .. totalDiskSectors
<1>1. free \in Cursor /\ call.start \in Cursor /\ call.at \in Cursor
  BY DEF TypeOK, Call
<1>2. \A k \in DOMAIN diskCatalog : diskCatalog[k] \in Entry
  BY DEF TypeOK
<1>3. \A k \in DOMAIN diskCatalog : diskCatalog[k].words \in Int /\ diskCatalog[k].start \in Cursor
  BY <1>2 DEF Entry
<1> QED
  BY <1>1, <1>2, <1>3, NumberRange, Geometry

LEMMA Start ==
  /\ <<0, 0, 0>> \in Places /\ <<0, 0, 0>> \in Cursor /\ Number(<<0, 0, 0>>) = 0
  /\ Prompt \in Call
<1>1. <<0, 0, 0>> \in Places
  BY Geometry DEF Places, Tracks, Cylinders, Sectors
<1>2. Number(<<0, 0, 0>>) = 0
  <2>1. Number(<<0, 0, 0>>) = 0 * W + 0 * DISK_SECTORS + 0
    BY DEF Number, W
  <2>2. 0 * W = 0 /\ 0 * DISK_SECTORS = 0
    BY Geometry
  <2> QED
    BY <2>1, <2>2
<1>3. <<0, 0, 0>> \in Cursor
  BY <1>1 DEF Cursor
<1>4. <<>> \in Seq(DiskWord)
  OBVIOUS
<1>5. Prompt \in Call
  BY <1>3, <1>4 DEF Prompt, Call
<1> QED
  BY <1>1, <1>2, <1>3, <1>5

LEMMA InitIInv == Init => IInv
<1> SUFFICES ASSUME Init PROVE IInv
  OBVIOUS
<1>1. TypeOK
  <2>1. DISK \in [Places -> DiskWord]
    BY DEF Init, DiskWord
  <2>2. diskCatalog \in Seq(Entry) /\ Len(diskCatalog) <= MAX_PROCESSES
    BY GeometryAssumption DEF Init
  <2> QED
    BY <2>1, <2>2, Start DEF Init, TypeOK
<1>2. Entries /\ Ordered
  BY DEF Init, Entries, Ordered
<1>3. Writing /\ Looking /\ Copying
  BY DEF Init, Writing, Looking, Copying, Prompt
<1> QED
  BY <1>1, <1>2, <1>3 DEF IInv

-----------------------------------------------------------------------------
(*                       Every step preserves it                           *)

LEMMA CreateCallStep ==
  ASSUME IInv, NEW id \in Identifiers, CreateCall(id)
  PROVE  IInv'
<1>0. TypeOK
  BY DEF IInv
<1>1. UNCHANGED <<diskCatalog, free, DISK>> /\ call.pc = "prompt"
  BY DEF CreateCall
<1>2. CASE call' = [Prompt EXCEPT !.pc = "lookup", !.id = id]
  <2>1. /\ call' \in Call /\ call'.pc = "lookup" /\ call'.start = <<0, 0, 0>>
        /\ call'.i = 0 /\ call'.loaded = <<>>
    BY <1>2, Start DEF Prompt, Call
  <2>2. Bound = Number(free) /\ Bound' = Number(free)
    BY <1>1, <2>1 DEF Bound
  <2>3. Entries' /\ Ordered'
    BY <1>0, <1>1, <2>1, <2>2, SameCatalog, CursorNumbers, Start DEF IInv, Entries, GoodEntry
  <2>4. TypeOK' /\ Writing' /\ Looking' /\ Copying'
    BY <1>0, <1>1, <2>1 DEF TypeOK, Writing, Looking, Copying
  <2> QED
    BY <2>3, <2>4 DEF IInv
<1>3. CASE /\ id \in DOMAIN HostFiles
           /\ HasSpaceFor(HostFiles[id].wordCount)
           /\ call' = [Prompt EXCEPT !.pc = "write", !.id = id, !.path = id,
                                     !.words = HostFiles[id].wordCount, !.start = free]
  <2>1. HostFiles[id].wordCount \in Int /\ free \in Cursor
    BY <1>0, <1>3, VfsAssumption DEF TypeOK
  <2>2. /\ call' \in Call /\ call'.pc = "write" /\ call'.start = free /\ call'.path = id
        /\ call'.words = HostFiles[id].wordCount /\ call'.i = 0
    BY <1>3, <2>1, Start DEF Prompt, Call
  <2>3. Bound = Number(free) /\ Bound' = Number(free)
    BY <1>1, <2>2 DEF Bound
  <2>4. Entries' /\ Ordered'
    BY <1>0, <1>1, <2>2, <2>3, SameCatalog, CursorNumbers DEF IInv, Entries, GoodEntry
  <2>5. Content(DISK, id, free, 0)
    BY <1>0, CursorNumbers DEF Content
  <2>6. Number(free) + HostFiles[id].wordCount <= totalDiskSectors
    BY <1>0, <1>3, <2>1, CursorNumbers DEF HasSpaceFor
  <2>7. Number(free)' = Number(call'.start) + 0
    BY <1>0, <1>1, <2>2, CursorNumbers
  <2>8. Writing'
    BY <1>1, <1>3, <2>2, <2>5, <2>6, <2>7 DEF Writing
  <2>9. TypeOK' /\ Looking' /\ Copying'
    BY <1>0, <1>1, <2>2 DEF TypeOK, Looking, Copying
  <2> QED
    BY <2>4, <2>8, <2>9 DEF IInv
<1> QED
  BY <1>2, <1>3 DEF CreateCall

(* Writing a place that does not belong to the n sectors from start on.    *)
LEMMA ContentKept ==
  ASSUME TypeOK, NEW p \in Places, NEW data, NEW path, NEW start, NEW n,
         Number(p) \notin Number(start) .. Number(start) + n - 1,
         Content(DISK, path, start, n)
  PROVE  Content([DISK EXCEPT ![p] = data], path, start, n)
<1>1. \A q \in Places : q # p => [DISK EXCEPT ![p] = data][q] = DISK[q]
  BY DEF TypeOK
<1> QED
  BY <1>1 DEF Content

LEMMA LoadWordStep ==
  ASSUME IInv, vfsLoadWord
  PROVE  IInv'
<1>0. TypeOK /\ call \in Call
  BY DEF IInv, TypeOK
<1>1. /\ call.pc = "write" /\ call.i < call.words /\ call.i \in Nat /\ call.words \in Int
      /\ call.path \in DOMAIN HostFiles
      /\ call.words = HostFiles[call.path].wordCount
      /\ Number(free) = Number(call.start) + call.i
      /\ Number(call.start) + call.words <= totalDiskSectors
      /\ Content(DISK, call.path, call.start, call.i)
  BY <1>0 DEF vfsLoadWord, IInv, Writing, Call
<1>2. free \in Places
  BY <1>0, <1>1, CursorNumbers, NumberRange DEF TypeOK
<1> DEFINE data == ProgramWord(call.path, call.i)
           disk == [DISK EXCEPT ![free] = data]
<1>3. DISK' = disk /\ free' = NextPlace(free) /\ UNCHANGED diskCatalog
  BY <1>2 DEF vfsLoadWord, writeSector
<1>4. /\ call' \in Call /\ call'.pc = "write" /\ call'.i = call.i + 1 /\ call'.path = call.path
      /\ call'.words = call.words /\ call'.start = call.start
  <2>1. call' = [call EXCEPT !.i = call.i + 1]
    BY DEF vfsLoadWord
  <2>2. call.i + 1 \in Nat
    BY <1>1
  <2>3. call' \in Call
    BY <1>0, <2>1, <2>2 DEF Call
  <2>4. call'.i = call.i + 1
    BY <1>0, <2>1 DEF Call
  <2>5. /\ call'.pc = call.pc /\ call'.path = call.path
        /\ call'.words = call.words /\ call'.start = call.start
    BY <1>0, <2>1 DEF Call
  <2> QED
    BY <1>1, <2>3, <2>4, <2>5
<1>5. free' \in Cursor /\ Number(free') = Number(call.start) + call.i + 1
  BY <1>0, <1>1, <1>2, <1>3, NextNumber, CursorNumbers
<1>6. data \in DiskWord
  BY <1>1 DEF ProgramWord, DiskWord
<1>7. TypeOK'
  <2>1. DISK' \in [Places -> DiskWord]
    BY <1>0, <1>2, <1>3, <1>6 DEF TypeOK
  <2> QED
    BY <1>0, <1>3, <1>4, <1>5, <2>1 DEF TypeOK
<1>8. Entries' /\ Ordered'
  <2>1. Bound = Number(call.start) /\ Bound' = Number(call.start)
    BY <1>1, <1>4 DEF Bound
  <2>2. ASSUME NEW k \in DOMAIN diskCatalog
        PROVE  Content(disk, diskCatalog[k].path, diskCatalog[k].start, diskCatalog[k].words)
    <3>1. /\ Number(diskCatalog[k].start) + diskCatalog[k].words <= Number(call.start)
          /\ Content(DISK, diskCatalog[k].path, diskCatalog[k].start, diskCatalog[k].words)
      BY <2>1 DEF IInv, Entries, GoodEntry
    <3>2. Number(free) \notin Number(diskCatalog[k].start)
                                .. Number(diskCatalog[k].start) + diskCatalog[k].words - 1
      BY <1>0, <1>1, <3>1, CursorNumbers
    <3> HIDE DEF data
    <3> QED
      BY <1>0, <1>2, <3>1, <3>2, ContentKept
  <2>3. Number(free)' \in Int /\ Number(free) \in Int /\ Number(call.start) \in Int
        /\ Number(call.start)' \in Int
    BY <1>0, <1>1, <1>4, <1>5, CursorNumbers
  <2> HIDE DEF disk
  <2> QED
    BY <1>3, <2>1, <2>2, <2>3, SameCatalog
<1>9. Content(disk, call.path, call.start, call.i + 1)
  <2> SUFFICES ASSUME NEW p \in Places,
                      Number(p) \in Number(call.start) .. Number(call.start) + (call.i + 1) - 1
               PROVE  \/ disk[p] = ProgramWord(call.path, Number(p) - Number(call.start))
                      \/ p \in DmaPlaces /\ disk[p] = Alien
    BY DEF Content
  <2>1. CASE p = free
    <3>1. Number(p) - Number(call.start) = call.i
      BY <1>0, <1>1, <2>1, CursorNumbers
    <3>2. disk[p] = data
      BY <1>0, <1>2, <2>1 DEF TypeOK
    <3> QED
      BY <3>1, <3>2
  <2>2. CASE p # free
    <3>1. Number(p) # Number(free)
      BY <1>2, <2>2, NumberInjective
    <3>2. Number(p) \in Number(call.start) .. Number(call.start) + call.i - 1
      BY <1>0, <1>1, <3>1, CursorNumbers
    <3>3. disk[p] = DISK[p]
      BY <1>0, <2>2 DEF TypeOK
    <3> HIDE DEF disk
    <3> QED
      BY <1>1, <3>2, <3>3 DEF Content
  <2> QED
    BY <2>1, <2>2
<1>10. Writing'
  <2> HIDE DEF disk
  <2>1. Content(DISK', call'.path, call'.start, call'.i)
    BY <1>3, <1>4, <1>9
  <2>2. Number(free') = Number(call'.start) + call'.i
    BY <1>0, <1>1, <1>4, <1>5, CursorNumbers
  <2> QED
    BY <1>1, <1>4, <2>1, <2>2 DEF Writing
<1>11. Looking' /\ Copying'
  BY <1>4 DEF Looking, Copying
<1> QED
  BY <1>7, <1>8, <1>10, <1>11 DEF IInv

(* A step that only ends the call, or only begins to look the program up.  *)
LEMMA CallOnly ==
  ASSUME IInv, UNCHANGED <<diskCatalog, free, DISK>>, call' \in Call,
         call'.pc \in {"prompt", "lookup"},
         call'.pc = "lookup" => call'.i = 0 /\ call'.loaded = <<>>
  PROVE  IInv'
<1>0. TypeOK
  BY DEF IInv
<1>1. Bound \in Int /\ Bound' = Number(free) /\ Bound <= Number(free)
  <2>0. call.i \in Nat
    BY <1>0 DEF TypeOK, Call
  <2>1. CASE call.pc = "write"
    <3>1. Number(free) = Number(call.start) + call.i /\ Bound = Number(call.start)
      BY <2>1 DEF Bound, IInv, Writing
    <3>2. Bound' = Number(free)
      BY DEF Bound
    <3>3. Number(free) \in Int /\ Number(call.start) \in Int
      BY <1>0, CursorNumbers
    <3> QED
      BY <2>0, <3>1, <3>2, <3>3
  <2>2. CASE call.pc # "write"
    BY <1>0, <2>2, CursorNumbers DEF Bound
  <2> QED
    BY <2>1, <2>2
<1>2. Number(call.start)' \in Int
  <2>1. call'.start \in Cursor
    BY DEF Call
  <2> QED
    BY <2>1, NumberRange, Geometry
<1>3. Entries' /\ Ordered'
  BY <1>0, <1>1, <1>2, SameCatalog, CursorNumbers DEF IInv, Entries, GoodEntry
<1>4. TypeOK' /\ Writing' /\ Looking' /\ Copying'
  BY <1>0 DEF TypeOK, Writing, Looking, Copying
<1> QED
  BY <1>3, <1>4 DEF IInv

LEMMA RegisterStep ==
  ASSUME IInv, vfsRegisterFile
  PROVE  IInv'
<1>0. TypeOK /\ call \in Call
  BY DEF IInv, TypeOK
<1>1. /\ call.pc = "write" /\ call.i >= call.words /\ call.i \in Nat /\ call.words \in Int
      /\ call.path \in DOMAIN HostFiles /\ call.start \in Cursor
      /\ call.id \in Identifiers \union {""}
      /\ call.words = HostFiles[call.path].wordCount
      /\ Number(free) = Number(call.start) + call.i
      /\ call.i <= call.words \/ call.i = 0
      /\ Content(DISK, call.path, call.start, call.i)
  BY <1>0 DEF vfsRegisterFile, IInv, Writing, Call
<1>2. CASE Len(diskCatalog) >= MAX_PROCESSES
  <2>1. call' = Prompt /\ UNCHANGED <<diskCatalog, free, DISK>>
    BY <1>2 DEF vfsRegisterFile
  <2>2. call' \in Call /\ call'.pc = "prompt"
    BY <2>1, Start DEF Prompt
  <2> QED
    BY <2>1, <2>2, CallOnly
<1>3. CASE ~(Len(diskCatalog) >= MAX_PROCESSES)
  <2> DEFINE e == [path |-> call.path, name |-> HostFiles[call.path].name,
                   start |-> call.start, words |-> call.words]
             n == Len(diskCatalog)
  <2>1. /\ diskCatalog' = Append(diskCatalog, e) /\ UNCHANGED <<free, DISK>>
        /\ call' = [Prompt EXCEPT !.pc = "lookup", !.id = call.id]
    BY <1>3 DEF vfsRegisterFile, StartOfCall
  <2>2. call' \in Call /\ call'.pc = "lookup" /\ call'.i = 0 /\ call'.loaded = <<>>
    BY <1>1, <2>1, Start DEF Prompt, Call
  <2>3. /\ e \in Entry /\ e.path = call.path /\ e.name = HostFiles[call.path].name
        /\ e.start = call.start /\ e.words = call.words
    BY <1>1 DEF Entry
  <2>4. diskCatalog \in Seq(Entry) /\ n \in Nat
    BY <1>0 DEF TypeOK
  <2> HIDE DEF e
  <2>5. /\ diskCatalog' \in Seq(Entry) /\ Len(diskCatalog') = n + 1
        /\ DOMAIN diskCatalog' = 1 .. n + 1 /\ DOMAIN diskCatalog = 1 .. n
        /\ \A k \in 1 .. n : diskCatalog'[k] = diskCatalog[k]
        /\ diskCatalog'[n + 1] = e
    BY <2>1, <2>3, <2>4
  <2>6. TypeOK'
    BY <1>0, <1>3, <2>1, <2>2, <2>4, <2>5, GeometryAssumption DEF TypeOK
  <2>7. /\ Number(call.start) \in Int /\ Number(free) \in Int
        /\ Number(free) = Number(call.start) + call.i
        /\ call.i \in Nat /\ call.words \in Int /\ call.i >= call.words
        /\ call.i <= call.words \/ call.i = 0
    <3>1. Number(call.start) \in Int /\ Number(free) \in Int
      BY <1>0, CursorNumbers
    <3> QED
      BY <1>1, <3>1
  <2>8. Bound = Number(call.start) /\ Bound' = Number(free)
    BY <1>1, <2>1, <2>2 DEF Bound
  <2>9. \A k \in 1 .. n :
          /\ GoodEntry(DISK, diskCatalog[k])
          /\ Number(diskCatalog[k].start) + diskCatalog[k].words <= Number(call.start)
          /\ Number(diskCatalog[k].start) \in Int /\ diskCatalog[k].words \in Int
    BY <1>0, <2>5, <2>8, CursorNumbers DEF IInv, Entries
  <2>10. /\ Number(call.start) + call.words <= Number(free)
         /\ Number(call.start) <= Number(free)
    BY <2>7
  <2>11. GoodEntry(DISK, e)
    <3>1. CASE call.i = call.words
      BY <1>1, <2>3, <3>1 DEF GoodEntry
    <3>2. CASE call.words <= 0
      <4>1. Content(DISK, call.path, call.start, call.words)
        BY <2>7, <3>2 DEF Content
      <4> QED
        BY <1>1, <2>3, <4>1 DEF GoodEntry
    <3> QED
      BY <2>7, <3>1, <3>2
  <2>12. Entries'
    <3> SUFFICES ASSUME NEW k \in 1 .. n + 1
                 PROVE  /\ GoodEntry(DISK', diskCatalog'[k])
                        /\ Number(diskCatalog'[k].start) + diskCatalog'[k].words <= Number(free)
      BY <2>5, <2>8 DEF Entries
    <3>1. CASE k \in 1 .. n
      BY <2>1, <2>5, <2>7, <2>9, <2>10, <3>1
    <3>2. CASE k = n + 1
      BY <2>1, <2>3, <2>5, <2>10, <2>11, <3>2
    <3> QED
      BY <2>4, <3>1, <3>2
  <2>13. Ordered'
    <3> SUFFICES ASSUME NEW j \in 1 .. n + 1, NEW k \in 1 .. n + 1, j < k
                 PROVE  Number(diskCatalog'[j].start) + diskCatalog'[j].words
                          <= Number(diskCatalog'[k].start)
      BY <2>5 DEF Ordered
    <3>1. j \in 1 .. n /\ diskCatalog'[j] = diskCatalog[j]
      BY <2>4, <2>5
    <3>2. CASE k \in 1 .. n
      BY <2>5, <3>1, <3>2 DEF IInv, Ordered
    <3>3. CASE k = n + 1
      BY <2>3, <2>5, <2>9, <3>1, <3>3
    <3> QED
      BY <2>4, <3>2, <3>3
  <2>14. Writing' /\ Looking' /\ Copying'
    BY <2>2 DEF Writing, Looking, Copying
  <2> QED
    BY <2>6, <2>12, <2>13, <2>14 DEF IInv
<1> QED
  BY <1>2, <1>3

(* A partition that createProcess is given holds the program and its stack. *)
LEMMA PartitionHolds ==
  ASSUME NEW words \in Int, NEW start \in Nat,
         CalculateRequiredBlocks(words) > 0,
         start \in 0 .. MAX_PROCESSES - CalculateRequiredBlocks(words)
  PROVE  /\ words > 0 /\ GET_BASE_REGISTER(start) \in Int
         /\ GET_BASE_REGISTER(start) + words + MIN_STACK_SIZE <= RAM_SIZE
<1> DEFINE n == CalculateRequiredBlocks(words)
<1>1. n \in 1 .. MAX_PROCESSES /\ words > 0 /\ Fits(words, n)
  BY RequiredBlocksMeaning, RequiredBlocksType DEF RequiredBlocksMinimal
<1>2. PARTITION_SIZE \in Nat /\ MAX_PROCESSES \in Nat /\ OS_RESERVED_SIZE \in Nat
      /\ RAM_SIZE \in Nat /\ MIN_STACK_SIZE \in Nat
      /\ OS_RESERVED_SIZE + MAX_PROCESSES * PARTITION_SIZE <= RAM_SIZE
  BY GeometryAssumption
<1>3. start + n <= MAX_PROCESSES
  BY <1>1, <1>2
<1> HIDE DEF n
<1>4. (start + n) * PARTITION_SIZE <= MAX_PROCESSES * PARTITION_SIZE
  BY <1>1, <1>2, <1>3
<1>5. (start + n) * PARTITION_SIZE = start * PARTITION_SIZE + n * PARTITION_SIZE
  BY <1>1, <1>2
<1>6. start * PARTITION_SIZE \in Nat /\ n * PARTITION_SIZE \in Nat
      /\ MAX_PROCESSES * PARTITION_SIZE \in Nat
  BY <1>1, <1>2
<1>7. n * PARTITION_SIZE >= words + MIN_STACK_SIZE
  BY <1>1 DEF Fits
<1> QED
  BY <1>1, <1>2, <1>4, <1>5, <1>6, <1>7 DEF GET_BASE_REGISTER

LEMMA LookupStep ==
  ASSUME IInv, Lookup
  PROVE  IInv'
<1>0. TypeOK /\ call \in Call
  BY DEF IInv, TypeOK
<1>1. UNCHANGED <<diskCatalog, free, DISK>> /\ call.pc = "lookup"
  BY DEF Lookup
<1>2. PICK k \in DOMAIN diskCatalog :
        LET meta == diskCatalog[k]
            required == CalculateRequiredBlocks(meta.words)
        IN  /\ vfsGetMetadata(call.id, k)
            /\ \/ call' = Prompt
               \/ /\ required > 0
                  /\ \E start \in 0 .. MAX_PROCESSES - required :
                       call' = [call EXCEPT !.pc = "copy", !.path = meta.path,
                                  !.words = meta.words, !.at = meta.start,
                                  !.base = GET_BASE_REGISTER(start)]
  BY DEF Lookup
<1>3. CASE call' = Prompt
  <2>1. call' \in Call /\ call'.pc = "prompt"
    BY <1>3, Start DEF Prompt
  <2> QED
    BY <1>1, <2>1, CallOnly
<1>4. CASE call' # Prompt
  <2> DEFINE words == diskCatalog[k].words
             required == CalculateRequiredBlocks(words)
  <2>1. required > 0
    BY <1>2, <1>4
  <2>2. PICK start \in 0 .. MAX_PROCESSES - required :
          call' = [call EXCEPT !.pc = "copy", !.path = diskCatalog[k].path,
                     !.words = words, !.at = diskCatalog[k].start,
                     !.base = GET_BASE_REGISTER(start)]
    BY <1>2, <1>4
  <2>3. /\ diskCatalog[k] \in Entry /\ words \in Int /\ diskCatalog[k].start \in Cursor
        /\ diskCatalog[k].path \in DOMAIN HostFiles
        /\ Number(diskCatalog[k].start) \in Nat
    BY <1>0, CursorNumbers DEF Entry
  <2>4. start \in Nat
    BY <2>3, RequiredBlocksType, GeometryAssumption
  <2> HIDE DEF words, required
  <2>5. /\ words > 0 /\ GET_BASE_REGISTER(start) \in Int
        /\ GET_BASE_REGISTER(start) + words + MIN_STACK_SIZE <= RAM_SIZE
    BY <2>1, <2>2, <2>3, <2>4, PartitionHolds DEF required
  <2>6. call' \in Call
    BY <1>0, <2>2, <2>3, <2>5 DEF Call
  <2>7. /\ call'.pc = "copy" /\ call'.path = diskCatalog[k].path /\ call'.words = words
        /\ call'.at = diskCatalog[k].start /\ call'.base = GET_BASE_REGISTER(start)
    BY <1>0, <2>2 DEF Call
  <2>8. call'.i = 0 /\ call'.loaded = <<>> /\ call'.id = call.id /\ call'.start = call.start
    <3>1. call'.i = call.i /\ call'.loaded = call.loaded /\ call'.id = call.id
          /\ call'.start = call.start
      BY <1>0, <2>2 DEF Call
    <3> QED
      BY <1>1, <3>1 DEF IInv, Looking
  <2>9. Matches(diskCatalog[k], call.id)
    BY <1>2 DEF vfsGetMetadata
  <2>10. CopyOf(k)'
    <3>1. Number(call'.at) = Number(diskCatalog'[k].start) + call'.i
      BY <1>1, <2>3, <2>7, <2>8
    <3> QED
      BY <1>1, <2>7, <2>8, <2>9, <3>1 DEF CopyOf, words, Matches
  <2>11. Copying'
    <3>1. \E m \in DOMAIN diskCatalog' : CopyOf(m)'
      BY <1>1, <2>10
    <3>2. call'.i <= call'.words /\ Len(call'.loaded) = call'.i
      BY <2>3, <2>5, <2>7, <2>8 DEF words
    <3>3. \A j \in 1 .. call'.i : call'.loaded[j] \in {ProgramWord(call'.path, j - 1), Alien}
      BY <2>8
    <3> QED
      BY <2>5, <2>7, <3>1, <3>2, <3>3 DEF Copying
  <2>12. Entries' /\ Ordered'
    <3>1. Bound = Number(free) /\ Bound' = Number(free)
      BY <1>1, <2>7 DEF Bound
    <3> QED
      BY <1>0, <1>1, <2>8, <3>1, SameCatalog, CursorNumbers DEF IInv, Entries, GoodEntry
  <2>13. TypeOK' /\ Writing' /\ Looking'
    BY <1>0, <1>1, <2>6, <2>7 DEF TypeOK, Writing, Looking
  <2> QED
    BY <2>11, <2>12, <2>13 DEF IInv
<1> QED
  BY <1>3, <1>4

(* While a program is copied, only how far it is changes. *)
LEMMA CopyWordStep ==
  ASSUME IInv, CopyWord
  PROVE  IInv'
<1>0. TypeOK /\ call \in Call
  BY DEF IInv, TypeOK
<1>1. UNCHANGED <<diskCatalog, free, DISK>> /\ call.pc = "copy" /\ call.i < call.words
  BY DEF CopyWord
<1>2. PICK k \in DOMAIN diskCatalog : CopyOf(k)
  BY <1>1 DEF IInv, Copying
<1> DEFINE e == diskCatalog[k]
           data == readSector(call.at)
<1>3. /\ e.start \in Cursor /\ e.words \in Int /\ Number(e.start) \in Nat
      /\ Number(call.at) \in Nat /\ Number(free) \in 0 .. totalDiskSectors
      /\ totalDiskSectors \in Nat
  BY <1>0, CursorNumbers
<1>4. /\ call.i \in Nat /\ call.words = e.words /\ Number(call.at) = Number(e.start) + call.i
      /\ call.path = e.path /\ call.at \in Cursor
  BY <1>0, <1>2 DEF CopyOf, Call
<1>5. /\ GoodEntry(DISK, e) /\ Number(e.start) + e.words <= Number(free)
  BY <1>1 DEF IInv, Entries, Bound
<1>6. call.at \in Places
  <2>1. Number(call.at) < totalDiskSectors
    BY <1>1, <1>3, <1>4, <1>5
  <2> QED
    BY <1>4, <2>1, NumberRange
<1>7. NextPlace(call.at) \in Cursor /\ Number(NextPlace(call.at)) = Number(e.start) + (call.i + 1)
  <2>1. NextPlace(call.at) \in Cursor /\ Number(NextPlace(call.at)) = Number(call.at) + 1
    BY <1>6, NextNumber
  <2> QED
    BY <1>3, <1>4, <2>1
<1>8. data \in {ProgramWord(call.path, call.i), Alien} /\ data \in DiskWord
  <2>1. Number(call.at) \in Number(e.start) .. Number(e.start) + e.words - 1
        /\ Number(call.at) - Number(e.start) = call.i
    BY <1>1, <1>3, <1>4
  <2>2. DISK[call.at] \in {ProgramWord(call.path, call.i), Alien}
    BY <1>4, <1>5, <1>6, <2>1 DEF GoodEntry, Content
  <2>3. DISK[call.at] \in DiskWord
    BY <1>0, <1>6 DEF TypeOK
  <2> QED
    BY <1>6, <2>2, <2>3 DEF readSector
<1> HIDE DEF data
<1>9. call' = [call EXCEPT !.loaded = Append(call.loaded, data), !.at = NextPlace(call.at),
                           !.i = call.i + 1]
  BY DEF CopyWord, data
<1>10. /\ call.loaded \in Seq(DiskWord) /\ Len(call.loaded) = call.i
       /\ \A j \in 1 .. call.i : call.loaded[j] \in {ProgramWord(call.path, j - 1), Alien}
       /\ call.base + call.words + MIN_STACK_SIZE <= RAM_SIZE
  BY <1>0, <1>1 DEF IInv, Copying, Call
<1>11. /\ Append(call.loaded, data) \in Seq(DiskWord)
       /\ Len(Append(call.loaded, data)) = call.i + 1
       /\ \A j \in 1 .. call.i + 1 :
            Append(call.loaded, data)[j] \in {ProgramWord(call.path, j - 1), Alien}
  BY <1>4, <1>8, <1>10
<1>12. call.i + 1 \in Nat /\ call.i + 1 <= call.words
  BY <1>1, <1>3, <1>4
<1>13. call' \in Call
  BY <1>0, <1>7, <1>9, <1>11, <1>12 DEF Call
<1>14. /\ call'.pc = "copy" /\ call'.i = call.i + 1 /\ call'.at = NextPlace(call.at)
       /\ call'.loaded = Append(call.loaded, data)
  BY <1>0, <1>1, <1>9 DEF Call
<1>15. /\ call'.path = call.path /\ call'.words = call.words /\ call'.id = call.id
       /\ call'.base = call.base /\ call'.start = call.start
  BY <1>0, <1>9 DEF Call
<1>16. Copying'
  <2>1. CopyOf(k)'
    BY <1>1, <1>2, <1>7, <1>14, <1>15 DEF CopyOf, Matches
  <2>2. \E m \in DOMAIN diskCatalog' : CopyOf(m)'
    BY <1>1, <2>1
  <2> QED
    BY <1>10, <1>11, <1>12, <1>14, <1>15, <2>2 DEF Copying
<1>17. Entries' /\ Ordered'
  <2>1. Bound = Number(free) /\ Bound' = Number(free)
    BY <1>1, <1>14 DEF Bound
  <2> QED
    BY <1>0, <1>1, <1>15, <2>1, SameCatalog, CursorNumbers DEF IInv, Entries, GoodEntry
<1>18. TypeOK' /\ Writing' /\ Looking'
  BY <1>0, <1>1, <1>13, <1>14 DEF TypeOK, Writing, Looking
<1> QED
  BY <1>16, <1>17, <1>18 DEF IInv

LEMMA CopyDoneStep ==
  ASSUME IInv, CopyDone
  PROVE  IInv'
<1>0. TypeOK /\ call \in Call
  BY DEF IInv, TypeOK
<1>1. /\ UNCHANGED <<diskCatalog, free, DISK>> /\ call.pc = "copy" /\ call.i >= call.words
      /\ call' = [call EXCEPT !.pc = "loaded"]
  BY DEF CopyDone, Copied
<1>2. call' \in Call /\ call'.pc = "loaded"
  BY <1>0, <1>1 DEF Call
<1>3. /\ call'.path = call.path /\ call'.words = call.words /\ call'.id = call.id
      /\ call'.base = call.base /\ call'.start = call.start
      /\ call'.i = call.i /\ call'.at = call.at /\ call'.loaded = call.loaded
  BY <1>0, <1>1 DEF Call
<1>4. Copying'
  <2>1. PICK k \in DOMAIN diskCatalog : CopyOf(k)
    BY <1>1 DEF IInv, Copying
  <2>2. CopyOf(k)'
    BY <1>1, <1>3, <2>1 DEF CopyOf, Matches
  <2>3. \E m \in DOMAIN diskCatalog' : CopyOf(m)'
    BY <1>1, <2>2
  <2> QED
    BY <1>1, <1>2, <1>3, <2>3 DEF IInv, Copying
<1>5. Entries' /\ Ordered'
  <2>1. Bound = Number(free) /\ Bound' = Number(free)
    BY <1>1, <1>2 DEF Bound
  <2> QED
    BY <1>0, <1>1, <1>3, <2>1, SameCatalog, CursorNumbers DEF IInv, Entries, GoodEntry
<1>6. TypeOK' /\ Writing' /\ Looking'
  BY <1>0, <1>1, <1>2 DEF TypeOK, Writing, Looking
<1> QED
  BY <1>4, <1>5, <1>6 DEF IInv

LEMMA CreatedStep ==
  ASSUME IInv, Created
  PROVE  IInv'
<1>1. call' \in Call /\ call'.pc = "prompt"
  BY Start DEF Created, Prompt
<1> QED
  BY <1>1, CallOnly DEF Created

LEMMA DmaStep ==
  ASSUME IInv, DmaWriteDisk
  PROVE  IInv'
<1>0. TypeOK /\ UNCHANGED <<diskCatalog, free, call>>
  BY DEF IInv, DmaWriteDisk
<1>1. PICK p \in DmaPlaces : DISK' = writeSector(p, Alien)
  BY DEF DmaWriteDisk
<1>2. DISK' \in [Places -> DiskWord]
  BY <1>0, <1>1 DEF TypeOK, writeSector, DiskWord
<1>3. \A q \in Places : DISK'[q] = DISK[q] \/ (q \in DmaPlaces /\ DISK'[q] = Alien)
  BY <1>0, <1>1 DEF TypeOK, writeSector
<1>4. \A path, start, n : Content(DISK, path, start, n) => Content(DISK', path, start, n)
  BY <1>3 DEF Content
<1>5. Entries' /\ Ordered' /\ Writing'
  BY <1>0, <1>4 DEF IInv, Entries, GoodEntry, Bound, Ordered, Writing
<1>6. TypeOK' /\ Looking' /\ Copying'
  <2>1. \A k : CopyOf(k) => CopyOf(k)'
    BY <1>0 DEF CopyOf, Matches
  <2> QED
    BY <1>0, <1>2, <2>1 DEF IInv, TypeOK, Looking, Copying
<1> QED
  BY <1>5, <1>6 DEF IInv

LEMMA InvarianceStep == IInv /\ [Next]_vars => IInv'
<1> SUFFICES ASSUME IInv, [Next]_vars PROVE IInv'
  OBVIOUS
<1>1. CASE UNCHANGED vars
  <2>1. \A k : CopyOf(k)' <=> CopyOf(k)
    BY <1>1 DEF vars, CopyOf, Matches
  <2> QED
    BY <1>1, <2>1 DEF vars, IInv, TypeOK, Entries, GoodEntry, Bound, Ordered, Writing,
         Looking, Copying
<1> QED
  BY <1>1, CreateCallStep, LoadWordStep, RegisterStep, LookupStep, CopyWordStep,
     CopyDoneStep, CreatedStep, DmaStep DEF Next

THEOREM Invariance == Spec => []IInv
BY InitIInv, InvarianceStep, PTL DEF Spec

-----------------------------------------------------------------------------
(*                                Theorems                                 *)

(* The cursors never leave the disk by more than one place, the catalog    *)
(* never exceeds its array: for every size of disk and catalog and every   *)
(* sequence of files (vfsLoadToDisk, vfsRegisterFile, createProcess).      *)
THEOREM TypeCorrect == Spec => []TypeOK
<1>1. IInv => TypeOK
  BY DEF IInv
<1> QED
  BY <1>1, Invariance, PTL

LEMMA Apart == IInv => ExtentsDisjoint
<1> SUFFICES ASSUME IInv PROVE ExtentsDisjoint
  OBVIOUS
<1>0. TypeOK
  BY DEF IInv
<1>1. \A k \in DOMAIN diskCatalog :
        /\ diskCatalog[k].words \in Int
        /\ Number(diskCatalog[k].start) \in Nat
        /\ Number(diskCatalog[k].start) + diskCatalog[k].words <= Bound
  BY <1>0, CursorNumbers DEF IInv, Entries
<1>2. Bound \in Int /\ Number(free) \in Int /\ Bound <= Number(free)
  <2>0. call.i \in Nat
    BY <1>0 DEF TypeOK, Call
  <2>1. Number(free) \in Int /\ Number(call.start) \in Int
    BY <1>0, CursorNumbers
  <2>2. CASE call.pc = "write"
    <3>1. Number(free) = Number(call.start) + call.i
      BY <2>2 DEF IInv, Writing
    <3> QED
      BY <2>0, <2>1, <2>2, <3>1 DEF Bound
  <2>3. CASE call.pc # "write"
    BY <2>1, <2>3 DEF Bound
  <2> QED
    BY <2>2, <2>3
<1>3. ASSUME NEW k \in DOMAIN diskCatalog
      PROVE  Extent(diskCatalog[k]) \subseteq 0 .. Number(free) - 1
  BY <1>1, <1>2 DEF Extent
<1>4. ASSUME NEW j \in DOMAIN diskCatalog, NEW k \in DOMAIN diskCatalog, j < k
      PROVE  Extent(diskCatalog[j]) \cap Extent(diskCatalog[k]) = {}
  <2>1. Number(diskCatalog[j].start) + diskCatalog[j].words <= Number(diskCatalog[k].start)
    BY <1>4 DEF IInv, Ordered
  <2> QED
    BY <1>1, <2>1 DEF Extent
<1>5. DOMAIN diskCatalog \subseteq Int
  BY <1>0 DEF TypeOK
<1>6. ASSUME NEW j \in DOMAIN diskCatalog, NEW k \in DOMAIN diskCatalog, j # k
      PROVE  Extent(diskCatalog[j]) \cap Extent(diskCatalog[k]) = {}
  <2>1. j < k \/ k < j
    BY <1>5, <1>6
  <2> QED
    BY <1>4, <2>1
<1> QED
  BY <1>3, <1>6 DEF ExtentsDisjoint

(* No sector is given to two programs, and no catalogued one is free       *)
(* (vfsLoadToDisk's cursor).                                               *)
THEOREM Disjointness == Spec => []ExtentsDisjoint
BY Apart, Invariance, PTL

(* Storing a program disturbs none that was stored before, on every disk   *)
(* geometry: the cursor never comes back.                                  *)
THEOREM Storage == Spec => []CatalogFaithful
<1>1. IInv => CatalogFaithful
  BY DEF IInv, Entries, GoodEntry, Content, CatalogFaithful, Extent
<1> QED
  BY <1>1, Invariance, PTL

(* createProcess loads the program that was asked for, whole and in order, *)
(* and the partition has room for it and the stack.                        *)
THEOREM Loading == Spec => []LoadedExactly
<1>1. IInv => LoadedExactly
  <2> SUFFICES ASSUME IInv, call.pc = "loaded" PROVE LoadedExactly
    BY DEF LoadedExactly
  <2>0. call \in Call
    BY DEF IInv, TypeOK
  <2>1. PICK k \in DOMAIN diskCatalog : CopyOf(k)
    BY DEF IInv, Copying
  <2>2. call.words = HostFiles[call.path].wordCount
        /\ diskCatalog[k].name = HostFiles[call.path].name
    BY <2>1 DEF IInv, Entries, GoodEntry, CopyOf
  <2>3. call.id \in {call.path, HostFiles[call.path].name}
    BY <2>1, <2>2 DEF CopyOf, Matches
  <2>4. /\ call.i = call.words /\ Len(call.loaded) = call.i
        /\ \A j \in 1 .. call.i : call.loaded[j] \in {ProgramWord(call.path, j - 1), Alien}
        /\ call.base + call.words + MIN_STACK_SIZE <= RAM_SIZE
    <3>1. call.i \in Nat /\ call.words \in Int
      BY <2>0 DEF Call
    <3>2. call.i <= call.words /\ call.i >= call.words
      BY DEF IInv, Copying
    <3>3. call.i = call.words
      BY <3>1, <3>2
    <3> QED
      BY <3>3 DEF IInv, Copying
  <2> QED
    BY <2>2, <2>3, <2>4 DEF LoadedExactly
<1> QED
  BY <1>1, Invariance, PTL

-----------------------------------------------------------------------------
(*                                Diskstat                                 *)

(* The sector with number n is some program's. *)
InUse(n) == \E j \in DOMAIN diskCatalog : n \in Extent(diskCatalog[j])

(* There is no gap between the programs, nor, until the catalog is full,   *)
(* behind the last one (a program that was written and then refused lies   *)
(* behind all that are in the catalog).                                    *)
NoGaps ==
  /\ \A k \in DOMAIN diskCatalog : \A n \in 0 .. Number(diskCatalog[k].start) - 1 : InUse(n)
  /\ Len(diskCatalog) < MAX_PROCESSES => \A n \in 0 .. Bound - 1 : InUse(n)

StatType ==
  [pc : {"off", "entry", "word", "show"}, k : Nat, w : Nat, at : Cursor,
   occupiedSectors : Nat, diskMap : [Places -> Nat]]

Marked == {p \in Places : stat.diskMap[p] # 0}

(* How many words of entry j, counted up to k, have been counted. *)
WordsCounted(j) ==
  IF stat.pc = "word" /\ j = stat.k THEN stat.w ELSE diskCatalog[j].words

(* The map shows the words counted so far, each on its own sector. *)
StatInv ==
  /\ stat \in StatType
  /\ stat.pc = "off" => stat = NotRunning
  /\ stat.k <= Len(diskCatalog)
  /\ stat.pc = "show" => stat.k = Len(diskCatalog)
  /\ stat.pc = "word" =>
       /\ stat.k \in DOMAIN diskCatalog
       /\ Number(stat.at) = Number(diskCatalog[stat.k].start) + stat.w
       /\ stat.w <= diskCatalog[stat.k].words \/ stat.w = 0
  /\ \A p \in Places : stat.diskMap[p] <= stat.k
  /\ \A p \in Places : \A j \in 1 .. stat.k :
       stat.diskMap[p] = j <=>
         Number(p) \in Number(diskCatalog[j].start)
                         .. Number(diskCatalog[j].start) + WordsCounted(j) - 1
  /\ IsFiniteSet(Marked) /\ stat.occupiedSectors = Cardinality(Marked)

LEMMA SameNoGaps ==
  ASSUME NoGaps, UNCHANGED diskCatalog, Bound' = Bound
  PROVE  NoGaps'
BY DEF NoGaps, InUse, Extent

LEMMA RegisterNoGaps ==
  ASSUME IInv, NoGaps, vfsRegisterFile, Len(diskCatalog) < MAX_PROCESSES
  PROVE  NoGaps'
<1>0. TypeOK /\ call \in Call
  BY DEF IInv, TypeOK
<1>1. /\ call.pc = "write" /\ call.i >= call.words /\ call.i \in Nat /\ call.words \in Int
      /\ Number(free) = Number(call.start) + call.i
      /\ call.i <= call.words \/ call.i = 0
  BY <1>0 DEF vfsRegisterFile, IInv, Writing, Call
<1>n. Number(call.start) \in Nat /\ Number(free) \in Nat
  BY <1>0, CursorNumbers
<1> DEFINE e == [path |-> call.path, name |-> HostFiles[call.path].name,
                 start |-> call.start, words |-> call.words]
           n == Len(diskCatalog)
<1>2. /\ diskCatalog' = Append(diskCatalog, e) /\ UNCHANGED free
      /\ call' = [Prompt EXCEPT !.pc = "lookup", !.id = call.id]
  BY <1>0, GeometryAssumption DEF vfsRegisterFile, StartOfCall, TypeOK
<1>3. /\ e.start = call.start /\ e.words = call.words
      /\ diskCatalog \in Seq(Entry) /\ n \in Nat
  BY <1>0 DEF TypeOK
<1> HIDE DEF e
<1>4. /\ DOMAIN diskCatalog' = 1 .. n + 1 /\ DOMAIN diskCatalog = 1 .. n
      /\ \A k \in 1 .. n : diskCatalog'[k] = diskCatalog[k]
      /\ diskCatalog'[n + 1] = e
  BY <1>2, <1>3
<1>5. Bound = Number(call.start) /\ Bound' = Number(free)
  BY <1>1, <1>2 DEF Bound, Prompt
<1>6. \A m : InUse(m) => InUse(m)'
  BY <1>3, <1>4 DEF InUse
<1>7. \A m \in 0 .. Number(call.start) - 1 : InUse(m)'
  <2>1. \A m \in 0 .. Bound - 1 : InUse(m)
    BY DEF NoGaps
  <2> QED
    BY <1>5, <1>6, <2>1
<1>8. \A m \in Number(call.start) .. Number(call.start) + call.words - 1 : InUse(m)'
  <2>1. Extent(e) = Number(call.start) .. Number(call.start) + call.words - 1
    BY <1>3 DEF Extent
  <2>2. n + 1 \in DOMAIN diskCatalog' /\ Extent(diskCatalog'[n + 1]) = Extent(e)
    BY <1>3, <1>4
  <2> QED
    BY <2>1, <2>2 DEF InUse
<1>9. \A m \in 0 .. Bound' - 1 : InUse(m)'
  <2> SUFFICES ASSUME NEW m \in 0 .. Number(free) - 1 PROVE InUse(m)'
    BY <1>5
  <2>1. \/ m \in 0 .. Number(call.start) - 1
        \/ m \in Number(call.start) .. Number(call.start) + call.words - 1
    BY <1>1, <1>n
  <2> QED
    BY <1>7, <1>8, <2>1
<1>10. ASSUME NEW k \in DOMAIN diskCatalog', NEW m \in 0 .. Number(diskCatalog'[k].start) - 1
       PROVE  InUse(m)'
  <2>1. CASE k \in 1 .. n
    BY <1>4, <1>6, <2>1 DEF NoGaps
  <2>2. CASE k = n + 1
    BY <1>3, <1>4, <1>7, <2>2
  <2> QED
    BY <1>3, <1>4, <2>1, <2>2
<1> QED
  BY <1>9, <1>10 DEF NoGaps

LEMMA NoGapsStep == IInv /\ NoGaps /\ [Next]_vars => NoGaps'
<1> SUFFICES ASSUME IInv, NoGaps, [Next]_vars PROVE NoGaps'
  OBVIOUS
<1>0. TypeOK /\ call \in Call
  BY DEF IInv, TypeOK
<1>1. ASSUME NEW id \in Identifiers, CreateCall(id) PROVE NoGaps'
  <2>1. Bound' = Bound /\ UNCHANGED diskCatalog
    BY <1>1 DEF CreateCall, Bound, Prompt
  <2> QED
    BY <2>1, SameNoGaps
<1>2. CASE vfsLoadWord
  <2>1. call.pc = "write" /\ call'.pc = "write" /\ call'.start = call.start
    BY <1>0, <1>2 DEF vfsLoadWord, Call
  <2> QED
    BY <1>2, <2>1, SameNoGaps DEF vfsLoadWord, Bound
<1>3. CASE vfsRegisterFile /\ Len(diskCatalog) >= MAX_PROCESSES
  BY <1>3, <1>0, GeometryAssumption DEF vfsRegisterFile, NoGaps, InUse, Extent, TypeOK
<1>4. CASE Lookup \/ CopyWord \/ CopyDone \/ Created
  <2>1. /\ UNCHANGED <<diskCatalog, free>>
        /\ call.pc # "write" /\ call'.pc # "write"
    <3>1. CASE Lookup
      <4>1. PICK k \in DOMAIN diskCatalog :
              \/ call' = Prompt
              \/ \E start \in 0 .. MAX_PROCESSES - CalculateRequiredBlocks(diskCatalog[k].words) :
                   call' = [call EXCEPT !.pc = "copy", !.path = diskCatalog[k].path,
                              !.words = diskCatalog[k].words, !.at = diskCatalog[k].start,
                              !.base = GET_BASE_REGISTER(start)]
        BY <3>1 DEF Lookup
      <4>2. CASE call' = Prompt
        BY <3>1, <4>2 DEF Lookup, Prompt
      <4>3. CASE call' # Prompt
        <5>1. PICK start \in 0 .. MAX_PROCESSES - CalculateRequiredBlocks(diskCatalog[k].words) :
                call' = [call EXCEPT !.pc = "copy", !.path = diskCatalog[k].path,
                           !.words = diskCatalog[k].words, !.at = diskCatalog[k].start,
                           !.base = GET_BASE_REGISTER(start)]
          BY <4>1, <4>3
        <5>2. call'.pc = "copy"
          BY <1>0, <5>1 DEF Call
        <5> QED
          BY <3>1, <5>2 DEF Lookup
      <4> QED
        BY <4>2, <4>3
    <3>2. CASE CopyWord
      <4>1. call'.pc = call.pc
        BY <1>0, <3>2 DEF CopyWord, Call
      <4> QED
        BY <3>2, <4>1 DEF CopyWord
    <3>3. CASE CopyDone
      <4>1. call'.pc = "loaded"
        BY <1>0, <3>3 DEF CopyDone, Call
      <4> QED
        BY <3>3, <4>1 DEF CopyDone
    <3>4. CASE Created
      BY <3>4 DEF Created, Prompt
    <3> QED
      BY <1>4, <3>1, <3>2, <3>3, <3>4
  <2> QED
    BY <2>1, SameNoGaps DEF Bound
<1>5. CASE DmaWriteDisk \/ UNCHANGED vars
  BY <1>5, SameNoGaps DEF DmaWriteDisk, Bound, vars
<1>6. Len(diskCatalog) >= MAX_PROCESSES \/ Len(diskCatalog) < MAX_PROCESSES
  BY <1>0, GeometryAssumption DEF TypeOK
<1> QED
  BY <1>1, <1>2, <1>3, <1>4, <1>5, <1>6, RegisterNoGaps DEF Next

-----------------------------------------------------------------------------
LEMMA NotRunningType == NotRunning \in StatType
BY Start DEF NotRunning, StatType

(* At the start of the walk nothing is counted. *)
LEMMA NothingMarked ==
  ASSUME stat.diskMap = NotRunning.diskMap
  PROVE  Marked = {} /\ \A p \in Places : stat.diskMap[p] = 0
BY DEF Marked, NotRunning

LEMMA InitStatInv == DiskstatInit => StatInv /\ NoGaps
<1> SUFFICES ASSUME DiskstatInit PROVE StatInv /\ NoGaps
  OBVIOUS
<1>1. stat = NotRunning /\ diskCatalog = <<>> /\ Bound = 0
  BY Start DEF DiskstatInit, Init, Bound, Prompt
<1>2. stat.pc = "off" /\ stat.k = 0 /\ stat.occupiedSectors = 0
  BY <1>1 DEF NotRunning
<1>3. Marked = {} /\ \A p \in Places : stat.diskMap[p] = 0
  BY <1>1, NothingMarked
<1>4. StatInv
  BY <1>1, <1>2, <1>3, NotRunningType, FS_EmptySet DEF StatInv
<1>5. NoGaps
  BY <1>1 DEF NoGaps
<1> QED
  BY <1>4, <1>5

(* The walk and createProcess do not overlap: the catalog grows only while *)
(* diskstat does not run.                                                  *)
LEMMA OtherStatStep ==
  ASSUME IInv, StatInv, UNCHANGED stat,
         \/ stat.pc = "off" /\ [Next]_vars
         \/ UNCHANGED diskCatalog
  PROVE  StatInv'
<1>1. CASE UNCHANGED diskCatalog
  BY <1>1 DEF StatInv, Marked, WordsCounted
<1>2. CASE stat.pc = "off" /\ diskCatalog' # diskCatalog
  <2>1. stat.k = 0 /\ stat.pc = "off"
    BY <1>2 DEF StatInv, NotRunning
  <2>2. 0 <= Len(diskCatalog')
    <3>1. IInv'
      BY <1>2, InvarianceStep
    <3> QED
      BY <3>1 DEF IInv, TypeOK
  <2>3. Marked' = Marked
    BY DEF Marked
  <2> QED
    BY <2>1, <2>2, <2>3 DEF StatInv
<1> QED
  BY <1>1, <1>2

LEMMA StartStatStep ==
  ASSUME IInv, StatInv, printDiskStatus
  PROVE  StatInv'
<1>1. /\ stat'.pc = "entry" /\ stat'.k = 0 /\ stat'.occupiedSectors = 0
      /\ stat'.diskMap = NotRunning.diskMap /\ stat' \in StatType
  BY NotRunningType DEF printDiskStatus, NotRunning, StatType
<1>2. Marked' = {} /\ \A p \in Places : stat'.diskMap[p] = 0
  BY <1>1 DEF Marked, NotRunning
<1>3. diskCatalog' = diskCatalog /\ Len(diskCatalog) \in Nat
  BY DEF printDiskStatus, vars, IInv, TypeOK
<1> QED
  BY <1>1, <1>2, <1>3, FS_EmptySet DEF StatInv

LEMMA NextEntryStep ==
  ASSUME IInv, StatInv, NextEntry
  PROVE  StatInv'
<1>0. /\ stat \in StatType /\ stat.k \in Nat /\ stat.pc = "entry" /\ diskCatalog' = diskCatalog
      /\ Len(diskCatalog) \in Nat /\ DOMAIN diskCatalog = 1 .. Len(diskCatalog) /\ TypeOK
  BY DEF StatInv, StatType, NextEntry, vars, IInv, TypeOK
<1>1. CASE stat.k < Len(diskCatalog)
  <2> DEFINE e == diskCatalog[stat.k + 1]
  <2>1. stat.k + 1 \in DOMAIN diskCatalog
    BY <1>0, <1>1
  <2>2. e.start \in Cursor /\ Number(e.start) \in Nat /\ e.words \in Int
    BY <1>0, <2>1, CursorNumbers
  <2>3. stat' = [stat EXCEPT !.pc = "word", !.k = stat.k + 1, !.w = 0, !.at = e.start]
    BY <1>1 DEF NextEntry
  <2>4. /\ stat'.pc = "word" /\ stat'.k = stat.k + 1 /\ stat'.w = 0 /\ stat'.at = e.start
        /\ stat'.occupiedSectors = stat.occupiedSectors /\ stat'.diskMap = stat.diskMap
        /\ stat' \in StatType
    <3> HIDE DEF e
    <3>1. stat.k + 1 \in Nat
      BY <1>0
    <3> QED
      BY <1>0, <2>2, <2>3, <3>1 DEF StatType
  <2>5. Marked' = Marked
    BY <2>4 DEF Marked
  <2>6. \A p \in Places : stat.diskMap[p] \in Nat /\ stat.diskMap[p] <= stat.k
    BY <1>0 DEF StatInv, StatType
  <2>7. ASSUME NEW p \in Places, NEW j \in 1 .. stat.k + 1
        PROVE  stat.diskMap[p] = j <=>
                 Number(p) \in Number(diskCatalog[j].start)
                                 .. Number(diskCatalog[j].start) + WordsCounted(j)' - 1
    <3>1. CASE j = stat.k + 1
      <4>1. WordsCounted(j)' = 0
        BY <2>4, <3>1 DEF WordsCounted
      <4>2. stat.diskMap[p] # j
        BY <1>0, <2>6, <3>1
      <4> QED
        BY <2>2, <3>1, <4>1, <4>2
    <3>2. CASE j \in 1 .. stat.k
      <4>1. WordsCounted(j)' = WordsCounted(j)
        BY <1>0, <2>4, <3>2 DEF WordsCounted
      <4> QED
        BY <3>2, <4>1 DEF StatInv
    <3> QED
      BY <1>0, <3>1, <3>2
  <2>8. \A p \in Places : stat'.diskMap[p] <= stat'.k
    BY <1>0, <2>4, <2>6
  <2>9. Number(stat'.at) = Number(diskCatalog'[stat'.k].start) + stat'.w
    BY <1>0, <2>2, <2>4
  <2>10. stat'.k \in DOMAIN diskCatalog' /\ stat'.k <= Len(diskCatalog')
    BY <1>0, <2>1, <2>4
  <2> HIDE DEF e
  <2> QED
    BY <1>0, <2>4, <2>5, <2>7, <2>8, <2>9, <2>10 DEF StatInv
<1>2. CASE ~(stat.k < Len(diskCatalog))
  <2>1. stat' = [stat EXCEPT !.pc = "show"]
    BY <1>2 DEF NextEntry
  <2>2. /\ stat'.pc = "show" /\ stat'.k = stat.k
        /\ stat'.occupiedSectors = stat.occupiedSectors /\ stat'.diskMap = stat.diskMap
        /\ stat' \in StatType
    BY <1>0, <2>1 DEF StatType
  <2>3. stat.k = Len(diskCatalog)
    BY <1>0, <1>2 DEF StatInv
  <2>4. Marked' = Marked /\ \A j : WordsCounted(j)' = WordsCounted(j)
    BY <1>0, <2>2 DEF Marked, WordsCounted
  <2> QED
    BY <1>0, <2>2, <2>3, <2>4 DEF StatInv
<1> QED
  BY <1>1, <1>2

(* A word is counted on a sector of the disk that no word was counted on. *)
LEMMA CountWordStep ==
  ASSUME IInv, StatInv, CountWord
  PROVE  StatInv'
<1> DEFINE k == stat.k
           p == stat.at
           e == diskCatalog[k]
<1>1. /\ stat \in StatType /\ k \in Nat /\ stat.w \in Nat /\ stat.occupiedSectors \in Nat
      /\ stat.diskMap \in [Places -> Nat] /\ p \in Cursor
      /\ stat.pc = "word" /\ UNCHANGED diskCatalog /\ TypeOK
      /\ Len(diskCatalog) \in Nat /\ DOMAIN diskCatalog = 1 .. Len(diskCatalog)
  BY DEF StatInv, StatType, CountWord, vars, IInv, TypeOK
<1>2. /\ k \in DOMAIN diskCatalog /\ k \in 1 .. k /\ k # 0
      /\ Number(p) = Number(e.start) + stat.w /\ stat.w < e.words
      /\ Number(e.start) \in Nat /\ e.words \in Int
  BY <1>1, CursorNumbers DEF StatInv, CountWord, WordsLeft
<1>3. Number(p) \in Extent(e)
  BY <1>1, <1>2 DEF Extent
<1>4. p \in Places
  <2>1. Number(p) < Number(free) /\ Number(free) <= totalDiskSectors /\ totalDiskSectors \in Nat
        /\ Number(free) \in Nat /\ Number(p) \in Nat
    BY <1>1, <1>2, <1>3, Apart, CursorNumbers DEF ExtentsDisjoint
  <2> QED
    BY <1>1, <2>1, NumberRange
<1>5. stat.diskMap[p] = 0
  <2>1. stat.diskMap[p] \in 0 .. k
    BY <1>1, <1>4 DEF StatInv
  <2>2. stat.diskMap[p] # k
    <3>1. WordsCounted(k) = stat.w
      BY <1>1 DEF WordsCounted
    <3> QED
      BY <1>1, <1>2, <1>4, <3>1 DEF StatInv
  <2>3. ASSUME NEW j \in 1 .. k, j # k PROVE stat.diskMap[p] # j
    <3>1. WordsCounted(j) = diskCatalog[j].words /\ j \in DOMAIN diskCatalog
      BY <1>1, <1>2, <2>3 DEF WordsCounted
    <3>2. stat.diskMap[p] = j => Number(p) \in Extent(diskCatalog[j])
      BY <1>4, <3>1 DEF StatInv, Extent
    <3>3. Extent(diskCatalog[j]) \cap Extent(e) = {}
      BY <1>2, <2>3, <3>1, Apart DEF ExtentsDisjoint
    <3> QED
      BY <1>3, <3>2, <3>3
  <2> QED
    BY <1>1, <2>1, <2>2, <2>3
<1>6. NextPlace(p) \in Cursor /\ Number(NextPlace(p)) = Number(p) + 1
  BY <1>4, NextNumber
<1> DEFINE map == [stat.diskMap EXCEPT ![p] = k]
<1>7. /\ stat'.pc = "word" /\ stat'.k = k /\ stat'.w = stat.w + 1 /\ stat'.at = NextPlace(p)
      /\ stat'.occupiedSectors = stat.occupiedSectors + 1 /\ stat'.diskMap = map
      /\ stat' \in StatType
  <2>1. map \in [Places -> Nat] /\ stat.w + 1 \in Nat /\ stat.occupiedSectors + 1 \in Nat
    <3> HIDE DEF p, e
    <3>1. stat.diskMap \in [Places -> Nat] /\ k \in Nat
      BY <1>1
    <3> HIDE DEF k
    <3>2. map \in [Places -> Nat]
      BY <3>1
    <3> QED
      BY <1>1, <3>2
  <2>2. stat' = [stat EXCEPT !.w = stat.w + 1, !.at = NextPlace(p),
                             !.occupiedSectors = stat.occupiedSectors + 1, !.diskMap = map]
    BY <1>4 DEF CountWord
  <2> HIDE DEF map, k, p, e
  <2>3. stat' \in StatType
    BY <1>1, <1>6, <2>1, <2>2 DEF StatType
  <2>4. /\ stat'.w = stat.w + 1 /\ stat'.at = NextPlace(p)
        /\ stat'.occupiedSectors = stat.occupiedSectors + 1 /\ stat'.diskMap = map
        /\ stat'.pc = stat.pc /\ stat'.k = stat.k
    BY <1>1, <2>2 DEF StatType
  <2> QED
    BY <1>1, <2>3, <2>4 DEF k
<1>8. \A q \in Places : map[q] = IF q = p THEN k ELSE stat.diskMap[q]
  BY <1>1, <1>4
<1> HIDE DEF map
<1>9. \A q \in Places : stat'.diskMap[q] <= stat'.k
  BY <1>1, <1>7, <1>8 DEF StatInv
<1>10. IsFiniteSet(Marked') /\ stat'.occupiedSectors = Cardinality(Marked')
  <2>1. Marked' = Marked \union {p}
    BY <1>2, <1>4, <1>7, <1>8 DEF Marked
  <2>2. p \notin Marked
    BY <1>5 DEF Marked
  <2> QED
    BY <1>7, <2>1, <2>2, FS_AddElement DEF StatInv
<1>11. ASSUME NEW q \in Places, NEW j \in 1 .. k
       PROVE  map[q] = j <=>
                Number(q) \in Number(diskCatalog[j].start)
                                .. Number(diskCatalog[j].start) + WordsCounted(j)' - 1
  <2>1. stat.diskMap[q] = j <=>
          Number(q) \in Number(diskCatalog[j].start)
                          .. Number(diskCatalog[j].start) + WordsCounted(j) - 1
    BY DEF StatInv
  <2>2. Number(q) \in Nat /\ Number(p) \in Nat
    BY <1>4, PlaceParts
  <2>3. q # p => Number(q) # Number(p)
    BY <1>4, NumberInjective
  <2>4. CASE j = k
    <3>1. WordsCounted(j) = stat.w /\ WordsCounted(j)' = stat.w + 1
      BY <1>1, <1>7, <2>4 DEF WordsCounted
    <3> QED
      BY <1>1, <1>2, <1>8, <2>1, <2>2, <2>3, <2>4, <3>1
  <2>5. CASE j # k
    <3>1. WordsCounted(j) = diskCatalog[j].words /\ WordsCounted(j)' = diskCatalog[j].words
      BY <1>1, <1>7, <2>5 DEF WordsCounted
    <3>2. CASE q = p
      BY <1>5, <1>8, <2>1, <2>5, <3>1, <3>2
    <3>3. CASE q # p
      BY <1>8, <2>1, <3>1, <3>3
    <3> QED
      BY <3>2, <3>3
  <2> QED
    BY <2>4, <2>5
<1>12. Number(stat'.at) = Number(diskCatalog'[stat'.k].start) + stat'.w
  BY <1>1, <1>2, <1>6, <1>7
<1>13. stat'.w <= diskCatalog'[stat'.k].words /\ stat'.k <= Len(diskCatalog')
  BY <1>1, <1>2, <1>7
<1> QED
  BY <1>1, <1>2, <1>7, <1>9, <1>10, <1>11, <1>12, <1>13 DEF StatInv

LEMMA EntryCountedStep ==
  ASSUME IInv, StatInv, EntryCounted
  PROVE  StatInv'
<1>1. /\ stat \in StatType /\ stat.pc = "word" /\ UNCHANGED diskCatalog /\ TypeOK
      /\ stat' = [stat EXCEPT !.pc = "entry"] /\ stat.k \in DOMAIN diskCatalog
      /\ stat.w \in Nat /\ stat.k \in Nat
  BY DEF StatInv, StatType, EntryCounted, vars, IInv
<1>2. /\ stat'.pc = "entry" /\ stat'.k = stat.k /\ stat'.occupiedSectors = stat.occupiedSectors
      /\ stat'.diskMap = stat.diskMap /\ stat' \in StatType
  BY <1>1 DEF StatType
<1>3. Marked' = Marked
  BY <1>2 DEF Marked
<1> DEFINE e == diskCatalog[stat.k]
<1>4. /\ e.words \in Int /\ Number(e.start) \in Nat /\ stat.w >= e.words
      /\ stat.w <= e.words \/ stat.w = 0
  BY <1>1, CursorNumbers DEF EntryCounted, WordsLeft, StatInv
<1>5. ASSUME NEW q \in Places, NEW j \in 1 .. stat.k
      PROVE  stat.diskMap[q] = j <=>
               Number(q) \in Number(diskCatalog[j].start)
                               .. Number(diskCatalog[j].start) + WordsCounted(j)' - 1
  <2>1. stat.diskMap[q] = j <=>
          Number(q) \in Number(diskCatalog[j].start)
                          .. Number(diskCatalog[j].start) + WordsCounted(j) - 1
    BY DEF StatInv
  <2>2. WordsCounted(j)' = diskCatalog[j].words
    BY <1>1, <1>2 DEF WordsCounted
  <2>3. CASE j = stat.k
    <3>1. WordsCounted(j) = stat.w
      BY <1>1, <2>3 DEF WordsCounted
    <3>2. Number(q) \in Nat
      BY PlaceParts
    <3>3. CASE stat.w = e.words
      <4>1. WordsCounted(j)' = WordsCounted(j)
        BY <2>2, <2>3, <3>1, <3>3
      <4> QED
        BY <2>1, <4>1
    <3>4. CASE stat.w = 0 /\ e.words <= 0
      <4>1. /\ Number(diskCatalog[j].start) \in Nat /\ WordsCounted(j) = 0
            /\ WordsCounted(j)' \in Int /\ WordsCounted(j)' <= 0
        <5>1. diskCatalog[j] = e
          BY <2>3
        <5> HIDE DEF e
        <5> QED
          BY <1>4, <2>2, <3>1, <3>4, <5>1
      <4> QED
        BY <2>1, <3>2, <4>1
    <3> HIDE DEF e
    <3> QED
      BY <1>1, <1>4, <3>3, <3>4
  <2>4. CASE j # stat.k
    <3>1. WordsCounted(j) = diskCatalog[j].words
      BY <2>4 DEF WordsCounted
    <3> QED
      BY <2>1, <2>2, <3>1
  <2> QED
    BY <2>3, <2>4
<1> QED
  BY <1>1, <1>2, <1>3, <1>5 DEF StatInv

LEMMA ShownStep ==
  ASSUME IInv, StatInv, Shown
  PROVE  StatInv'
<1>1. stat' = NotRunning /\ UNCHANGED diskCatalog /\ Len(diskCatalog) \in Nat
  BY DEF Shown, vars, IInv, TypeOK
<1>2. /\ stat'.pc = "off" /\ stat'.k = 0 /\ stat'.occupiedSectors = 0
      /\ stat'.diskMap = NotRunning.diskMap
  BY <1>1 DEF NotRunning
<1>3. Marked' = {} /\ \A p \in Places : stat'.diskMap[p] = 0
  BY <1>2 DEF Marked, NotRunning
<1> QED
  BY <1>1, <1>2, <1>3, NotRunningType, FS_EmptySet DEF StatInv

LEMMA DiskstatStep ==
  IInv /\ NoGaps /\ StatInv /\ [DiskstatNext]_statvars => IInv' /\ NoGaps' /\ StatInv'
<1> SUFFICES ASSUME IInv, NoGaps, StatInv, [DiskstatNext]_statvars
             PROVE  IInv' /\ NoGaps' /\ StatInv'
  OBVIOUS
<1>1. [Next]_vars
  BY DEF DiskstatNext, statvars, Next, printDiskStatus, NextEntry, CountWord, EntryCounted, Shown
<1>2. IInv' /\ NoGaps'
  BY <1>1, InvarianceStep, NoGapsStep
<1>3. CASE DmaWriteDisk /\ UNCHANGED stat
  BY <1>2, <1>3, OtherStatStep DEF DmaWriteDisk
<1>4. CASE UNCHANGED statvars
  BY <1>2, <1>4, OtherStatStep DEF statvars, vars
<1>5. CASE stat.pc = "off" /\ Next /\ UNCHANGED stat
  BY <1>2, <1>5, OtherStatStep
<1> QED
  BY <1>2, <1>3, <1>4, <1>5, StartStatStep, NextEntryStep, CountWordStep, EntryCountedStep,
     ShownStep DEF DiskstatNext

(* What the map says in the end is the catalog's, and a place that nobody  *)
(* has lies behind every program.                                          *)
LEMMA ShowsTruth == IInv /\ NoGaps /\ StatInv => DiskstatTruthful
<1> SUFFICES ASSUME IInv, NoGaps, StatInv, stat.pc = "show" PROVE DiskstatTruthful
  BY DEF DiskstatTruthful
<1>1. /\ TypeOK /\ stat \in StatType /\ stat.k = Len(diskCatalog) /\ Len(diskCatalog) \in Nat
      /\ DOMAIN diskCatalog = 1 .. stat.k
  BY DEF IInv, TypeOK, StatInv
<1>2. ASSUME NEW p \in Places, NEW k \in DOMAIN diskCatalog
      PROVE  stat.diskMap[p] = k <=> Number(p) \in Extent(diskCatalog[k])
  <2>1. WordsCounted(k) = diskCatalog[k].words
    BY DEF WordsCounted
  <2> QED
    BY <1>1, <2>1 DEF StatInv, Extent
<1>3. stat.occupiedSectors = Cardinality({p \in Places : stat.diskMap[p] # 0})
  BY DEF StatInv, Marked
<1>4. ASSUME NEW p \in Places, NEW q \in Places, Number(p) <= Number(q), stat.diskMap[p] = 0
      PROVE  stat.diskMap[q] = 0
  <2>1. ASSUME stat.diskMap[q] # 0 PROVE FALSE
    <3>1. PICK k \in DOMAIN diskCatalog : stat.diskMap[q] = k
      BY <1>1, <2>1 DEF StatInv, StatType
    <3>2. Number(q) \in Extent(diskCatalog[k]) /\ Number(p) \notin Extent(diskCatalog[k])
      BY <1>1, <1>2, <1>4, <3>1
    <3>3. Number(p) \in Nat /\ Number(q) \in Nat /\ Number(diskCatalog[k].start) \in Nat
          /\ diskCatalog[k].words \in Int
      BY <1>1, PlaceParts, CursorNumbers
    <3>4. Number(p) \in 0 .. Number(diskCatalog[k].start) - 1
      BY <1>4, <3>2, <3>3 DEF Extent
    <3>5. PICK j \in DOMAIN diskCatalog : Number(p) \in Extent(diskCatalog[j])
      BY <3>4 DEF NoGaps, InUse
    <3> QED
      BY <1>1, <1>2, <1>4, <3>5
  <2> QED
    BY <2>1
<1>5. ASSUME NEW t \in Tracks, NEW c \in Cylinders, NEW s \in Sectors, s % SCALE = 0,
             displayId(t, c, s) = 0, NEW u \in Sectors \cap (s .. s + SCALE - 1)
      PROVE  stat.diskMap[<<t, c, u>>] = 0
  <2>1. stat.diskMap[<<t, c, s>>] = 0
    BY <1>5 DEF displayId
  <2>2. <<t, c, s>> \in Places /\ <<t, c, u>> \in Places
    BY DEF Places
  <2>3. Number(<<t, c, s>>) <= Number(<<t, c, u>>)
    <3> DEFINE x == t * (DISK_CYLINDERS * DISK_SECTORS) + c * DISK_SECTORS
    <3>1. s \in Nat /\ u \in Nat /\ s <= u /\ t \in Nat /\ c \in Nat
      BY Geometry DEF Sectors, Tracks, Cylinders
    <3>2. x \in Int
      <4>1. \A a, b \in Nat : a * b \in Nat
        OBVIOUS
      <4> QED
        BY <3>1, <4>1, Geometry
    <3>3. Number(<<t, c, s>>) = x + s /\ Number(<<t, c, u>>) = x + u
      BY DEF Number
    <3> HIDE DEF x
    <3> QED
      BY <3>1, <3>2, <3>3
  <2> QED
    BY <1>4, <2>1, <2>2, <2>3
<1> QED
  BY <1>2, <1>3, <1>5 DEF DiskstatTruthful

(* diskstat shows whose each sector is and how many are in use, and a dot  *)
(* only where nothing is stored, for every disk, every scale and every     *)
(* sequence of files: programs are stored without a gap, so that the first *)
(* sector of ten speaks for the others.                                    *)
THEOREM DiskstatIsTruthful == DiskstatSpec => []DiskstatTruthful
<1>1. DiskstatInit => IInv /\ NoGaps /\ StatInv
  BY InitIInv, InitStatInv DEF DiskstatInit
<1> QED
  BY <1>1, DiskstatStep, ShowsTruth, PTL DEF DiskstatSpec
=============================================================================
