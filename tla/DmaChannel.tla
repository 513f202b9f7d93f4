----------------------------- MODULE DmaChannel -----------------------------
(***************************************************************************)
(* What a program may expect of SDMAON: between the instruction's start    *)
(* and its return, exactly one word is read at the place the registers     *)
(* named when it started, and written, once, at the other.  Meanwhile the  *)
(* program writes nothing; the loader may write elsewhere at any time.     *)
(***************************************************************************)
EXTENDS Naturals

CONSTANTS Word,
          LoaderAddresses,  \* where the loader puts programs in RAM
          LoaderSectors     \* where the loader puts programs on the disk

VARIABLES RAM, DISK,
          order,    \* the registers: place on the disk, place in RAM, direction
          request   \* how far the transfer is, and the word it carries

dvars == <<RAM, DISK, order, request>>

Idle(data) == [at |-> "none", data |-> data]

Setup == request.at = "none" /\ UNCHANGED <<RAM, DISK, request>>

Store ==
  /\ \E a \in DOMAIN RAM, w \in Word :
       /\ request.at = "none" \/ a \in LoaderAddresses
       /\ RAM' = [RAM EXCEPT ![a] = w]
  /\ UNCHANGED <<DISK, order, request>>

WriteDisk ==
  /\ \E p \in LoaderSectors, w \in Word : DISK' = [DISK EXCEPT ![p] = w]
  /\ UNCHANGED <<RAM, order, request>>

Move(from, to, data) ==
  /\ request.at = from
  /\ request' = [at |-> to, data |-> data]
  /\ UNCHANGED order

Ask == Move("none", "asked", request.data) /\ UNCHANGED <<RAM, DISK>>

Fetch ==
  /\ Move("asked", "fetched", IF order.toDisk THEN RAM[order.memAddr] ELSE DISK[order.sector])
  /\ UNCHANGED <<RAM, DISK>>

Deliver ==
  /\ Move("fetched", "served", request.data)
  /\ IF order.toDisk
       THEN DISK' = [DISK EXCEPT ![order.sector] = request.data] /\ UNCHANGED RAM
       ELSE RAM' = [RAM EXCEPT ![order.memAddr] = request.data] /\ UNCHANGED DISK

Return == Move("served", "none", request.data) /\ UNCHANGED <<RAM, DISK>>

Init == request.at = "none"

Next == Setup \/ Store \/ WriteDisk \/ Ask \/ Fetch \/ Deliver \/ Return

Spec == Init /\ [][Next]_dvars
=============================================================================
