------------------------------- MODULE MCVfs --------------------------------
(***************************************************************************)
(* Vfs and Diskstat on a disk of two tracks of two cylinders of three      *)
(* sectors, which diskstat shows in one character each, and a catalog of   *)
(* three entries.  One program has the name of another's path, one         *)
(* declares more words than it has lines, one declares none, and one does  *)
(* not fit.                                                                *)
(***************************************************************************)
EXTENDS Diskstat

File(name, words, lines) == [name |-> name, wordCount |-> words, lines |-> lines]

MCHostFiles ==
  [path \in {"a.txt", "b.txt", "c.txt", "d.txt", "e.txt"} |->
     CASE path = "a.txt" -> File("A", 3, 3)
       [] path = "b.txt" -> File("a.txt", 2, 2)
       [] path = "c.txt" -> File("C", 3, 2)
       [] path = "d.txt" -> File("D", -1, 1)
       [] path = "e.txt" -> File("E", 13, 13)]

MCDmaPlaces == {<<0, 1, 0>>}
MCIdentifiers == DOMAIN MCHostFiles \union {"A", "C", "ghost"}
=============================================================================
