------------------------------- MODULE MCCpu --------------------------------
(***************************************************************************)
(* Cpu with words of four digits instead of seven, two reserved words and  *)
(* two partitions of 14.                                                   *)
(***************************************************************************)
EXTENDS Cpu

MCBase == [p |-> 2, q |-> 16]
MCLimit == [p |-> 15, q |-> 29]

(* Two instructions and a datum, the greatest magnitude or a zero.         *)
FirstWords ==
  {0103, 1002, 2002, 3002, 4103, 5209, 14000, 17103, 18001, 24000, 27240, 33100}

SecondWords ==
  {0002, 1002, 2002, 4002, 5040, 7000, 9000, 13000, 16000, 20000, 22000, 25000, 26000, 27200}

Short == {<<v, w, d>> : v \in FirstWords, w \in SecondWords, d \in {0, 9999}}

(* An overflow with interrupts masked; a service left pending; a fault     *)
(* left pending; sleep, print, exit; pushes until the stack meets the      *)
(* program; a DMA transfer over the program.                               *)
Long ==
  {<<16000, 4005, 0101, 4107, 15000, 9999>>, <<4104, 16000, 13000, 4102, 15000>>,
   <<16000, 4300, 15000>>, <<4102, 25000, 4104, 13000, 4101, 13000>>, <<4103, 13000, 25000, 13000>>,
   <<25000, 27000>>, <<16000, 28105, 30002, 32350, 33100, 15000>>,
   <<8103, 19000, 21000, 23000, 6000, 18105>>, <<10000, 0, 11000, 12000, 29100>>,
   <<5100, 31102>>, <<34000>>, <<4101, 13000>>, <<1101, 25000, 4104, 13000>>,
   <<4103, 5013, 14000, 4102, 13000>>}

MCPrograms == [p |-> Short \union Long, q |-> {<<13000, 4102, 13000>>, <<0, 17300>>}]

MCStartPC == [p |-> 1, q |-> 2]

MCGarbage == {0, 19999}
MCInputs == {-3, 12}
=============================================================================
