------------------------------- MODULE Words --------------------------------
(***************************************************************************)
(* The decimal words of the virtual CPU: a sign digit and a magnitude      *)
(* (inc/definitions.h), their conversion from and to the integers of C,    *)
(* their use as instructions, and the arithmetic of executeArithmetic and  *)
(* executeComparison (src/hardware/cpu.c).                                 *)
(***************************************************************************)
EXTENDS Integers

CONSTANT SIGN_BIT  \* 10000000: the first number beyond the greatest magnitude

ASSUME WordsAssumption == SIGN_BIT \in Nat /\ SIGN_BIT >= 100 /\ SIGN_BIT % 100 = 0

MAX_MAGNITUDE == SIGN_BIT - 1

CC_ZERO == 0
CC_NEG == 1
CC_POS == 2
CC_OVERFLOW == 3

IS_NEGATIVE(w) == w >= SIGN_BIT

Abs(n) == IF n >= 0 THEN n ELSE -n

(* Division and remainder as in C: towards zero. *)
CQuotient(a, b) ==
  IF (a >= 0) = (b >= 0) THEN Abs(a) \div Abs(b) ELSE -(Abs(a) \div Abs(b))

CRemainder(a, b) == IF a >= 0 THEN a % b ELSE -((-a) % b)

wordToInt(w) ==
  IF IS_NEGATIVE(w) THEN -CRemainder(w, SIGN_BIT) ELSE CRemainder(w, SIGN_BIT)

(* Mutant: the greatest magnitude counts as an overflow. *)
TooBigOrEqual(n) == Abs(n) >= MAX_MAGNITUDE

TooBig(n) == Abs(n) > MAX_MAGNITUDE

(* intToWord returns a word and sets the condition code.                   *)
intToWord(n) ==
  LET magnitude == IF TooBig(n) THEN Abs(n) % SIGN_BIT ELSE Abs(n)
  IN  IF n < 0 /\ magnitude # 0 THEN magnitude + SIGN_BIT ELSE magnitude

CodeOf(n) ==
  IF TooBig(n) THEN CC_OVERFLOW
  ELSE IF n = 0 THEN CC_ZERO ELSE IF n < 0 THEN CC_NEG ELSE CC_POS

(* updatePSWFlags looks at the word as it is.                              *)
FlagsOf(w) == IF w = 0 THEN CC_ZERO ELSE IF IS_NEGATIVE(w) THEN CC_NEG ELSE CC_POS

(* executeArithmetic: the result before it is cut to a word.               *)
Result(op, a, b) ==
  CASE op = "SUM" -> a + b
    [] op = "RES" -> a - b
    [] op = "MULT" -> a * b
    [] op = "DIVI" -> CQuotient(a, b)

(* Only the product is cut before the conversion.                          *)
ResultWord(op, a, b) ==
  IF op = "MULT" THEN intToWord(CRemainder(Result(op, a, b), SIGN_BIT))
                 ELSE intToWord(Result(op, a, b))

(* What handleInterrupt makes of the result of an overflow.                *)
Wrapped(n) == intToWord(CRemainder(n, SIGN_BIT))

-----------------------------------------------------------------------------
(* A word as an instruction: two digits of operation code, one of          *)
(* addressing mode, the value.                                             *)
OpCodes == <<"SUM", "RES", "MULT", "DIVI", "LOAD", "STR", "LOADRX", "STRRX", "COMP",
  "JMPE", "JMPNE", "JMPLT", "JMPLGT", "SVC", "RETRN", "HAB", "DHAB", "TTI", "CHMOD",
  "LOADRB", "STRRB", "LOADRL", "STRRL", "LOADSP", "STRSP", "PSH", "POP", "J",
  "SDMAP", "SDMAC", "SDMAS", "SDMAIO", "SDMAM", "SDMAON">>

OpCode(w) == CQuotient(w, SIGN_BIT \div 10)

decode(w) ==
  [op |-> IF OpCode(w) \in 0 .. 33 THEN OpCodes[OpCode(w) + 1] ELSE "none",
   direction |-> CRemainder(CQuotient(w, SIGN_BIT \div 100), 10),
   value |-> CRemainder(w, SIGN_BIT \div 100)]

(* IS_VALID_INSTRUCTION, by which writeMemory refuses a word.              *)
IS_VALID_INSTRUCTION(w) == OpCode(w) \in 0 .. 33
=============================================================================
