------------------------------ MODULE SeqArith ------------------------------
(***************************************************************************)
(* Unsigned sequence-number arithmetic as the C++ controller uses it:      *)
(* subtraction wraps, and "less than" compares the two wrapped distances   *)
(* (SenderBasedController::lessThan, sender-based-controller.h).           *)
(*                                                                         *)
(* The width is a parameter: the code has SeqModulus = 2^16, the TLC runs  *)
(* use a few bits so that numbers wrap within a short behaviour.           *)
(***************************************************************************)
EXTENDS Integers

CONSTANT SeqModulus

ASSUME SeqModulusAssumption == SeqModulus \in Nat /\ SeqModulus >= 4

SeqNr == 0 .. SeqModulus - 1

\* a - b of two uint16_t.  The operands are in range, so one correction by
\* the modulus is enough and no division is needed.
Minus(a, b) == IF a >= b THEN a - b ELSE a - b + SeqModulus

\* ++a of a uint16_t, and its inverse.
Succ(a) == IF a + 1 = SeqModulus THEN 0 ELSE a + 1
Pred(a) == IF a = 0 THEN SeqModulus - 1 ELSE a - 1

\* noWrapSubtract < wrapSubtract.  Two numbers exactly half the space apart
\* are not ordered either way.
lessThan(lhs, rhs) == Minus(rhs, lhs) < Minus(lhs, rhs)
=============================================================================
