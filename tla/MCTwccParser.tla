---------------------------- MODULE MCTwccParser ----------------------------
(* TwccParser for TLC: signed deltas, and messages of one to eighteen bytes. *)
EXTENDS TwccParser

\* A packet overtaken, one in the range of a byte, one beyond it.
MCLargeDeltas == {-1, 1, DeltaModulus + 1}
MCLengths == {1, 3, 8, 9, 10, 11, 12, 13, 14, 16, 18}
=============================================================================
