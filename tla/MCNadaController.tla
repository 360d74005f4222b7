-------------------------- MODULE MCNadaController --------------------------
(***************************************************************************)
(* Small instances of NadaController.  Rates are numbers from 0 to 4, with *)
(* the default at 2, the glue's bounds at 1 and 3 as in the code's order   *)
(* 10 < 150 = default < 1500 kbps; the log is judged from 3 packets on.    *)
(***************************************************************************)
EXTENDS NadaController

CONSTANT MaxLog  \* bound on the log, for TLC only

MCStart == {SeqModulus - 1}

BoundedNadaNext == NadaNext /\ Len(history') <= MaxLog
BoundedNadaSpec == NadaInit /\ [][BoundedNadaNext]_allVars
=============================================================================
