------------------------ MODULE MCSenderController ------------------------
(***************************************************************************)
(* Small instances of SenderController.  A tick stands for a quarter of a  *)
(* second, so the log and the obsolescence limit are two ticks as in the   *)
(* code; numbers are three bits wide and start just before they wrap.       *)
(***************************************************************************)
EXTENDS SenderController

MCStart == {SeqModulus - 2}
MCRx == {0, 2, 5}
=============================================================================
