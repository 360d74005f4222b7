---------------------------- MODULE MCTxFeedback ----------------------------
(* TxFeedback for TLC: where the transport-wide numbers begin. *)
EXTENDS TxFeedback

MCFirstOne == {1}
\* The number the code takes for "not known yet", the smallest other one, and
\* one that wraps within the packets sent.
MCFirstAny == {0, 1, SeqModulus - 2}
=============================================================================
