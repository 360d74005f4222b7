------------------------------ MODULE MCNadaRx ------------------------------
(* NadaRx for TLC: where two streams begin and how many packets they bring.*)
EXTENDS NadaRx

\* One stream may open holes before the wrap and cross it; the other begins at
\* the wrap and only gets in the way of the first.
MCStarts == <<{8}, {15, 16}>>
MCMaxRecv == <<4, 1>>
=============================================================================
