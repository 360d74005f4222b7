------------------------------- MODULE Relay --------------------------------
(***************************************************************************)
(* What the buffer path of nadatx promises to its neighbours: a first-in   *)
(* first-out relay.  Buffers are numbered in the order in which they are   *)
(* accepted; each leaves once, from the front, forwarded or discarded.     *)
(***************************************************************************)
EXTENDS Naturals, Sequences

VARIABLES
  accepted,  \* buffers accepted so far
  pipe,      \* accepted and neither forwarded nor discarded, oldest first
  out        \* forwarded, oldest first

relayVars == <<accepted, pipe, out>>

Init == accepted = 0 /\ pipe = <<>> /\ out = <<>>

Accept ==
  /\ accepted' = accepted + 1
  /\ pipe' = Append(pipe, accepted')
  /\ UNCHANGED out

Forward ==
  /\ pipe # <<>>
  /\ out' = Append(out, Head(pipe)) /\ pipe' = Tail(pipe)
  /\ UNCHANGED accepted

Discard ==
  /\ pipe # <<>>
  /\ pipe' = Tail(pipe)
  /\ UNCHANGED <<accepted, out>>

Next == Accept \/ Forward \/ Discard

Spec == Init /\ [][Next]_relayVars

-----------------------------------------------------------------------------
\* Buffers are forwarded in the order of their acceptance, none twice, and
\* none of those forwarded is still waiting behind.
InOrder ==
  /\ \A i, j \in 1 .. Len(out) : i < j => out[i] < out[j]
  /\ \A i, j \in 1 .. Len(pipe) : i < j => pipe[i] < pipe[j]
  /\ \A i \in 1 .. Len(out), j \in 1 .. Len(pipe) : out[i] < pipe[j]
=============================================================================
