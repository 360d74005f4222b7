----------------------------- MODULE ScreamTxBw -----------------------------
(***************************************************************************)
(* The screamtxbw element, which sender_bw.sh runs in the place of the     *)
(* encoder: it drops what it is given and makes RTP packets at the rate of *)
(* its property "bitrate" instead.  Packets come from a thread of the      *)
(* SCReAM library, which the repository does not hold; it is modelled from *)
(* the three calls the element makes and the callback it passes.           *)
(*                                                                         *)
(* The settings mutex is held over the call of the library.  A panic in a  *)
(* pad function closes the pad functions; one in the callback, which C     *)
(* code calls, ends the process.                                           *)
(*                                                                         *)
(* An operator that stands just before the one it resembles and differs    *)
(* from it by a slip is never used by the specification.                   *)
(***************************************************************************)
EXTENDS Integers, Sequences

CONSTANTS
  Setters,       \* threads that set the property "bitrate"
  NoSetter,      \* nobody holds the settings mutex
  Untold,        \* target of a library that was never told a rate
  DefaultRate    \* DEFAULT_BITRATE

ASSUME SettersAssumption == NoSetter \notin Setters
ASSUME DefaultAssumption == DefaultRate \in Nat /\ Untold \notin Nat

VARIABLES
  lockedBy,      \* holder of the settings mutex
  encoderRate,   \* settings.bitrate
  target,        \* rate the library was told last
  started,       \* ScreamTxBwPluginInit was called
  cb,            \* the callback: idle, or past its test of the flags
  encoderEos, encoderFlushing,  \* flags of the source pad
  encoderPanicked,  \* a pad function panicked
  refused,       \* an element behind it refuses buffers and events
  aborted        \* what ended the process, or "none"

rateVars == <<lockedBy, encoderRate, target>>
padVars == <<started, cb, encoderEos, encoderFlushing, encoderPanicked, refused>>
encoderVars == <<rateVars, padVars, aborted>>

EncoderInit ==
  /\ lockedBy = NoSetter /\ encoderRate = DefaultRate /\ target = Untold
  /\ started = FALSE /\ cb = "idle"
  /\ encoderEos = FALSE /\ encoderFlushing = FALSE /\ encoderPanicked = FALSE
  /\ refused = FALSE /\ aborted = "none"

-----------------------------------------------------------------------------
(* set_property *)

\* "params"
InitLibrary ==
  /\ lockedBy = NoSetter
  /\ started' = TRUE
  /\ UNCHANGED <<rateVars, cb, encoderEos, encoderFlushing, encoderPanicked, refused,
                 aborted>>

NotHeld(s) == NoSetter
Held(s) == s

\* "bitrate": stored under the mutex ...
StoreRate(s, rate) ==
  /\ lockedBy = NoSetter
  /\ encoderRate' = rate
  /\ lockedBy' = Held(s)
  /\ UNCHANGED <<target, padVars, aborted>>

\* ... and told to the library before the mutex is released.
TellLibrary(s, rate) ==
  /\ target' = rate
  /\ lockedBy' = NoSetter
  /\ UNCHANGED <<encoderRate, padVars, aborted>>

-----------------------------------------------------------------------------
(* callback, in a thread of the library *)

otherFlags == <<started, encoderEos, encoderFlushing, encoderPanicked, refused>>

\* With a flag set the packet is dropped; otherwise it will be pushed.
CallbackTestsFlushing ==
  /\ started /\ cb = "idle" /\ ~encoderFlushing
  /\ cb' = "open"
  /\ UNCHANGED <<rateVars, otherFlags, aborted>>

CallbackTest ==
  /\ started /\ cb = "idle" /\ ~encoderEos /\ ~encoderFlushing
  /\ cb' = "open"
  /\ UNCHANGED <<rateVars, otherFlags, aborted>>

\* A queue in between may take the packet although what is behind refuses it.
CallbackPush ==
  /\ cb = "open" /\ ~encoderEos /\ ~encoderFlushing
  /\ cb' = "idle"
  /\ UNCHANGED <<rateVars, otherFlags, aborted>>

\* The push fails and the expect panics: a flag was set since the test, or the
\* packet was refused.
CallbackAborts ==
  /\ cb = "open" /\ (encoderEos \/ encoderFlushing \/ refused)
  /\ aborted' = "push"
  /\ UNCHANGED <<rateVars, padVars>>

-----------------------------------------------------------------------------
(* Pad functions and state changes *)

\* sink_event passes the end of stream on, unless the element has panicked.
EncoderEos ==
  /\ ~encoderEos /\ ~encoderPanicked
  /\ encoderEos' = TRUE
  /\ UNCHANGED <<rateVars, started, cb, encoderFlushing, encoderPanicked, refused, aborted>>

\* src_event unwraps the structure of every event; some have none.
EncoderPanics ==
  /\ ~encoderPanicked
  /\ encoderPanicked' = TRUE
  /\ UNCHANGED <<rateVars, started, cb, encoderEos, encoderFlushing, refused, aborted>>

\* change_state to Null deactivates the pads.
EncoderStops ==
  /\ encoderFlushing' = TRUE
  /\ UNCHANGED <<rateVars, started, cb, encoderEos, encoderPanicked, refused, aborted>>

\* An element behind this one fails for good: nadatx, say, answers every buffer
\* with an error and every event with false once a pad function has panicked.
DownstreamRefuses ==
  /\ ~refused
  /\ refused' = TRUE
  /\ UNCHANGED <<rateVars, started, cb, encoderEos, encoderFlushing, encoderPanicked,
                 aborted>>

-----------------------------------------------------------------------------
EncoderTypeOK ==
  /\ lockedBy \in Setters \union {NoSetter}
  /\ encoderRate \in Nat /\ target \in Nat \union {Untold}
  /\ started \in BOOLEAN /\ cb \in {"idle", "open"}
  /\ encoderEos \in BOOLEAN /\ encoderFlushing \in BOOLEAN
  /\ encoderPanicked \in BOOLEAN /\ refused \in BOOLEAN
  /\ aborted \in {"none", "push", "overflow", "clock"}
=============================================================================
