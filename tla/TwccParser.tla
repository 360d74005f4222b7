----------------------------- MODULE TwccParser -----------------------------
(***************************************************************************)
(* parse_twcc: a transport-wide feedback message read from front to back   *)
(* by a bit reader, whose every read fails behind the end of the message.  *)
(*                                                                         *)
(* The content of a message is drawn as it is read, so a behaviour stands  *)
(* for every message of that length it agrees with; position and length    *)
(* keep their real widths in bits.  Times are counted in ticks of 250      *)
(* microseconds.  arrivals is what the message says of the receive times,  *)
(* with 2-byte deltas as the signed numbers they are; only properties read *)
(* it.  Each read of the header and of a chunk is one step, failures of    *)
(* the reads inside it included.                                           *)
(*                                                                         *)
(* An operator that stands just before the one it resembles and differs    *)
(* from it by a slip is never used by the specification.                   *)
(***************************************************************************)
EXTENDS Integers, Sequences

CONSTANTS
  SeqModulus,    \* size of the number space, 2^16
  DeltaModulus,  \* size of a 1-byte delta, 2^8
  VectorBits,    \* bits for symbols in a status vector chunk, 14
  Lengths,       \* lengths of a message, in bytes
  Bases,         \* base sequence numbers
  Counts,        \* packet status counts
  Runs,          \* run lengths
  RefTimes,      \* reference times, in ticks
  SmallDeltas,   \* 1-byte deltas
  LargeDeltas    \* 2-byte deltas, signed

ASSUME WidthAssumption ==
  /\ SeqModulus \in Nat \ {0} /\ DeltaModulus \in Nat \ {0}
  /\ VectorBits \in Nat \ {0}
ASSUME MessageAssumption ==
  /\ Lengths \subseteq Nat /\ Bases \subseteq 0 .. SeqModulus - 1
  /\ Counts \subseteq 0 .. SeqModulus - 1 /\ Runs \subseteq Nat
  /\ RefTimes \subseteq Nat
  /\ SmallDeltas \subseteq 0 .. DeltaModulus - 1 /\ LargeDeltas \subseteq Int

VARIABLES
  length,          \* of the message, in bits
  position,        \* of the reader
  phase,           \* what is read next, or how the call ended
  base, count,     \* base_seq, packet_status
  lastBase,        \* last: base of the message before
  entries,         \* ecn_list: [seq, ecn, ts]
  refTime,         \* ref_time
  tsRounded,       \* ts_rounded
  arrivals,        \* receive times of the entries whose delta has been read
  overflowChecks   \* the debug build, or the release build

message == <<length, lastBase, overflowChecks>>
vars == <<position, phase, base, count, entries, refTime, tsRounded, arrivals, message>>

Init ==
  /\ length \in {8 * l : l \in Lengths}
  /\ lastBase \in Bases /\ overflowChecks \in BOOLEAN
  /\ position = 0 /\ phase = "base" /\ base = 0 /\ count = 0
  /\ entries = <<>> /\ refTime = 0 /\ tsRounded = 0 /\ arrivals = <<>>

Least(m, n) == IF m < n THEN m ELSE n

-----------------------------------------------------------------------------
(* Header *)

CanRead(bits) == position + bits <= length

\* A base equal to the last one is taken for a repetition: Ok(vec![]).
ReadBase ==
  /\ phase = "base" /\ CanRead(16)
  /\ base' \in Bases
  /\ position' = position + 16
  /\ phase' = IF base' = lastBase THEN "ok" ELSE "header"
  /\ UNCHANGED <<count, entries, refTime, tsRounded, arrivals, message>>

\* packet_status, ref_time and fb_pkt_count
ReadHeader ==
  /\ phase = "header" /\ CanRead(48)
  /\ count' \in Counts
  /\ refTime' \in RefTimes /\ tsRounded' = refTime'
  /\ position' = position + 48
  /\ phase' = "chunks"
  /\ UNCHANGED <<base, entries, arrivals, message>>

-----------------------------------------------------------------------------
(* while packets_parsed < packet_status *)

Parsed == Len(entries)
Remaining == count - Parsed

\* base_seq + packets_parsed + i in 16 bits
NumberWide(i) == base + Parsed + i
Number(i) == (base + Parsed + i) % SeqModulus
OverflowsOneEarly(i) == overflowChecks /\ base + Parsed + i + 1 >= SeqModulus
Overflows(i) == overflowChecks /\ base + Parsed + i >= SeqModulus

\* Entries for the next packets, with the symbols given.
Pushed(symbols) ==
  [i \in 1 .. Len(symbols) |->
     [seq |-> Number(i - 1), ecn |-> symbols[i], ts |-> 0]]

Take(bits, symbols) ==
  /\ CanRead(bits)
  /\ \A i \in 0 .. Len(symbols) - 1 : ~Overflows(i)
  /\ entries' = entries \o Pushed(symbols)
  /\ position' = position + bits
  /\ UNCHANGED <<phase, base, count, refTime, tsRounded, arrivals, message>>

AtChunk == phase = "chunks" /\ Parsed < count
Constant(symbol, n) == [i \in 1 .. n |-> symbol]

RunUnbounded(run) == run
RunTaken(run) == Least(Remaining, run)

\* A run length chunk; a run of length 0 yields nothing and is legal.
ReadRun(symbol, run) ==
  /\ AtChunk /\ ~Overflows(0)
  /\ Take(16, Constant(symbol, RunTaken(run)))

\* A status vector chunk: the symbols are read from the bits that follow it.
VectorTaken(size) == Least(Remaining, VectorBits \div size)

ReadVector(size, symbols) ==
  /\ AtChunk /\ ~Overflows(0)
  /\ Take(16 + size * VectorTaken(size), symbols)

\* The vectors of symbols of one or two bits that the reader may find.
Symbols(size) == [1 .. VectorTaken(size) -> 0 .. 2 * size - 1]

\* The reader is exhausted: at the chunk, or at a symbol before which no
\* number overflows.
SymbolMissing ==
  \E size \in {1, 2} : \E i \in 1 .. VectorTaken(size) :
    /\ CanRead(16) /\ ~CanRead(16 + size * i)
    /\ \A k \in 0 .. i - 2 : ~Overflows(k)

\* With a chunk behind the end taken for a run of length 0.
EndReadsAsZero == AtChunk /\ ~Overflows(0) /\ SymbolMissing
ChunkMissing == AtChunk /\ ~Overflows(0) /\ (~CanRead(16) \/ SymbolMissing)

\* A number beyond 65535 panics in the debug build.
NumberOverflows ==
  /\ AtChunk
  /\ \/ Overflows(0)
     \/ CanRead(16) /\ \E run \in Runs : \E i \in 1 .. RunTaken(run) : Overflows(i - 1)
     \/ \E size \in {1, 2} : \E i \in 1 .. VectorTaken(size) :
          CanRead(16 + size * i) /\ Overflows(i - 1)

-----------------------------------------------------------------------------
(* for pkt in ecn_list.iter_mut() *)

AtDelta == phase = "chunks" /\ Parsed >= count /\ Len(arrivals) < Parsed
Index == Len(arrivals) + 1
Told == IF arrivals = <<>> THEN refTime ELSE arrivals[Len(arrivals)]

HighByte(delta) == delta \div DeltaModulus
\* as u8
LowByte(delta) == delta % DeltaModulus

Stamp(bits, delta, told) ==
  /\ CanRead(bits)
  /\ position' = position + bits
  /\ tsRounded' = tsRounded + delta
  /\ entries' = [entries EXCEPT ![Index].ts = tsRounded']
  /\ arrivals' = Append(arrivals, Told + told)
  /\ UNCHANGED <<phase, base, count, refTime, message>>

ReadSmallDelta ==
  /\ AtDelta /\ entries[Index].ecn = 1
  /\ \E delta \in SmallDeltas : Stamp(8, delta, delta)

ReadLargeDelta ==
  /\ AtDelta /\ entries[Index].ecn = 2
  /\ \E delta \in LargeDeltas : Stamp(16, LowByte(delta), delta)

\* The reserved symbol has no delta and gets the time of the packet before.
StampReserved == AtDelta /\ entries[Index].ecn = 3 /\ Stamp(0, 0, 0)

\* Not received: the time stays 0.
SkipLost ==
  /\ AtDelta /\ entries[Index].ecn = 0
  /\ arrivals' = Append(arrivals, Told)
  /\ UNCHANGED <<position, phase, base, count, entries, refTime, tsRounded, message>>

DeltaMissing == AtDelta /\ entries[Index].ecn \in {1, 2} /\ ~CanRead(8 * entries[Index].ecn)

-----------------------------------------------------------------------------
ReadsOnwards == <<position, base, count, entries, refTime, tsRounded, arrivals, message>>

\* Ok((ecn_list, ..))
Finish ==
  /\ phase = "chunks" /\ Parsed >= count /\ Len(arrivals) = Parsed
  /\ phase' = "ok"
  /\ UNCHANGED ReadsOnwards

Fail ==
  /\ \/ phase = "base" /\ ~CanRead(16)
     \/ phase = "header" /\ ~CanRead(48)
     \/ ChunkMissing
     \/ DeltaMissing
  /\ phase' = "err"
  /\ UNCHANGED ReadsOnwards

Panic ==
  /\ NumberOverflows
  /\ phase' = "panic"
  /\ UNCHANGED ReadsOnwards

Next ==
  \/ ReadBase \/ ReadHeader
  \/ \E symbol \in 0 .. 3, run \in Runs : ReadRun(symbol, run)
  \/ \E size \in {1, 2} : \E symbols \in Symbols(size) : ReadVector(size, symbols)
  \/ ReadSmallDelta \/ ReadLargeDelta \/ StampReserved \/ SkipLost
  \/ Finish \/ Fail \/ Panic

Spec == Init /\ [][Next]_vars

\* The loop runs in one call and nothing holds it up.
FairSpec == Spec /\ WF_vars(Next)

-----------------------------------------------------------------------------
(* Properties *)

\* Every variable has its type; the numbers of the entries fit 16 bits.
ParserTypeOK ==
  /\ length \in Nat /\ position \in Nat
  /\ phase \in {"base", "header", "chunks", "ok", "err", "panic"}
  /\ base \in 0 .. SeqModulus - 1 /\ count \in 0 .. SeqModulus - 1
  /\ lastBase \in 0 .. SeqModulus - 1 /\ overflowChecks \in BOOLEAN
  /\ entries \in Seq([seq : 0 .. SeqModulus - 1, ecn : 0 .. 3, ts : Nat])
  /\ refTime \in Nat /\ tsRounded \in Nat /\ arrivals \in Seq(Int)

\* However run lengths and vectors split the message, the entries are for
\* the packets from the base on, each once and in order, as many as the
\* header counts; the reader never reads behind the end.
ReportIsContiguous ==
  /\ \A k \in 1 .. Parsed : entries[k].seq = (base + k - 1) % SeqModulus
  /\ Parsed <= count
  /\ (phase = "ok" /\ base # lastBase) => Parsed = count
  /\ position <= length

Received(k) == entries[k].ecn # 0

\* The time of a received packet differs from the one the message tells by
\* whole multiples of 64 ms, and not at all while no 2-byte delta was read;
\* times never decrease.
TimesAreCongruent ==
  \A k \in 1 .. Len(arrivals) : Received(k) =>
    /\ (entries[k].ts - arrivals[k]) % DeltaModulus = 0
    /\ (\A j \in 1 .. k : entries[j].ecn # 2) => entries[k].ts = arrivals[k]
    /\ \A j \in 1 .. k : Received(j) => entries[j].ts <= entries[k].ts

\* A call panics only in the debug build and only on a message that reports
\* packets on both sides of the wrap.
PanicOnlyAcrossWrap ==
  phase = "panic" => overflowChecks /\ base + count > SeqModulus

\* Every message comes to an end, runs of length 0 included.
ParseEnds == <>(phase \in {"ok", "err", "panic"})
=============================================================================
