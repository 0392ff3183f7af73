------------------------------ MODULE FTDCPack ------------------------------
(***************************************************************************)
(* The delta stream of a chunk: the zero-run packing that                  *)
(* FTDCCompressor::getCompressedSamples writes (compressor.cpp 155-227),   *)
(* the reader's unpacking, and the reconstruction of the samples.  Each    *)
(* element of a packed stream stands for one FTDCVarInt; the varint byte   *)
(* codec and the zlib block compressor are below this level.  The reader   *)
(* (FTDCDecompressor) is not in this repository: Unpack and DecodeSamples  *)
(* follow the specification's chunk decoder.                               *)
(*                                                                         *)
(* RECURSIVE operators: this module is used by TLC runs only.              *)
(***************************************************************************)
EXTENDS Integers, Sequences

\* A reader's result: ok is FALSE for the error status (Corrupt / BadValue).
Ok(x) == [ok |-> TRUE, val |-> x]
Corrupt == [ok |-> FALSE, val |-> << >>]

\* Mutant: the run written as its length instead of its length - 1.
ZeroRunCount(zeroes) == IF zeroes > 0 THEN <<0, zeroes>> ELSE << >>

\* VarInt(0), VarInt(zeroesCount - 1): a run of zeroesCount zero deltas.
ZeroRun(zeroes) == IF zeroes > 0 THEN <<0, zeroes - 1>> ELSE << >>

(* The loop of getCompressedSamples over the metric-major delta sequence   *)
(* ds from position k on, with zeroes zero deltas pending: a zero is       *)
(* counted, a non-zero delta first flushes the pending run; after the last *)
(* delta of the last metric the pending run is flushed.                    *)
RECURSIVE PackFrom(_, _, _)
PackFrom(ds, k, zeroes) ==
    IF k > Len(ds)
      THEN ZeroRun(zeroes)
      ELSE IF ds[k] = 0
             THEN PackFrom(ds, k + 1, zeroes + 1)
             ELSE ZeroRun(zeroes) \o <<ds[k]>> \o PackFrom(ds, k + 1, 0)

\* The packed payload of chunk c: present iff both counts are non-zero.
Pack(c) == IF c.m # 0 /\ c.d # 0 THEN PackFrom(c.deltas, 1, 0) ELSE << >>

(* The reader: n deltas from the packed stream p, a pair (0, r) standing   *)
(* for r + 1 zeros; Corrupt when the stream ends early.                    *)
RECURSIVE Unpack(_, _)
Unpack(p, n) ==
    IF n = 0 THEN Ok(<< >>)
    ELSE IF p = << >> THEN Corrupt
    ELSE IF Head(p) # 0
      THEN LET rest == Unpack(Tail(p), n - 1)
           IN  IF rest.ok THEN Ok(<<Head(p)>> \o rest.val) ELSE Corrupt
    ELSE IF Len(p) < 2 THEN Corrupt
    ELSE LET run == IF p[2] + 1 < n THEN p[2] + 1 ELSE n
             rest == Unpack(SubSeq(p, 3, Len(p)), n - run)
         IN  IF rest.ok THEN Ok([x \in 1..run |-> 0] \o rest.val) ELSE Corrupt

\* Running value of metric i after j deltas of a d-sample chunk, mod.
RECURSIVE MetricAfter(_, _, _, _, _, _)
MetricAfter(base, ds, d, i, j, mod) ==
    IF j = 0 THEN base
    ELSE (MetricAfter(base, ds, d, i, j - 1, mod) + ds[(i - 1) * d + j]) % mod

(* The metric vectors of the d + 1 samples a chunk decodes to: the          *)
(* reference's own, then each successor's by wrap-around addition.  The    *)
(* reference must carry exactly m metrics (the decoder re-extracts it and *)
(* rejects a count that differs from the header's).                        *)
DecodeSamples(c, mod) ==
    LET ds == Unpack(Pack(c), c.m * c.d)
    IN  IF ~ds.ok \/ Len(c.ref.vals) # c.m
          THEN Corrupt
          ELSE Ok([j \in 1..(c.d + 1) |->
                     [i \in 1..c.m |-> MetricAfter(c.ref.vals[i], ds.val, c.d, i, j - 1, mod)]])

=============================================================================
