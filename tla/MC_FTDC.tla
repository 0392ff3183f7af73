------------------------------- MODULE MC_FTDC -------------------------------
(***************************************************************************)
(* The compressor composed with the packing and the reader: what a chunk   *)
(* returned by addSample decodes to.  Constants for the TLC runs.          *)
(***************************************************************************)
EXTENDS FTDCCompressor, FTDCPack, SequencesExt

CONSTANTS a, b, z, d0, d1, e

\* a: one metric, b: two metrics, z: no metric (only strings),
\* d0 / d1: too deep, after zero / one extracted metric, e: BSONObj().
MCNumMetrics == (a :> 1) @@ (b :> 2) @@ (z :> 0) @@ (d0 :> 0) @@ (d1 :> 1) @@ (e :> 0)

\* Metric values 0, 1, 3 of a 2-bit word: 0 - 3 and 3 - 0 wrap.
MCValues == {0, 1, 3}

Decoded(c) == DecodeSamples(c, Mod)

\* The samples the current, not yet flushed, chunk holds.
Pending == IF HasDataToFlush THEN Decoded(CompressedSamples) ELSE Ok(<< >>)

(* Every chunk addSample returns can be read back: it decodes without      *)
(* error and holds at most maxSamplesPerArchiveMetricChunk samples (the    *)
(* reference plus at most _maxDeltas deltas).                              *)
ChunksWellFormed ==
    \A k \in DOMAIN chunks :
        /\ Decoded(chunks[k]).ok
        /\ chunks[k].d <= MaxSamplesPerChunk - 1

(* No sample is lost, duplicated or altered: the chunks returned since the *)
(* last reset, decoded and concatenated, followed by the samples still     *)
(* held by the compressor, are exactly the metric vectors of the samples   *)
(* addSample accepted, in order.  This covers the deltas against the       *)
(* previous sample, the metric-major layout, the zero runs, the            *)
(* schema-change hand-over and the full-chunk reset.                       *)
Lossless ==
    /\ \A k \in DOMAIN chunks : Decoded(chunks[k]).ok
    /\ Pending.ok
    /\ FlattenSeq([k \in DOMAIN chunks |-> Decoded(chunks[k]).val]) \o Pending.val
         = [k \in DOMAIN fed |-> fed[k].vals]

(* The date returned with a chunk is the capture date of its reference     *)
(* sample, the first sample of the chunk, not the date of the call that    *)
(* flushed it.                                                             *)
ChunkDates ==
    \A k \in DOMAIN chunks :
        LET before == FlattenSeq([x \in 1..(k - 1) |-> Decoded(chunks[x]).val])
        IN  /\ Len(before) < Len(fed)
            /\ fed[Len(before) + 1].date = chunks[k].date

-----------------------------------------------------------------------------
(* The refinement mapping to FTDCChunks: the batches handed over are the   *)
(* returned chunks, decoded, with their dates; the open batch is what the *)
(* current chunk decodes to, dated by the reference sample.               *)
MCVectors == UNION {[1..NumMetrics[s] -> Values] : s \in Schemas}

Batches == INSTANCE FTDCChunks WITH
    Vectors  <- MCVectors,
    Dates    <- 1..MaxCalls,
    NoDate   <- 0,
    out      <- [k \in DOMAIN chunks |->
                    [samples |-> Decoded(chunks[k]).val, date |-> chunks[k].date]],
    held     <- Pending.val,
    heldDate <- IF HasDataToFlush THEN referenceDocDate ELSE 0

(* The compressor implements the batcher: every addSample or reset is a   *)
(* step of FTDCChunks or leaves it unchanged.  A chunk is handed over     *)
(* only full or on a schema change, never empty, never with a sample of   *)
(* the open batch missing, and a failed extraction leaves the open batch  *)
(* as it was.                                                             *)
ImplementsBatches == Batches!Spec
=============================================================================
