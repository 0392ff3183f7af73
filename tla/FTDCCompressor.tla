--------------------------- MODULE FTDCCompressor ---------------------------
(***************************************************************************)
(* The FTDC chunk assembler, FTDCCompressor (src/mongo/db/ftdc/            *)
(* compressor.cpp, compressor.h).  One compressor is owned by the FTDC     *)
(* sampling thread, so every public call (addSample, reset) is one atomic  *)
(* step.                                                                   *)
(*                                                                         *)
(* Data abstraction.  A BSON sample is a record [schema, vals]: "schema"   *)
(* stands for the sequence of FTDC-typed field names and type classes the  *)
(* extractor compares (util.cpp 187-283), "vals" for the uint64 metric     *)
(* vector it produces.  Metric values are residues modulo Mod, the model's *)
(* 2^64.  The extractor is abstracted to its result: an error for a        *)
(* document nested deeper than kMaxRecursion (after it has appended the    *)
(* metrics that precede the deep field), otherwise "matches" iff the two   *)
(* schemas are equal.  The emitted chunk is the record the byte buffer     *)
(* encodes; the zero-run packing of its delta stream is FTDCPack.          *)
(***************************************************************************)
EXTENDS Integers, Sequences

CONSTANTS
    Schemas,            \* shapes of the documents the sampler produces
    EmptySchema,        \* the shape of BSONObj(), the empty document, which
                        \* the sampler produces iff it is in Schemas
    NumMetrics,         \* metrics extracted from a document of a shape
    DeepSchemas,        \* shapes nested deeper than kMaxRecursion
    MaxSamplesPerChunk, \* FTDCConfig::maxSamplesPerArchiveMetricChunk
    Mod,                \* 2^64 of the model: metric values are mod Mod
    Values,             \* metric values a sample may carry
    CompressMayFail,    \* BlockCompressor::compress may return an error
    ResetAfterError,    \* the owner discards the compressor after an error
    MaxCalls            \* bound on addSample calls (the capture clock)

Shapes == Schemas \cup {EmptySchema}

ASSUME SchemaAssumption ==
    /\ DeepSchemas \subseteq Schemas
    /\ Shapes \subseteq DOMAIN NumMetrics
    /\ \A s \in Shapes : NumMetrics[s] \in Nat
    /\ NumMetrics[EmptySchema] = 0
    /\ EmptySchema \notin DeepSchemas

ASSUME ConfigAssumption ==
    /\ MaxSamplesPerChunk \in Nat /\ MaxSamplesPerChunk >= 2
    /\ Mod \in Nat /\ Mod >= 2
    /\ Values \subseteq 0..(Mod - 1)
    /\ CompressMayFail \in BOOLEAN
    /\ ResetAfterError \in BOOLEAN
    /\ MaxCalls \in Nat

VARIABLES
    referenceDoc,      \* _referenceDoc
    referenceDocDate,  \* _referenceDocDate
    metricsCount,      \* _metricsCount
    deltaCount,        \* _deltaCount
    maxDeltas,         \* _maxDeltas
    deltas,            \* _deltas, indexed 0 .. size-1
    metrics,           \* _metrics
    prevmetrics,       \* _prevmetrics
    now,               \* capture date of the last addSample call
    failed,            \* the last call returned an error status
    chunks,            \* history: chunks returned by addSample
    fed                \* history: samples accepted since the last reset

vars == <<referenceDoc, referenceDocDate, metricsCount, deltaCount, maxDeltas,
          deltas, metrics, prevmetrics, now, failed, chunks, fed>>

-----------------------------------------------------------------------------
(* Documents, extraction and the chunk record.                             *)

Sample == [schema : Shapes, vals : Seq(Values)]

Samples ==
    UNION { [schema : {s}, vals : [1..NumMetrics[s] -> Values]] : s \in Schemas }

EmptyDoc == [schema |-> EmptySchema, vals |-> << >>]

\* BSONObj::isEmpty(); hasDataToFlush() is its negation.
IsEmpty(doc) == doc.schema = EmptySchema

HasDataToFlush == ~IsEmpty(referenceDoc)

\* extractMetricsFromDocument fails with "Recursion limit reached".
ExtractFails(doc) == doc.schema \in DeepSchemas

\* extractMetricsFromDocument's schema verdict for a document that parses.
Matches(ref, cur) == ref.schema = cur.schema

\* getArrayOffset(sampleCount, sample, metric).
GetArrayOffset(sampleCount, sample, metric) == metric * sampleCount + sample

\* std::vector::resize: old elements kept, new ones value-initialised.
Resize(v, n) == [k \in 0..(n - 1) |-> IF k \in DOMAIN v THEN v[k] ELSE 0]

\* _deltas[k]; out of the vector the read is undefined, here 0.
DeltaAt(dl, k) == IF k \in DOMAIN dl THEN dl[k] ELSE 0

Chunk == [ref : Sample, date : Nat, m : Nat, d : Nat, deltas : Seq(0..(Mod - 1))]

\* The content getCompressedSamples serialises from the given state: the
\* reference document, the metric and delta counts, and the deltas in
\* metric-major order (metric i outer, sample j inner).
ChunkOf(ref, date, m, d, md, dl) ==
    [ref    |-> ref,
     date   |-> date,
     m      |-> m,
     d      |-> d,
     deltas |-> [k \in 1..(m * d) |->
                   DeltaAt(dl, GetArrayOffset(md, (k - 1) % d, (k - 1) \div d))]]

CompressedSamples ==
    ChunkOf(referenceDoc, referenceDocDate, metricsCount, deltaCount, maxDeltas, deltas)

-----------------------------------------------------------------------------
(* Mutants of _reset: _deltas resized before _metricsCount and _maxDeltas  *)
(* are set (the old sizes), the date not recorded, _prevmetrics cleared    *)
(* after the swap instead of before, _maxDeltas without the "- 1".         *)
ResetToResizeFirst(doc, date, m) ==
    /\ referenceDoc' = doc
    /\ referenceDocDate' = date
    /\ metricsCount' = Len(m)
    /\ deltaCount' = 0
    /\ prevmetrics' = m
    /\ metrics' = << >>
    /\ maxDeltas' = MaxSamplesPerChunk - 1
    /\ deltas' = Resize(deltas, metricsCount * maxDeltas)

ResetToKeepDate(doc, date, m) ==
    /\ referenceDoc' = doc
    /\ referenceDocDate' = referenceDocDate
    /\ metricsCount' = Len(m)
    /\ deltaCount' = 0
    /\ prevmetrics' = m
    /\ metrics' = << >>
    /\ maxDeltas' = MaxSamplesPerChunk - 1
    /\ deltas' = Resize(deltas, Len(m) * (MaxSamplesPerChunk - 1))

ResetToClearedPrev(doc, date, m) ==
    /\ referenceDoc' = doc
    /\ referenceDocDate' = date
    /\ metricsCount' = Len(m)
    /\ deltaCount' = 0
    /\ prevmetrics' = << >>
    /\ metrics' = m
    /\ maxDeltas' = MaxSamplesPerChunk - 1
    /\ deltas' = Resize(deltas, Len(m) * (MaxSamplesPerChunk - 1))

ResetToFullMax(doc, date, m) ==
    /\ referenceDoc' = doc
    /\ referenceDocDate' = date
    /\ metricsCount' = Len(m)
    /\ deltaCount' = 0
    /\ prevmetrics' = m
    /\ metrics' = << >>
    /\ maxDeltas' = MaxSamplesPerChunk
    /\ deltas' = Resize(deltas, Len(m) * MaxSamplesPerChunk)

(* FTDCCompressor::_reset(doc, date), applied to the vector m held in      *)
(* _metrics: it becomes _prevmetrics and fixes the metric count.           *)
ResetTo(doc, date, m) ==
    /\ referenceDoc' = doc
    /\ referenceDocDate' = date
    /\ metricsCount' = Len(m)
    /\ deltaCount' = 0
    /\ prevmetrics' = m
    /\ metrics' = << >>
    /\ maxDeltas' = MaxSamplesPerChunk - 1
    /\ deltas' = Resize(deltas, Len(m) * (MaxSamplesPerChunk - 1))

Init ==
    /\ referenceDoc = EmptyDoc
    /\ referenceDocDate = 0
    /\ metricsCount = 0
    /\ deltaCount = 0
    /\ maxDeltas = 0
    /\ deltas = << >>
    /\ metrics = << >>
    /\ prevmetrics = << >>
    /\ now = 0
    /\ failed = FALSE
    /\ chunks = << >>
    /\ fed = << >>

Accept(s, date) == fed' = Append(fed, [vals |-> s.vals, date |-> date])

(* addSample with no reference document: extract the sample against       *)
(* itself, appending to _metrics, which is not cleared on this path.       *)
AddReference(s, date) ==
    /\ IsEmpty(referenceDoc)
    /\ IF ExtractFails(s)
         THEN /\ metrics' = metrics \o s.vals
              /\ failed' = TRUE
              /\ UNCHANGED <<referenceDoc, referenceDocDate, metricsCount,
                             deltaCount, maxDeltas, deltas, prevmetrics, fed>>
         ELSE /\ ResetTo(s, date, metrics \o s.vals)
              /\ failed' = FALSE
              /\ Accept(s, date)
    /\ UNCHANGED chunks

(* Extraction against the reference fails: the sample is dropped.          *)
AddExtractError(s) ==
    /\ ~IsEmpty(referenceDoc)
    /\ ExtractFails(s)
    /\ metrics' = s.vals
    /\ failed' = TRUE
    /\ UNCHANGED <<referenceDoc, referenceDocDate, metricsCount, deltaCount,
                   maxDeltas, deltas, prevmetrics, chunks, fed>>

(* Mutant: _reset(sample, date) moved before getCompressedSamples, so a   *)
(* failed flush has already replaced the reference.                        *)
AddSchemaChangedResetFirst(s, date) ==
    /\ ~IsEmpty(referenceDoc)
    /\ ~ExtractFails(s)
    /\ ~Matches(referenceDoc, s)
    /\ \/ /\ chunks' = Append(chunks, CompressedSamples)
          /\ ResetTo(s, date, s.vals)
          /\ failed' = FALSE
          /\ Accept(s, date)
       \/ /\ CompressMayFail
          /\ ResetTo(s, date, s.vals)
          /\ failed' = TRUE
          /\ UNCHANGED <<chunks, fed>>

(* The schema changed: flush the current chunk, then the sample becomes    *)
(* the new reference (kSchemaChanged).  If compression fails the error is  *)
(* returned before _reset.                                                 *)
AddSchemaChanged(s, date) ==
    /\ ~IsEmpty(referenceDoc)
    /\ ~ExtractFails(s)
    /\ ~Matches(referenceDoc, s)
    /\ \/ /\ chunks' = Append(chunks, CompressedSamples)
          /\ ResetTo(s, date, s.vals)
          /\ failed' = FALSE
          /\ Accept(s, date)
       \/ /\ CompressMayFail
          /\ metrics' = s.vals
          /\ failed' = TRUE
          /\ UNCHANGED <<referenceDoc, referenceDocDate, metricsCount,
                         deltaCount, maxDeltas, deltas, prevmetrics, chunks, fed>>

(* Same schema: store the deltas against the previous sample at column     *)
(* _deltaCount (a write past the vector is dropped), count the sample and  *)
(* swap the vectors.  When the count reaches _maxDeltas the chunk is       *)
(* flushed (kCompressorFull) and the reference cleared if the flush        *)
(* succeeded; the count and deltas are already advanced when it fails.     *)
\* _prevmetrics[i]; past the vector the read is undefined, here 0.
PrevAt(i) == IF i \in 1..Len(prevmetrics) THEN prevmetrics[i] ELSE 0

\* Mutant: the delta taken against the reference document instead of the
\* previous sample.
StoreDeltasFromReference(cur) ==
    LET col(k) == (k - deltaCount) \div maxDeltas
        written(k) == /\ (k - deltaCount) % maxDeltas = 0
                      /\ k >= deltaCount
                      /\ col(k) < Len(cur)
    IN  [k \in DOMAIN deltas |->
           IF written(k) THEN (cur[col(k) + 1] - referenceDoc.vals[col(k) + 1]) % Mod
                         ELSE deltas[k]]

StoreDeltas(cur) ==
    LET col(k) == (k - deltaCount) \div maxDeltas
        written(k) == /\ (k - deltaCount) % maxDeltas = 0
                      /\ k >= deltaCount
                      /\ col(k) < Len(cur)
    IN  [k \in DOMAIN deltas |->
           IF written(k) THEN (cur[col(k) + 1] - PrevAt(col(k) + 1)) % Mod
                         ELSE deltas[k]]

AddDelta(s, date) ==
    /\ ~IsEmpty(referenceDoc)
    /\ ~ExtractFails(s)
    /\ Matches(referenceDoc, s)
    /\ deltas' = StoreDeltas(s.vals)
    /\ deltaCount' = deltaCount + 1
    /\ prevmetrics' = s.vals
    /\ metrics' = << >>
    /\ UNCHANGED <<referenceDocDate, metricsCount, maxDeltas>>
    /\ \/ /\ deltaCount + 1 # maxDeltas
          /\ failed' = FALSE
          /\ Accept(s, date)
          /\ UNCHANGED <<referenceDoc, chunks>>
       \/ /\ deltaCount + 1 = maxDeltas
          /\ chunks' = Append(chunks, ChunkOf(referenceDoc, referenceDocDate, metricsCount,
                                              deltaCount + 1, maxDeltas, deltas'))
          /\ referenceDoc' = EmptyDoc
          /\ failed' = FALSE
          /\ Accept(s, date)
       \/ /\ deltaCount + 1 = maxDeltas
          /\ CompressMayFail
          /\ failed' = TRUE
          /\ UNCHANGED <<referenceDoc, chunks, fed>>

(* FTDCCompressor::addSample(sample, date).  The owner stops calling it    *)
(* after an error when ResetAfterError holds.                              *)
AddSample(s) ==
    /\ now < MaxCalls
    /\ ~(ResetAfterError /\ failed)
    /\ now' = now + 1
    /\ \/ AddReference(s, now + 1)
       \/ AddExtractError(s)
       \/ AddSchemaChanged(s, now + 1)
       \/ AddDelta(s, now + 1)

(* FTDCCompressor::reset(): _metrics.clear() then _reset(BSONObj(),        *)
(* Date_t()).  The samples not yet flushed are abandoned.                  *)
Reset ==
    /\ ResetTo(EmptyDoc, 0, << >>)
    /\ failed' = FALSE
    /\ chunks' = << >>
    /\ fed' = << >>
    /\ UNCHANGED now

Next ==
    \/ \E s \in Samples : AddSample(s)
    \/ Reset

Spec == Init /\ [][Next]_vars

-----------------------------------------------------------------------------
TypeOK ==
    /\ referenceDoc \in Sample
    /\ referenceDocDate \in Nat
    /\ metricsCount \in Nat
    /\ deltaCount \in Nat
    /\ maxDeltas \in Nat
    /\ deltas \in [0..(metricsCount * maxDeltas - 1) -> 0..(Mod - 1)]
    /\ metrics \in Seq(Values)
    /\ prevmetrics \in Seq(Values)
    /\ now \in 0..MaxCalls
    /\ failed \in BOOLEAN
    /\ chunks \in Seq(Chunk)
    /\ fed \in Seq([vals : Seq(Values), date : 1..MaxCalls])

(* The counts the compressor relies on agree with its vectors (the dassert *)
(* of addSample, compressor.cpp 85, and the spec's 0 <= D <= Dmax): the    *)
(* delta count never exceeds _maxDeltas; while a reference is held,        *)
(* _metricsCount is its metric count and _prevmetrics has that length; and *)
(* with no reference and no pending error, _metrics holds nothing that a   *)
(* new reference would inherit.                                            *)
CountsConsistent ==
    /\ deltaCount <= maxDeltas
    /\ HasDataToFlush =>
          /\ metricsCount = NumMetrics[referenceDoc.schema]
          /\ Len(prevmetrics) = metricsCount
    /\ ~HasDataToFlush /\ ~failed => metrics = << >>



(* No call of addSample abandons samples that are waiting to be flushed:  *)
(* a call that replaces the held reference (schema change, compressor.cpp  *)
(* 90-98) or clears it (full chunk, 118-131) returns in the same call a    *)
(* chunk of that reference, with its date and every delta pending, and a   *)
(* flush that fails leaves the reference in place.  reset(), the only      *)
(* other step that changes the reference, discards on purpose; it is not a *)
(* call of addSample, each of which takes the next call date.              *)
FlushBeforeReplace ==
    ( /\ now' = now + 1
      /\ HasDataToFlush
      /\ <<referenceDoc', referenceDocDate'>> # <<referenceDoc, referenceDocDate>> )
    => /\ Len(chunks') = Len(chunks) + 1
       /\ chunks'[Len(chunks')].ref = referenceDoc
       /\ chunks'[Len(chunks')].date = referenceDocDate
       /\ chunks'[Len(chunks')].d >= deltaCount

\* Every step of the compressor satisfies FlushBeforeReplace.
ReferenceFlushedBeforeReplaced == [][FlushBeforeReplace]_vars


-----------------------------------------------------------------------------
(* The delta stream, read without the decoder.  The accepted samples       *)
(* fed[r], ..., fed[r + d] are what a reference and d columns of deltas    *)
(* encode when the reference carries fed[r]'s vector and date and the     *)
(* delta of metric i at column j is the uint64 difference of that metric   *)
(* in fed[r + j + 1] and in fed[r + j].                                    *)
Step(p, i) == (fed[p + 1].vals[i + 1] - fed[p].vals[i + 1]) % Mod

\* A returned chunk encodes fed[r .. r + c.d] (metric-major deltas).
ChunkEncodes(c, r) ==
    /\ r \in 1..Len(fed)
    /\ r + c.d <= Len(fed)
    /\ fed[r].vals = c.ref.vals
    /\ fed[r].date = c.date
    /\ \A i \in 0..(c.m - 1), j \in 0..(c.d - 1) :
          c.deltas[i * c.d + j + 1] = Step(r + j, i)

\* The held reference and _deltas encode fed[r ..], the last accepted
\* samples, and _prevmetrics is the last of them.
PendingEncodes(r) ==
    /\ r \in 1..Len(fed)
    /\ Len(fed) = r + deltaCount
    /\ fed[r].vals = referenceDoc.vals
    /\ fed[r].date = referenceDocDate
    /\ prevmetrics = fed[Len(fed)].vals
    /\ \A i \in 0..(metricsCount - 1), j \in 0..(deltaCount - 1) :
          deltas[GetArrayOffset(maxDeltas, j, i)] = Step(r + j, i)

\* What the compressor holds from position p of fed on.
HeldFrom(p) ==
    IF HasDataToFlush THEN PendingEncodes(p) ELSE p = Len(fed) + 1

\* Chunk k encodes the accepted samples from r on, and what follows it
\* (the next chunk, or what the compressor holds) starts right after them.
ChunkTiles(k, r) ==
    /\ ChunkEncodes(chunks[k], r)
    /\ k = 1 => r = 1
    /\ k < Len(chunks) => ChunkEncodes(chunks[k + 1], r + chunks[k].d + 1)
    /\ k = Len(chunks) => HeldFrom(r + chunks[k].d + 1)

(* Every accepted sample is encoded once, in order, read without the      *)
(* decoder: the accepted dates increase, so a chunk's date names its first *)
(* sample; the first chunk starts at the first accepted sample; each chunk *)
(* encodes the samples from its reference on; the next chunk starts right  *)
(* after its last one; and after the last chunk, the pending reference and *)
(* deltas encode the rest.  A delta stored against anything but the        *)
(* previous accepted sample breaks it, and so does a sample accepted twice *)
(* or skipped at a hand-over.                                              *)
SamplesEncoded ==
    /\ \A p, q \in DOMAIN fed : p < q => fed[p].date < fed[q].date
    /\ chunks = << >> => HeldFrom(1)
    /\ \A k \in DOMAIN chunks : \E r \in DOMAIN fed : ChunkTiles(k, r)

=============================================================================
