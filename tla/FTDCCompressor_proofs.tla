------------------------ MODULE FTDCCompressor_proofs ------------------------
(***************************************************************************)
(* Proofs about the FTDC compressor for every value of the constants.      *)
(***************************************************************************)
EXTENDS FTDCCompressor, TLAPS

(* A sample the sampler can produce has as many metrics as its shape and   *)
(* is a well-typed document.                                               *)
LEMMA SampleFacts ==
    ASSUME NEW s \in Samples
    PROVE  /\ s \in Sample
           /\ s.schema \in Schemas
           /\ s.vals \in Seq(Values)
           /\ Len(s.vals) = NumMetrics[s.schema]
<1>1. PICK sc \in Schemas : s \in [schema : {sc}, vals : [1..NumMetrics[sc] -> Values]]
  BY DEF Samples
<1>2. NumMetrics[sc] \in Nat
  BY SchemaAssumption DEF Shapes
<1>3. s.vals \in Seq(Values) /\ Len(s.vals) = NumMetrics[sc]
  BY <1>1, <1>2
<1>4. QED
  BY <1>1, <1>3 DEF Sample, Shapes

USE SchemaAssumption, ConfigAssumption

(* Every state of a chunk built from a well-typed state is a Chunk.        *)
LEMMA ChunkOfType ==
    ASSUME NEW ref \in Sample, NEW date \in Nat, NEW m \in Nat, NEW d \in Nat,
           NEW md \in Nat, NEW dl \in [0..(m * md - 1) -> 0..(Mod - 1)]
    PROVE  ChunkOf(ref, date, m, d, md, dl) \in Chunk
<1>1. \A k \in Int : DeltaAt(dl, k) \in 0..(Mod - 1)
  BY DEF DeltaAt
<1>2. m * d \in Nat
  OBVIOUS
<1>3. [k \in 1..(m * d) |-> DeltaAt(dl, GetArrayOffset(md, (k - 1) % d, (k - 1) \div d))]
        \in Seq(0..(Mod - 1))
  BY <1>1, <1>2 DEF GetArrayOffset
<1>4. QED
  BY <1>3 DEF ChunkOf, Chunk

(* Integer division of a natural by a positive natural is natural.        *)
LEMMA DivNat ==
    ASSUME NEW x \in Nat, NEW y \in Nat, y > 0
    PROVE  x \div y \in Nat
  BY SMT

(* An element of a metric vector is a value of the 64-bit word.           *)
LEMMA VectorElem ==
    ASSUME NEW p \in Seq(Values), NEW i \in 1..Len(p)
    PROVE  p[i] \in 0..(Mod - 1)
<1>1. p[i] \in Values
  OBVIOUS
<1>2. QED
  BY <1>1, ConfigAssumption, Zenon

(* The deltas addSample stores stay values of the 64-bit word.            *)
LEMMA StoreDeltasType ==
    ASSUME TypeOK, NEW cur \in Seq(Values)
    PROVE  StoreDeltas(cur) \in [0..(metricsCount * maxDeltas - 1) -> 0..(Mod - 1)]
<1> DEFINE col(k) == (k - deltaCount) \div maxDeltas
<1>1. \A i \in Int : PrevAt(i) \in Int
  <2> TAKE i \in Int
  <2>1. CASE i \in 1..Len(prevmetrics)
    BY <2>1, VectorElem DEF PrevAt, TypeOK
  <2>2. CASE i \notin 1..Len(prevmetrics)
    BY <2>2 DEF PrevAt
  <2>3. QED
    BY <2>1, <2>2
<1>2. ASSUME NEW k \in 0..(metricsCount * maxDeltas - 1),
             k >= deltaCount, col(k) < Len(cur)
      PROVE  (cur[col(k) + 1] - PrevAt(col(k) + 1)) % Mod \in 0..(Mod - 1)
  <2>1. maxDeltas > 0
    BY <1>2 DEF TypeOK
  <2>2. k - deltaCount \in Nat
    BY <1>2 DEF TypeOK
  <2>3. col(k) \in Nat
    BY <2>1, <2>2, DivNat DEF TypeOK, col
  <2>4. col(k) + 1 \in 1..Len(cur)
    BY <1>2, <2>3
  <2>5. cur[col(k) + 1] \in 0..(Mod - 1)
    BY <2>4, VectorElem
  <2>6. PrevAt(col(k) + 1) \in Int
    BY <1>1, <2>3
  <2>7. QED
    BY <2>5, <2>6, ConfigAssumption, SMT
<1>3. QED
  BY <1>2 DEF StoreDeltas, TypeOK

\* The part of TypeOK about the variables _reset assigns.
ResetVarsTypeOK ==
    /\ referenceDoc \in Sample
    /\ referenceDocDate \in Nat
    /\ metricsCount \in Nat
    /\ deltaCount \in Nat
    /\ maxDeltas \in Nat
    /\ deltas \in [0..(metricsCount * maxDeltas - 1) -> 0..(Mod - 1)]
    /\ metrics \in Seq(Values)
    /\ prevmetrics \in Seq(Values)

LEMMA TypeOKSplit ==
    TypeOK <=> /\ ResetVarsTypeOK
               /\ now \in 0..MaxCalls
               /\ failed \in BOOLEAN
               /\ chunks \in Seq(Chunk)
               /\ fed \in Seq([vals : Seq(Values), date : 1..MaxCalls])
  BY DEF TypeOK, ResetVarsTypeOK

(* _reset keeps the state well typed.                                      *)
LEMMA ResetToType ==
    ASSUME TypeOK, NEW doc \in Sample, NEW date \in Nat, NEW m \in Seq(Values),
           ResetTo(doc, date, m)
    PROVE  ResetVarsTypeOK'
<1>1. Len(m) * (MaxSamplesPerChunk - 1) \in Nat
  OBVIOUS
<1>2. Resize(deltas, Len(m) * (MaxSamplesPerChunk - 1))
        \in [0..(Len(m) * (MaxSamplesPerChunk - 1) - 1) -> 0..(Mod - 1)]
  BY <1>1 DEF Resize, TypeOK
<1>3. QED
  BY <1>2 DEF ResetTo, ResetVarsTypeOK

(* The type invariant.                                                     *)
THEOREM TypeCorrect == Spec => []TypeOK
<1>1. Init => TypeOK
  <2> SUFFICES ASSUME Init PROVE TypeOK
    OBVIOUS
  <2>1. EmptyDoc \in Sample
    BY DEF EmptyDoc, Sample, Shapes
  <2>2. << >> \in [0..(0 * 0 - 1) -> 0..(Mod - 1)]
    OBVIOUS
  <2>3. << >> \in Seq(Chunk) /\ << >> \in Seq(Values)
        /\ << >> \in Seq([vals : Seq(Values), date : 1..MaxCalls])
    OBVIOUS
  <2>4. referenceDoc \in Sample BY <2>1 DEF Init
  <2>5. deltas \in [0..(metricsCount * maxDeltas - 1) -> 0..(Mod - 1)] BY <2>2 DEF Init
  <2>6. now \in 0..MaxCalls BY DEF Init
  <2>7. chunks \in Seq(Chunk) /\ fed \in Seq([vals : Seq(Values), date : 1..MaxCalls]) BY <2>3 DEF Init
  <2>8. QED
    BY <2>3, <2>4, <2>5, <2>6, <2>7 DEF Init, TypeOK
<1>2. TypeOK /\ [Next]_vars => TypeOK'
  <2> SUFFICES ASSUME TypeOK, [Next]_vars PROVE TypeOK'
    OBVIOUS
  <2>0. EmptyDoc \in Sample /\ << >> \in Seq(Values)
    BY DEF EmptyDoc, Sample, Shapes
  <2>1. ASSUME NEW s \in Samples, AddSample(s) PROVE TypeOK'
    <3>1. s \in Sample /\ s.vals \in Seq(Values)
      BY SampleFacts
    <3>2. now \in 0..(MaxCalls - 1) /\ now' = now + 1
      BY <2>1 DEF AddSample, TypeOK
    <3>3. now + 1 \in 1..MaxCalls /\ now' \in 0..MaxCalls
      BY <3>2
    <3>4. ASSUME NEW date \in 1..MaxCalls, Accept(s, date)
          PROVE  fed' \in Seq([vals : Seq(Values), date : 1..MaxCalls])
      BY <3>1, <3>4 DEF Accept, TypeOK
    <3>5. CASE AddReference(s, now + 1)
      <4>1. CASE ExtractFails(s)
        <5>1. /\ metrics' = metrics \o s.vals
              /\ failed' = TRUE
              /\ UNCHANGED <<referenceDoc, referenceDocDate, metricsCount,
                             deltaCount, maxDeltas, deltas, prevmetrics, fed, chunks>>
          BY <3>5, <4>1 DEF AddReference
        <5>2. QED
          BY <3>1, <3>3, <5>1 DEF TypeOK
      <4>2. CASE ~ExtractFails(s)
        <5>1. metrics \o s.vals \in Seq(Values)
          BY <3>1 DEF TypeOK
        <5>2. /\ ResetTo(s, now + 1, metrics \o s.vals)
              /\ Accept(s, now + 1)
              /\ UNCHANGED chunks
              /\ failed' = FALSE
          BY <3>5, <4>2 DEF AddReference
        <5>3. fed' \in Seq([vals : Seq(Values), date : 1..MaxCalls])
          BY <3>3, <3>4, <5>2
        <5>4. ResetVarsTypeOK'
          <6>1. now + 1 \in Nat
            BY <3>3
          <6>2. QED
            BY <3>1, <5>1, <5>2, <6>1, ResetToType
        <5>5. QED
          BY <3>3, <5>2, <5>3, <5>4 DEF TypeOK, ResetVarsTypeOK
      <4>3. QED
        BY <4>1, <4>2
    <3>6. CASE AddExtractError(s)
      <4>1. /\ metrics' = s.vals
            /\ failed' = TRUE
            /\ UNCHANGED <<referenceDoc, referenceDocDate, metricsCount, deltaCount,
                           maxDeltas, deltas, prevmetrics, chunks, fed>>
        BY <3>6 DEF AddExtractError
      <4>2. QED
        BY <3>1, <3>3, <4>1 DEF TypeOK
    <3>7. CASE AddSchemaChanged(s, now + 1)
      <4>1. CompressedSamples \in Chunk
        BY ChunkOfType DEF TypeOK, CompressedSamples
      <4>2. CASE /\ chunks' = Append(chunks, CompressedSamples)
                 /\ ResetTo(s, now + 1, s.vals)
                 /\ failed' = FALSE
                 /\ Accept(s, now + 1)
        <5>1. fed' \in Seq([vals : Seq(Values), date : 1..MaxCalls])
          BY <3>3, <3>4, <4>2
        <5>2. chunks' \in Seq(Chunk)
          BY <4>1, <4>2 DEF TypeOK
        <5>3. ResetVarsTypeOK'
          <6>1. now + 1 \in Nat
            BY <3>3
          <6>2. QED
            BY <3>1, <4>2, <6>1, ResetToType
        <5>4. QED
          BY <3>3, <4>2, <5>1, <5>2, <5>3 DEF TypeOK, ResetVarsTypeOK
      <4>3. CASE /\ metrics' = s.vals
                 /\ failed' = TRUE
                 /\ UNCHANGED <<referenceDoc, referenceDocDate, metricsCount,
                                deltaCount, maxDeltas, deltas, prevmetrics, chunks, fed>>
        BY <3>1, <3>3, <4>3 DEF TypeOK
      <4>4. QED
        BY <3>7, <4>2, <4>3 DEF AddSchemaChanged
    <3>8. CASE AddDelta(s, now + 1)
      <4>1. StoreDeltas(s.vals) \in [0..(metricsCount * maxDeltas - 1) -> 0..(Mod - 1)]
        BY <3>1, StoreDeltasType
      <4>2. ChunkOf(referenceDoc, referenceDocDate, metricsCount, deltaCount + 1,
                    maxDeltas, StoreDeltas(s.vals)) \in Chunk
        <5>1. /\ referenceDoc \in Sample /\ referenceDocDate \in Nat
              /\ metricsCount \in Nat /\ deltaCount + 1 \in Nat /\ maxDeltas \in Nat
          BY DEF TypeOK
        <5>2. QED
          BY <4>1, <5>1, ChunkOfType
      <4>3. /\ deltas' = StoreDeltas(s.vals)
            /\ deltaCount' = deltaCount + 1
            /\ prevmetrics' = s.vals
            /\ metrics' = << >>
            /\ UNCHANGED <<referenceDocDate, metricsCount, maxDeltas>>
        BY <3>8 DEF AddDelta
      <4>4. /\ referenceDoc' \in Sample
            /\ failed' \in BOOLEAN
            /\ chunks' \in Seq(Chunk)
            /\ fed' \in Seq([vals : Seq(Values), date : 1..MaxCalls])
        <5>1. CASE /\ failed' = FALSE
                   /\ Accept(s, now + 1)
                   /\ UNCHANGED <<referenceDoc, chunks>>
          BY <3>3, <3>4, <5>1 DEF TypeOK
        <5>2. CASE /\ chunks' = Append(chunks, ChunkOf(referenceDoc, referenceDocDate,
                                   metricsCount, deltaCount + 1, maxDeltas, deltas'))
                   /\ referenceDoc' = EmptyDoc
                   /\ failed' = FALSE
                   /\ Accept(s, now + 1)
          <6>1. fed' \in Seq([vals : Seq(Values), date : 1..MaxCalls])
            BY <3>3, <3>4, <5>2
          <6>2. chunks' \in Seq(Chunk)
            BY <4>2, <4>3, <5>2 DEF TypeOK
          <6>3. QED
            BY <2>0, <5>2, <6>1, <6>2
        <5>3. CASE /\ failed' = TRUE
                   /\ UNCHANGED <<referenceDoc, chunks, fed>>
          BY <5>3 DEF TypeOK
        <5>4. QED
          BY <3>8, <5>1, <5>2, <5>3 DEF AddDelta
      <4>5. QED
        BY <3>1, <3>3, <4>1, <4>3, <4>4 DEF TypeOK
    <3>9. QED
      BY <2>1, <3>5, <3>6, <3>7, <3>8 DEF AddSample
  <2>2. CASE Reset
    <3>1. ResetTo(EmptyDoc, 0, << >>) /\ failed' = FALSE /\ chunks' = << >>
          /\ fed' = << >> /\ UNCHANGED now
      BY <2>2 DEF Reset
    <3>2. << >> \in Seq(Chunk) /\ << >> \in Seq([vals : Seq(Values), date : 1..MaxCalls])
      OBVIOUS
    <3>3. ResetVarsTypeOK'
      <4>1. 0 \in Nat
        OBVIOUS
      <4>2. QED
        BY <2>0, <3>1, <4>1, ResetToType
    <3>4. QED
      BY <3>1, <3>2, <3>3 DEF TypeOK, ResetVarsTypeOK
  <2>3. CASE UNCHANGED vars
    BY <2>3 DEF vars, TypeOK
  <2>4. QED
    BY <2>1, <2>2, <2>3 DEF Next
<1>3. QED
  BY <1>1, <1>2, PTL DEF Spec

-----------------------------------------------------------------------------
(* CountsConsistent is not inductive by itself: a step of addSample on the *)
(* delta path may only advance _deltaCount if it was below _maxDeltas.     *)
(* While a reference is held and no error is pending (the owner stops after *)
(* one), the chunk is not yet full: the full chunk is flushed in the same  *)
(* call that filled it, or the call failed.                                *)
CountsInductive ==
    /\ CountsConsistent
    /\ HasDataToFlush /\ ~failed => deltaCount < maxDeltas

(* _reset to a document whose metric vector m it extracted leaves the      *)
(* counts consistent and the chunk empty.                                  *)
LEMMA ResetToCounts ==
    ASSUME TypeOK, NEW doc \in Sample, NEW date, NEW m \in Seq(Values),
           Len(m) = NumMetrics[doc.schema],
           ResetTo(doc, date, m), failed' = FALSE
    PROVE  CountsInductive'
<1>1. deltaCount' = 0 /\ maxDeltas' = MaxSamplesPerChunk - 1 /\ metrics' = << >>
  BY DEF ResetTo
<1>2. referenceDoc' = doc /\ metricsCount' = Len(m) /\ prevmetrics' = m
  BY DEF ResetTo
<1>3. deltaCount' < maxDeltas'
  BY <1>1
<1>4. QED
  BY <1>1, <1>2, <1>3 DEF CountsInductive, CountsConsistent, HasDataToFlush, IsEmpty

\* The strengthened counts invariant holds under the stopping owner.
LEMMA CountsInductiveHolds ==
    ASSUME ResetAfterError
    PROVE  Spec => []CountsInductive
<1>1. Init => CountsInductive
  BY DEF Init, CountsInductive, CountsConsistent, HasDataToFlush, IsEmpty, EmptyDoc
<1>2. TypeOK /\ CountsInductive /\ [Next]_vars => CountsInductive'
  <2> SUFFICES ASSUME TypeOK, CountsInductive, [Next]_vars PROVE CountsInductive'
    OBVIOUS
  <2>1. ASSUME NEW s \in Samples, AddSample(s) PROVE CountsInductive'
    <3>1. s \in Sample /\ s.vals \in Seq(Values) /\ Len(s.vals) = NumMetrics[s.schema]
      BY SampleFacts
    <3>2. ~failed
      BY <2>1 DEF AddSample
    <3>3. CASE AddReference(s, now + 1) /\ ExtractFails(s)
      <4>1. /\ failed' = TRUE
            /\ UNCHANGED <<referenceDoc, metricsCount, deltaCount, maxDeltas, prevmetrics>>
        BY <3>3 DEF AddReference
      <4>2. QED
        BY <4>1 DEF CountsInductive, CountsConsistent, HasDataToFlush, IsEmpty
    <3>4. CASE AddReference(s, now + 1) /\ ~ExtractFails(s)
      <4>1. metrics = << >>
        BY <3>2, <3>4 DEF AddReference, CountsInductive, CountsConsistent, HasDataToFlush
      <4>2. metrics \o s.vals = s.vals
        BY <3>1, <4>1
      <4>3. ResetTo(s, now + 1, s.vals) /\ failed' = FALSE
        BY <3>4, <4>2 DEF AddReference
      <4>4. QED
        BY <3>1, <4>3, ResetToCounts
    <3>5. CASE AddExtractError(s)
      <4>1. /\ failed' = TRUE
            /\ UNCHANGED <<referenceDoc, metricsCount, deltaCount, maxDeltas, prevmetrics>>
        BY <3>5 DEF AddExtractError
      <4>2. QED
        BY <4>1 DEF CountsInductive, CountsConsistent, HasDataToFlush, IsEmpty
    <3>6. CASE AddSchemaChanged(s, now + 1)
      <4>1. CASE ResetTo(s, now + 1, s.vals) /\ failed' = FALSE
        BY <3>1, <4>1, ResetToCounts
      <4>2. CASE /\ failed' = TRUE
                 /\ UNCHANGED <<referenceDoc, metricsCount, deltaCount, maxDeltas, prevmetrics>>
        BY <4>2 DEF CountsInductive, CountsConsistent, HasDataToFlush, IsEmpty
      <4>3. QED
        BY <3>6, <4>1, <4>2 DEF AddSchemaChanged
    <3>7. CASE AddDelta(s, now + 1)
      <4>1. HasDataToFlush /\ s.schema = referenceDoc.schema
        BY <3>7 DEF AddDelta, HasDataToFlush, Matches
      <4>2. deltaCount < maxDeltas /\ metricsCount = NumMetrics[referenceDoc.schema]
        BY <3>2, <4>1 DEF CountsInductive, CountsConsistent
      <4>3. /\ deltaCount' = deltaCount + 1
            /\ prevmetrics' = s.vals
            /\ metrics' = << >>
            /\ UNCHANGED <<metricsCount, maxDeltas>>
        BY <3>7 DEF AddDelta
      <4>4. deltaCount' <= maxDeltas' /\ Len(prevmetrics') = metricsCount'
        BY <3>1, <4>1, <4>2, <4>3 DEF TypeOK
      <4>5. CASE deltaCount + 1 # maxDeltas /\ failed' = FALSE /\ UNCHANGED referenceDoc
        <5>1. deltaCount' < maxDeltas'
          BY <4>3, <4>4, <4>5 DEF TypeOK
        <5>2. QED
          BY <4>2, <4>3, <4>4, <4>5, <5>1 DEF CountsInductive, CountsConsistent,
             HasDataToFlush, IsEmpty
      <4>6. CASE referenceDoc' = EmptyDoc
        BY <4>3, <4>4, <4>6 DEF CountsInductive, CountsConsistent, HasDataToFlush,
           IsEmpty, EmptyDoc
      <4>7. CASE failed' = TRUE /\ UNCHANGED referenceDoc
        BY <4>2, <4>3, <4>4, <4>7 DEF CountsInductive, CountsConsistent,
           HasDataToFlush, IsEmpty
      <4>8. QED
        BY <3>7, <4>5, <4>6, <4>7 DEF AddDelta
    <3>8. QED
      BY <2>1, <3>3, <3>4, <3>5, <3>6, <3>7 DEF AddSample
  <2>2. CASE Reset
    <3>1. ResetTo(EmptyDoc, 0, << >>) /\ failed' = FALSE
      BY <2>2 DEF Reset
    <3>2. EmptyDoc \in Sample /\ << >> \in Seq(Values)
          /\ Len(<< >>) = NumMetrics[EmptyDoc.schema]
      BY DEF EmptyDoc, Sample, Shapes
    <3>3. QED
      BY <3>1, <3>2, ResetToCounts
  <2>3. CASE UNCHANGED vars
    BY <2>3 DEF vars, CountsInductive, CountsConsistent, HasDataToFlush, IsEmpty
  <2>4. QED
    BY <2>1, <2>2, <2>3 DEF Next
<1>3. QED
  BY <1>1, <1>2, TypeCorrect, PTL DEF Spec

(* Under the owner that stops calling addSample after an error, the counts *)
(* of the compressor stay consistent with its vectors: the dassert of      *)
(* addSample (compressor.cpp 85) never fires and a new reference never     *)
(* inherits stale metrics.                                                 *)
THEOREM CountsConsistentHolds ==
    ASSUME ResetAfterError
    PROVE  Spec => []CountsConsistent
<1>1. CountsInductive => CountsConsistent
  BY DEF CountsInductive
<1>2. QED
  BY <1>1, CountsInductiveHolds, PTL


-----------------------------------------------------------------------------
(* Appending a chunk keeps the earlier ones and puts the new one last.     *)
LEMMA AppendChunk ==
    ASSUME NEW c \in Seq(Chunk), NEW x \in Chunk
    PROVE  /\ Append(c, x) \in Seq(Chunk)
           /\ DOMAIN Append(c, x) = 1..(Len(c) + 1)
           /\ \A k \in 1..Len(c) : Append(c, x)[k] = c[k]
           /\ Append(c, x)[Len(c) + 1] = x
  OBVIOUS

-----------------------------------------------------------------------------
(* The action property.  Only the schema change and the full flush take   *)
(* the reference away in a call of addSample, and both append the chunk of *)
(* that reference in the same call; the other paths keep the reference,   *)
(* and reset() does not advance the call date.                             *)
LEMMA FlushStep ==
    ASSUME TypeOK, [Next]_vars
    PROVE  FlushBeforeReplace
<1> SUFFICES ASSUME now' = now + 1, HasDataToFlush,
                    <<referenceDoc', referenceDocDate'>> # <<referenceDoc, referenceDocDate>>
             PROVE  /\ Len(chunks') = Len(chunks) + 1
                    /\ chunks'[Len(chunks')].ref = referenceDoc
                    /\ chunks'[Len(chunks')].date = referenceDocDate
                    /\ chunks'[Len(chunks')].d >= deltaCount
  BY DEF FlushBeforeReplace
<1>1. chunks \in Seq(Chunk) /\ deltaCount \in Nat
  BY DEF TypeOK
<1>2. ASSUME NEW s \in Samples, AddReference(s, now + 1) PROVE FALSE
  BY <1>2 DEF AddReference, HasDataToFlush
<1>3. ASSUME NEW s \in Samples, AddExtractError(s) PROVE FALSE
  BY <1>3 DEF AddExtractError
<1>4. ASSUME NEW s \in Samples, AddSchemaChanged(s, now + 1)
      PROVE  /\ Len(chunks') = Len(chunks) + 1
             /\ chunks'[Len(chunks')].ref = referenceDoc
             /\ chunks'[Len(chunks')].date = referenceDocDate
             /\ chunks'[Len(chunks')].d >= deltaCount
  <2>1. chunks' = Append(chunks, CompressedSamples)
    BY <1>4 DEF AddSchemaChanged
  <2>2. QED
    BY <1>1, <2>1 DEF CompressedSamples, ChunkOf
<1>5. ASSUME NEW s \in Samples, AddDelta(s, now + 1)
      PROVE  /\ Len(chunks') = Len(chunks) + 1
             /\ chunks'[Len(chunks')].ref = referenceDoc
             /\ chunks'[Len(chunks')].date = referenceDocDate
             /\ chunks'[Len(chunks')].d >= deltaCount
  <2>1. chunks' = Append(chunks, ChunkOf(referenceDoc, referenceDocDate, metricsCount,
                                         deltaCount + 1, maxDeltas, deltas'))
    BY <1>5 DEF AddDelta
  <2>2. QED
    BY <1>1, <2>1 DEF ChunkOf
<1>6. CASE \E s \in Samples : AddSample(s)
  BY <1>2, <1>3, <1>4, <1>5, <1>6 DEF AddSample
<1>7. CASE Reset
  <2>1. now \in Nat /\ now' = now
    BY <1>7 DEF Reset, TypeOK
  <2>2. QED
    BY <2>1
<1>8. CASE UNCHANGED vars
  BY <1>8 DEF vars
<1>9. QED
  BY <1>6, <1>7, <1>8 DEF Next

(* For every configuration, with or without errors: no call of addSample   *)
(* replaces or clears the held reference without returning, in the same   *)
(* call, its chunk with the reference's date and at least its pending      *)
(* deltas -- including before any chunk has been returned.                 *)
THEOREM ReferenceFlushedHolds == Spec => ReferenceFlushedBeforeReplaced
<1>1. TypeOK /\ [Next]_vars => [FlushBeforeReplace]_vars
  BY FlushStep
<1>2. QED
  BY <1>1, TypeCorrect, PTL DEF Spec, ReferenceFlushedBeforeReplaced

=============================================================================
