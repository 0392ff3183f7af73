------------------------ MODULE FTDCEncoding_proofs -------------------------
(***************************************************************************)
(* Proof that the compressor encodes every accepted sample exactly once,   *)
(* in order (SamplesEncoded), for every configuration in which none of the *)
(* three findings can occur.  The lemmas first fix where addSample stores  *)
(* a delta (_deltas[GetArrayOffset(_maxDeltas, column, metric)]) and where  *)
(* getCompressedSamples reads it back from (metric-major order).           *)
(***************************************************************************)
EXTENDS FTDCCompressor_proofs, SequenceTheorems

(* Division with remainder: q * d + r, with r below d, splits back into q  *)
(* and r.                                                                  *)
LEMMA DivMod ==
    ASSUME NEW q \in Nat, NEW d \in Nat \ {0}, NEW r \in 0..(d - 1)
    PROVE  /\ (q * d + r) % d = r
           /\ (q * d + r) \div d = q
  BY SMT

(* The slot of metric i at column j lies in the delta vector of m metrics *)
(* and md columns.                                                         *)
LEMMA OffsetInRange ==
    ASSUME NEW m \in Nat, NEW md \in Nat, NEW i \in 0..(m - 1), NEW j \in 0..(md - 1)
    PROVE  GetArrayOffset(md, j, i) \in 0..(m * md - 1)
<1>1. i * md + j <= (m - 1) * md + (md - 1)
  BY SMT
<1>2. (m - 1) * md + (md - 1) = m * md - 1
  BY SMT
<1>3. i * md + j \in Nat
  BY SMT
<1>4. QED
  BY <1>1, <1>2, <1>3 DEF GetArrayOffset

(* getCompressedSamples reads the delta of metric i at sample column j    *)
(* from the slot addSample wrote it to, for a chunk of d <= md columns.   *)
LEMMA ChunkDeltaAt ==
    ASSUME NEW m \in Nat, NEW d \in Nat, NEW md \in Nat, d <= md,
           NEW dl \in [0..(m * md - 1) -> 0..(Mod - 1)],
           NEW i \in 0..(m - 1), NEW j \in 0..(d - 1)
    PROVE  ChunkOf(referenceDoc, referenceDocDate, m, d, md, dl).deltas[i * d + j + 1]
             = dl[GetArrayOffset(md, j, i)]
<1>1. d \in Nat \ {0}
  OBVIOUS
<1>2. (i * d + j) % d = j /\ (i * d + j) \div d = i
  BY <1>1, DivMod
<1>3. i * d + j + 1 \in 1..(m * d)
  <2>1. i * d + j <= (m - 1) * d + (d - 1)
    BY SMT
  <2>2. (m - 1) * d + (d - 1) = m * d - 1
    BY SMT
  <2>3. i * d + j \in Nat
    BY SMT
  <2>4. QED
    BY <2>1, <2>2, <2>3
<1>4. j \in 0..(md - 1)
  OBVIOUS
<1>5. GetArrayOffset(md, j, i) \in DOMAIN dl
  BY <1>4, OffsetInRange
<1>6. ChunkOf(referenceDoc, referenceDocDate, m, d, md, dl).deltas[i * d + j + 1]
        = DeltaAt(dl, GetArrayOffset(md, (i * d + j) % d, (i * d + j) \div d))
  BY <1>3 DEF ChunkOf
<1>7. QED
  BY <1>2, <1>5, <1>6 DEF DeltaAt

(* addSample writes the deltas of the new sample into column _deltaCount   *)
(* of every metric's row and leaves the earlier columns as they were.      *)
LEMMA StoreDeltasAt ==
    ASSUME TypeOK, deltaCount < maxDeltas,
           NEW cur \in Seq(Values), Len(cur) = metricsCount,
           NEW i \in 0..(metricsCount - 1), NEW j \in 0..deltaCount
    PROVE  StoreDeltas(cur)[GetArrayOffset(maxDeltas, j, i)] =
             IF j = deltaCount THEN (cur[i + 1] - PrevAt(i + 1)) % Mod
                               ELSE deltas[GetArrayOffset(maxDeltas, j, i)]
<1> DEFINE md == maxDeltas
           dc == deltaCount
           k  == i * md + j
<1>1. md \in Nat \ {0} /\ dc \in Nat /\ metricsCount \in Nat /\ j \in 0..(md - 1)
  BY DEF TypeOK
<1>2. k \in DOMAIN deltas
  BY <1>1, OffsetInRange DEF TypeOK, GetArrayOffset
<1>3. CASE j = dc
  <2>1. (k - dc) % md = 0 /\ (k - dc) \div md = i /\ k >= dc
    <3>1. i \in Nat
      BY <1>1
    <3>2. k - dc = i * md + 0
      BY <1>1, <1>3, <3>1
    <3>3. (i * md + 0) % md = 0 /\ (i * md + 0) \div md = i
      BY <1>1, <3>1, DivMod
    <3>4. k >= dc
      BY <1>1, <3>1, <3>2
    <3>5. QED
      BY <3>2, <3>3, <3>4
  <2>2. i < Len(cur)
    BY <1>1
  <2>3. QED
    BY <1>2, <1>3, <2>1, <2>2 DEF StoreDeltas, GetArrayOffset
<1>4. CASE j # dc
  <2>1. ~((k - dc) % md = 0 /\ k >= dc)
    <3>1. CASE i = 0
      BY <1>1, <1>4, <3>1
    <3>2. CASE i # 0
      <4>1. i - 1 \in Nat /\ md - dc + j \in 0..(md - 1) /\ md - dc + j # 0
        BY <1>1, <1>4, <3>2
      <4>2. k - dc = (i - 1) * md + (md - dc + j)
        BY <1>1
      <4>3. ((i - 1) * md + (md - dc + j)) % md = md - dc + j
        BY <1>1, <4>1, DivMod
      <4>4. (k - dc) % md = md - dc + j
        BY <4>2, <4>3
      <4>5. QED
        BY <4>1, <4>4
    <3>3. QED
      BY <3>1, <3>2
  <2>2. QED
    BY <1>2, <1>4, <2>1 DEF StoreDeltas, GetArrayOffset
<1>5. QED
  BY <1>3, <1>4


-----------------------------------------------------------------------------
(* The invariant.  SamplesEncoded needs one more fact to be inductive: the *)
(* accepted dates are no later than the clock, so that the next accepted  *)
(* sample, dated by the next call, comes after all of them.                *)
FedDatesBound == \A p \in DOMAIN fed : fed[p].date <= now

EncInv == FedDatesBound /\ SamplesEncoded

(* The configurations the theorem is about, one conjunct per finding: the  *)
(* owner stops after an error (ftdc_leak), the block compressor does not   *)
(* fail (ftdc_flushfail), the sampler never produces the empty document    *)
(* (ftdc_empty).                                                           *)
EncodingPremises ==
    /\ ResetAfterError
    /\ ~CompressMayFail
    /\ EmptySchema \notin Schemas

(* Accepting one more sample does not change what the samples accepted so *)
(* far encode.                                                             *)
LEMMA EncodesAppend ==
    ASSUME TypeOK, NEW x, fed' = Append(fed, x),
           NEW c \in Chunk, NEW r, ChunkEncodes(c, r)
    PROVE  ChunkEncodes(c, r)'
<1>1. c.d \in Nat /\ c.m \in Nat
  BY Zenon DEF Chunk
<1>2. /\ Len(fed') = Len(fed) + 1
      /\ \A p \in 1..Len(fed) : fed'[p] = fed[p]
  BY DEF TypeOK
<1>3. r \in 1..Len(fed) /\ r + c.d <= Len(fed)
  BY DEF ChunkEncodes
<1>4. \A i \in 0..(c.m - 1), j \in 0..(c.d - 1) : Step(r + j, i)' = Step(r + j, i)
  <2> SUFFICES ASSUME NEW i \in 0..(c.m - 1), NEW j \in 0..(c.d - 1)
               PROVE  Step(r + j, i)' = Step(r + j, i)
    OBVIOUS
  <2>1. r + j \in 1..Len(fed) /\ r + j + 1 \in 1..Len(fed)
    BY <1>1, <1>3
  <2>2. fed'[r + j] = fed[r + j] /\ fed'[r + j + 1] = fed[r + j + 1]
    BY <1>2, <2>1
  <2>3. QED
    BY <2>2 DEF Step
<1>5. QED
  BY <1>1, <1>2, <1>3, <1>4 DEF ChunkEncodes

\* An accepted sample is dated by a call.
LEMMA FedDate ==
    ASSUME TypeOK, NEW p \in 1..Len(fed)
    PROVE  fed[p].date \in 1..MaxCalls
<1>1. fed \in Seq([vals : Seq(Values), date : 1..MaxCalls])
  BY DEF TypeOK
<1>2. fed[p] \in [vals : Seq(Values), date : 1..MaxCalls]
  BY <1>1, ElementOfSeq
<1>3. QED
  BY <1>2, Zenon

(* A step that leaves the accepted samples, the chunks and the compressor's *)
(* pending content alone keeps the encoding.                               *)
LEMMA EncFrame ==
    ASSUME SamplesEncoded,
           UNCHANGED <<fed, chunks, referenceDoc, referenceDocDate, metricsCount,
                       deltaCount, maxDeltas, deltas, prevmetrics>>
    PROVE  SamplesEncoded'
<1>1. HasDataToFlush' = HasDataToFlush
  BY DEF HasDataToFlush, IsEmpty
<1>2. \A p : HeldFrom(p)' = HeldFrom(p)
  BY <1>1 DEF HeldFrom, PendingEncodes, Step
<1>3. \A c, r : ChunkEncodes(c, r)' = ChunkEncodes(c, r)
  BY DEF ChunkEncodes, Step
<1>4. \A k, r : ChunkTiles(k, r)' = ChunkTiles(k, r)
  BY <1>2, <1>3 DEF ChunkTiles
<1>5. QED
  BY <1>2, <1>4 DEF SamplesEncoded

(* The accepted dates stay increasing and bounded by the clock when the    *)
(* next call's sample is accepted.                                         *)
LEMMA DatesAppend ==
    ASSUME TypeOK, EncInv, NEW x, fed' = Append(fed, x), now' = now + 1, x.date = now'
    PROVE  /\ FedDatesBound'
           /\ \A p, q \in DOMAIN fed' : p < q => fed'[p].date < fed'[q].date
<1>1. /\ DOMAIN fed' = 1..(Len(fed) + 1)
      /\ \A p \in 1..Len(fed) : fed'[p] = fed[p]
      /\ fed'[Len(fed) + 1] = x
  BY DEF TypeOK
<1>2. \A p \in 1..Len(fed) : fed[p].date \in 0..now
  <2> SUFFICES ASSUME NEW p \in 1..Len(fed) PROVE fed[p].date \in 0..now
    OBVIOUS
  <2>1. fed[p].date \in 1..MaxCalls /\ fed[p].date <= now
    <3>1. fed[p].date \in 1..MaxCalls
      BY FedDate
    <3>2. p \in DOMAIN fed
      BY DEF TypeOK
    <3>3. QED
      BY <3>1, <3>2 DEF EncInv, FedDatesBound
  <2>2. QED
    BY <2>1, ConfigAssumption
<1>3. now \in Nat
  BY DEF TypeOK
<1>4. FedDatesBound'
  BY <1>1, <1>2, <1>3 DEF FedDatesBound
<1>5. \A p, q \in DOMAIN fed' : p < q => fed'[p].date < fed'[q].date
  <2> SUFFICES ASSUME NEW p \in DOMAIN fed', NEW q \in DOMAIN fed', p < q
               PROVE  fed'[p].date < fed'[q].date
    OBVIOUS
  <2>1. p \in 1..Len(fed)
    BY <1>1
  <2>2. CASE q \in 1..Len(fed)
    BY <1>1, <2>1, <2>2 DEF EncInv, SamplesEncoded
  <2>3. CASE q = Len(fed) + 1
    BY <1>1, <1>2, <1>3, <2>1, <2>3
  <2>4. QED
    BY <1>1, <2>2, <2>3
<1>6. QED
  BY <1>4, <1>5


(* A step that accepts one sample and returns no chunk keeps the encoding  *)
(* if what the compressor holds still starts where it started.             *)
LEMMA KeepChunksStep ==
    ASSUME TypeOK, EncInv, NEW x, fed' = Append(fed, x), now' = now + 1, x.date = now',
           chunks' = chunks,
           \A P : HeldFrom(P) => HeldFrom(P)'
    PROVE  EncInv'
<1>1. /\ FedDatesBound'
      /\ \A p, q \in DOMAIN fed' : p < q => fed'[p].date < fed'[q].date
  BY DatesAppend
<1>2. chunks' = << >> => HeldFrom(1)'
  BY DEF EncInv, SamplesEncoded
<1>3. ASSUME NEW k \in DOMAIN chunks' PROVE \E r \in DOMAIN fed' : ChunkTiles(k, r)'
  <2>1. k \in DOMAIN chunks
    BY <1>3
  <2>2. PICK r \in DOMAIN fed : ChunkTiles(k, r)
    BY <2>1 DEF EncInv, SamplesEncoded
  <2>3. chunks \in Seq(Chunk) /\ chunks[k] \in Chunk /\ chunks[k].d \in Nat
    <3>1. chunks \in Seq(Chunk)
      BY DEF TypeOK
    <3>2. chunks[k] \in Chunk
      BY <2>1, <3>1, ElementOfSeq
    <3>3. QED
      BY <3>1, <3>2, Zenon DEF Chunk
  <2>4. ChunkEncodes(chunks[k], r)'
    <3> DEFINE c == chunks[k]
    <3>1. ChunkEncodes(c, r)'
      BY <2>2, <2>3, EncodesAppend DEF ChunkTiles
    <3>2. QED
      BY <3>1
  <2>5. k < Len(chunks') => ChunkEncodes(chunks[k + 1], r + chunks[k].d + 1)'
    <3> SUFFICES ASSUME k < Len(chunks) PROVE ChunkEncodes(chunks[k + 1], r + chunks[k].d + 1)'
      OBVIOUS
    <3> DEFINE c == chunks[k + 1]
               q == r + chunks[k].d + 1
    <3>1. c \in Chunk
      BY <2>1, <2>3
    <3>2. ChunkEncodes(c, q)
      BY <2>2 DEF ChunkTiles
    <3>3. ChunkEncodes(c, q)'
      BY <3>1, <3>2, EncodesAppend
    <3>4. QED
      BY <3>3
  <2>6. k = Len(chunks') => HeldFrom(r + chunks[k].d + 1)'
    BY <2>2 DEF ChunkTiles
  <2>7. r \in DOMAIN fed'
    BY DEF TypeOK
  <2>8. ChunkTiles(k, r)'
    BY <2>2, <2>4, <2>5, <2>6 DEF ChunkTiles
  <2>9. QED
    BY <2>7, <2>8
<1>4. QED
  BY <1>1, <1>2, <1>3 DEF EncInv, SamplesEncoded


(* A step that accepts one sample and returns chunk c keeps the encoding   *)
(* if c encodes what the compressor held and what it holds now starts     *)
(* right after c.                                                          *)
LEMMA AppendChunkStep ==
    ASSUME TypeOK, EncInv, NEW x, fed' = Append(fed, x), now' = now + 1, x.date = now',
           NEW c \in Chunk, chunks' = Append(chunks, c),
           \A P : HeldFrom(P) => ChunkEncodes(c, P)' /\ HeldFrom(P + c.d + 1)'
    PROVE  EncInv'
<1> DEFINE L == Len(chunks)
<1>1. /\ FedDatesBound'
      /\ \A p, q \in DOMAIN fed' : p < q => fed'[p].date < fed'[q].date
  BY DatesAppend
<1>0. chunks \in Seq(Chunk) /\ DOMAIN fed \subseteq DOMAIN fed'
  BY DEF TypeOK
<1>2. /\ chunks \in Seq(Chunk)
      /\ L \in Nat
      /\ DOMAIN chunks' = 1..(L + 1)
      /\ Len(chunks') = L + 1
      /\ \A k \in 1..L : chunks'[k] = chunks[k]
      /\ chunks'[L + 1] = c
      /\ chunks' # << >>
  BY <1>0, AppendChunk
<1>3. ASSUME NEW k \in 1..L PROVE \E r \in DOMAIN fed' : ChunkTiles(k, r)'
  <2>1. PICK r \in DOMAIN fed : ChunkTiles(k, r)
    BY <1>2 DEF EncInv, SamplesEncoded
  <2>2. chunks[k] \in Chunk /\ chunks[k].d \in Nat
    <3>1. chunks[k] \in Chunk
      BY <1>2, ElementOfSeq
    <3>2. QED
      BY <3>1, Zenon DEF Chunk
  <2>3. ChunkEncodes(chunks[k], r)'
    <3> DEFINE ck == chunks[k]
    <3>1. ChunkEncodes(ck, r)'
      BY <2>1, <2>2, EncodesAppend DEF ChunkTiles
    <3>2. QED
      BY <1>2, <3>1
  <2>4. CASE k < L
    <3> DEFINE cn == chunks[k + 1]
               q  == r + chunks[k].d + 1
    <3>1. cn \in Chunk
      BY <1>2, <2>4, ElementOfSeq
    <3>2. ChunkEncodes(cn, q)'
      BY <2>1, <2>4, <3>1, EncodesAppend DEF ChunkTiles
    <3>3. ChunkTiles(k, r)'
      BY <1>2, <2>1, <2>3, <2>4, <3>2 DEF ChunkTiles
    <3>4. QED
      BY <1>0, <3>3
  <2>5. CASE k = L
    <3> DEFINE q == r + chunks[k].d + 1
    <3>1. HeldFrom(q)
      BY <2>1, <2>5 DEF ChunkTiles
    <3>2. ChunkEncodes(c, q)'
      BY <3>1
    <3>3. ChunkTiles(k, r)'
      BY <1>2, <2>1, <2>3, <2>5, <3>2 DEF ChunkTiles
    <3>4. QED
      BY <1>0, <3>3
  <2>6. QED
    BY <2>4, <2>5
<1>4. \E P : HeldFrom(P) /\ (L = 0 => P = 1)
  <2>1. CASE L = 0
    BY <2>1 DEF EncInv, SamplesEncoded
  <2>2. CASE L # 0
    <3>1. L \in DOMAIN chunks
      BY <1>2, <2>2
    <3>2. PICK r \in DOMAIN fed : ChunkTiles(L, r)
      BY <3>1 DEF EncInv, SamplesEncoded
    <3>3. HeldFrom(r + chunks[L].d + 1)
      BY <3>2 DEF ChunkTiles
    <3>4. QED
      BY <2>2, <3>3
  <2>3. QED
    BY <2>1, <2>2
<1>5. ASSUME NEW k \in Nat, k = L + 1 PROVE \E r \in DOMAIN fed' : ChunkTiles(k, r)'
  <2>1. PICK P : HeldFrom(P) /\ (L = 0 => P = 1)
    BY <1>4
  <2>2. ChunkEncodes(c, P)' /\ HeldFrom(P + c.d + 1)'
    BY <2>1
  <2>3. P \in DOMAIN fed'
    BY <2>2 DEF ChunkEncodes, TypeOK
  <2>4. ChunkTiles(k, P)'
    BY <1>2, <1>5, <2>1, <2>2 DEF ChunkTiles
  <2>5. QED
    BY <2>3, <2>4
<1>6. \A k \in DOMAIN chunks' : \E r \in DOMAIN fed' : ChunkTiles(k, r)'
  BY <1>2, <1>3, <1>5
<1>7. QED
  BY <1>1, <1>2, <1>6 DEF EncInv, SamplesEncoded


(* A same-schema sample: addSample's new column holds the step from the    *)
(* last accepted sample (_prevmetrics) to the new one, and the columns     *)
(* before it still hold the earlier steps.                                 *)
LEMMA NewColumn ==
    ASSUME TypeOK, CountsInductive, ~failed, HasDataToFlush,
           NEW P, PendingEncodes(P),
           NEW s \in Samples, Matches(referenceDoc, s), deltas' = StoreDeltas(s.vals),
           NEW x, x.vals = s.vals, fed' = Append(fed, x)
    PROVE  \A i \in 0..(metricsCount - 1), j \in 0..deltaCount :
              deltas'[GetArrayOffset(maxDeltas, j, i)] = Step(P + j, i)'
<1> SUFFICES ASSUME NEW i \in 0..(metricsCount - 1), NEW j \in 0..deltaCount
             PROVE  deltas'[GetArrayOffset(maxDeltas, j, i)] = Step(P + j, i)'
  OBVIOUS
<1>1. /\ deltaCount < maxDeltas
      /\ metricsCount = NumMetrics[referenceDoc.schema]
      /\ Len(prevmetrics) = metricsCount
  BY DEF CountsInductive, CountsConsistent
<1>2. s.vals \in Seq(Values) /\ Len(s.vals) = metricsCount
  BY <1>1, SampleFacts DEF Matches
<1>3. /\ P \in 1..Len(fed)
      /\ Len(fed) = P + deltaCount
      /\ Len(fed') = Len(fed) + 1
      /\ \A p \in 1..Len(fed) : fed'[p] = fed[p]
      /\ fed'[Len(fed) + 1] = x
  <2>1. P \in 1..Len(fed) /\ Len(fed) = P + deltaCount
    BY DEF PendingEncodes
  <2>2. fed \in Seq([vals : Seq(Values), date : 1..MaxCalls])
    BY DEF TypeOK
  <2>3. Len(fed') = Len(fed) + 1
    BY <2>2
  <2>4. \A p \in 1..Len(fed) : fed'[p] = fed[p]
    BY <2>2
  <2>5. fed'[Len(fed) + 1] = x
    BY <2>2
  <2>6. QED
    BY <2>1, <2>3, <2>4, <2>5
<1>4. deltas'[GetArrayOffset(maxDeltas, j, i)] =
        IF j = deltaCount THEN (s.vals[i + 1] - PrevAt(i + 1)) % Mod
                          ELSE deltas[GetArrayOffset(maxDeltas, j, i)]
  BY <1>1, <1>2, StoreDeltasAt
<1>5. CASE j = deltaCount
  <2>1. PrevAt(i + 1) = fed[Len(fed)].vals[i + 1]
    <3>1. i + 1 \in 1..Len(prevmetrics)
      BY <1>1 DEF TypeOK
    <3>2. QED
      BY <3>1 DEF PrevAt, PendingEncodes
  <2>2. fed'[P + j + 1] = x /\ fed'[P + j] = fed[Len(fed)]
    BY <1>3, <1>5 DEF TypeOK
  <2>3. QED
    BY <1>4, <1>5, <2>1, <2>2 DEF Step
<1>6. CASE j # deltaCount
  <2>1. j \in 0..(deltaCount - 1)
    BY <1>6 DEF TypeOK
  <2>2. deltas[GetArrayOffset(maxDeltas, j, i)] = Step(P + j, i)
    BY <2>1 DEF PendingEncodes
  <2>3. P + j \in 1..Len(fed) /\ P + j + 1 \in 1..Len(fed)
    BY <1>3, <2>1 DEF TypeOK
  <2>4. Step(P + j, i)' = Step(P + j, i)
    BY <1>3, <2>3 DEF Step
  <2>5. QED
    BY <1>4, <1>6, <2>2, <2>4
<1>7. QED
  BY <1>5, <1>6


(* _reset(sample, date) with the sample's own metrics, the sample accepted *)
(* as the next one: what the compressor holds is that one sample.          *)
LEMMA NewReference ==
    ASSUME TypeOK, NEW s \in Samples, EmptySchema \notin Schemas,
           NEW date, ResetTo(s, date, s.vals),
           fed' = Append(fed, [vals |-> s.vals, date |-> date]),
           NEW P, P = Len(fed) + 1
    PROVE  /\ HasDataToFlush'
           /\ PendingEncodes(P)'
<1>1. s \in Sample /\ s.schema \in Schemas
  BY SampleFacts
<1>2. HasDataToFlush'
  BY <1>1 DEF ResetTo, HasDataToFlush, IsEmpty
<1>3. /\ Len(fed') = P
      /\ fed'[P] = [vals |-> s.vals, date |-> date]
      /\ P \in 1..Len(fed')
  BY DEF TypeOK
<1>4. /\ referenceDoc' = s /\ referenceDocDate' = date /\ prevmetrics' = s.vals
      /\ deltaCount' = 0
  BY DEF ResetTo
<1>5. QED
  BY <1>2, <1>3, <1>4 DEF PendingEncodes


\* A call that accepts nothing keeps the accepted dates below the clock.
LEMMA DatesTick ==
    ASSUME TypeOK, FedDatesBound, UNCHANGED fed, now' \in {now, now + 1}
    PROVE  FedDatesBound'
<1> SUFFICES ASSUME NEW p \in DOMAIN fed PROVE fed[p].date <= now'
  BY DEF FedDatesBound
<1>1. fed[p].date \in 1..MaxCalls /\ fed[p].date <= now /\ now \in Nat
  BY FedDate DEF FedDatesBound, TypeOK
<1>2. QED
  BY <1>1, ConfigAssumption

(* addSample with no reference: a failed extraction changes nothing the    *)
(* encoding reads; otherwise the sample becomes the reference and is the   *)
(* one sample the compressor holds, right after the last chunk's.          *)
LEMMA EncAddReference ==
    ASSUME EncodingPremises, TypeOK, CountsInductive, EncInv, ~failed,
           NEW s \in Samples, now' = now + 1, AddReference(s, now + 1)
    PROVE  EncInv'
<1>1. CASE ExtractFails(s)
  <2>1. UNCHANGED <<fed, chunks, referenceDoc, referenceDocDate, metricsCount,
                    deltaCount, maxDeltas, deltas, prevmetrics>>
    BY <1>1 DEF AddReference
  <2>2. SamplesEncoded'
    BY <2>1, EncFrame DEF EncInv
  <2>3. FedDatesBound'
    BY <2>1, DatesTick DEF EncInv
  <2>4. QED
    BY <2>2, <2>3 DEF EncInv
<1>2. CASE ~ExtractFails(s)
  <2>1. ~HasDataToFlush /\ metrics = << >>
    BY DEF AddReference, CountsInductive, CountsConsistent, HasDataToFlush
  <2>2. metrics \o s.vals = s.vals
    BY <2>1, SampleFacts
  <2>3. /\ ResetTo(s, now + 1, s.vals)
        /\ chunks' = chunks
        /\ fed' = Append(fed, [vals |-> s.vals, date |-> now + 1])
    BY <1>2, <2>2 DEF AddReference, Accept
  <2>4. \A P : HeldFrom(P) => HeldFrom(P)'
    <3> SUFFICES ASSUME NEW P, HeldFrom(P) PROVE HeldFrom(P)'
      OBVIOUS
    <3>1. P = Len(fed) + 1
      BY <2>1 DEF HeldFrom
    <3>2. HasDataToFlush' /\ PendingEncodes(P)'
      BY <2>3, <3>1, NewReference DEF EncodingPremises
    <3>3. QED
      BY <3>2 DEF HeldFrom
  <2>5. QED
    BY <2>3, <2>4, KeepChunksStep
<1>3. QED
  BY <1>1, <1>2


(* The chunk getCompressedSamples builds from d columns, each holding the  *)
(* steps of consecutive accepted samples from the reference on, encodes    *)
(* those samples.                                                          *)
LEMMA ChunkFromColumns ==
    ASSUME TypeOK, NEW P \in Nat, NEW d \in Nat, d <= maxDeltas,
           P \in 1..Len(fed'), P + d <= Len(fed'),
           fed'[P].vals = referenceDoc.vals, fed'[P].date = referenceDocDate,
           NEW dl \in [0..(metricsCount * maxDeltas - 1) -> 0..(Mod - 1)],
           \A i \in 0..(metricsCount - 1), j \in 0..(d - 1) :
              dl[GetArrayOffset(maxDeltas, j, i)] = Step(P + j, i)',
           NEW c, c = ChunkOf(referenceDoc, referenceDocDate, metricsCount, d, maxDeltas, dl)
    PROVE  ChunkEncodes(c, P)'
<1>1. c.ref = referenceDoc /\ c.date = referenceDocDate /\ c.m = metricsCount /\ c.d = d
  BY DEF ChunkOf
<1>2. \A i \in 0..(metricsCount - 1), j \in 0..(d - 1) :
         c.deltas[i * d + j + 1] = Step(P + j, i)'
  <2> SUFFICES ASSUME NEW i \in 0..(metricsCount - 1), NEW j \in 0..(d - 1)
               PROVE  c.deltas[i * d + j + 1] = Step(P + j, i)'
    OBVIOUS
  <2>1. metricsCount \in Nat /\ maxDeltas \in Nat
    BY DEF TypeOK
  <2>2. ChunkOf(referenceDoc, referenceDocDate, metricsCount, d, maxDeltas, dl).deltas[i * d + j + 1]
          = dl[GetArrayOffset(maxDeltas, j, i)]
    BY <2>1, ChunkDeltaAt, Zenon
  <2>3. QED
    BY <2>2
<1>3. QED
  BY <1>1, <1>2 DEF ChunkEncodes

(* addSample with a new schema flushes what the compressor holds as one    *)
(* chunk and makes the sample the reference of the next.                   *)
LEMMA EncSchemaChanged ==
    ASSUME EncodingPremises, TypeOK, CountsInductive, EncInv, ~failed,
           NEW s \in Samples, now' = now + 1, AddSchemaChanged(s, now + 1)
    PROVE  EncInv'
<1> DEFINE x == [vals |-> s.vals, date |-> now + 1]
<1>1. /\ chunks' = Append(chunks, CompressedSamples)
      /\ ResetTo(s, now + 1, s.vals)
      /\ fed' = Append(fed, x)
  BY DEF AddSchemaChanged, EncodingPremises, Accept
<1>2. PICK c : c = CompressedSamples
  OBVIOUS
<1>3. c \in Chunk
  BY <1>2, ChunkOfType DEF TypeOK, CompressedSamples
<1>4. \A P : HeldFrom(P) => ChunkEncodes(c, P)' /\ HeldFrom(P + c.d + 1)'
  <2> SUFFICES ASSUME NEW P, HeldFrom(P)
               PROVE  ChunkEncodes(c, P)' /\ HeldFrom(P + c.d + 1)'
    OBVIOUS
  <2>1. HasDataToFlush /\ PendingEncodes(P)
    BY DEF AddSchemaChanged, HeldFrom, HasDataToFlush
  <2>0. deltaCount \in Nat /\ metricsCount \in Nat /\ maxDeltas \in Nat
    BY DEF TypeOK
  <2>2. /\ P \in 1..Len(fed)
        /\ Len(fed) = P + deltaCount
        /\ Len(fed') = Len(fed) + 1
        /\ \A p \in 1..Len(fed) : fed'[p] = fed[p]
    <3>1. fed \in Seq([vals : Seq(Values), date : 1..MaxCalls])
      BY DEF TypeOK
    <3>2. QED
      BY <1>1, <2>1, <3>1 DEF PendingEncodes
  <2>3. \A i \in 0..(metricsCount - 1), j \in 0..(deltaCount - 1) :
           deltas[GetArrayOffset(maxDeltas, j, i)] = Step(P + j, i)'
    <3> SUFFICES ASSUME NEW i \in 0..(metricsCount - 1), NEW j \in 0..(deltaCount - 1)
                 PROVE  deltas[GetArrayOffset(maxDeltas, j, i)] = Step(P + j, i)'
      OBVIOUS
    <3>1. P + j \in 1..Len(fed) /\ P + j + 1 \in 1..Len(fed)
      BY <2>0, <2>2
    <3>2. Step(P + j, i)' = Step(P + j, i)
      BY <2>2, <3>1 DEF Step
    <3>3. QED
      BY <2>1, <3>2 DEF PendingEncodes
  <2>4. ChunkEncodes(c, P)'
    <3>1. deltaCount <= maxDeltas /\ P \in Nat
      BY <2>2 DEF CountsInductive, CountsConsistent
    <3>2. fed'[P].vals = referenceDoc.vals /\ fed'[P].date = referenceDocDate
      BY <2>1, <2>2 DEF PendingEncodes
    <3>3. P \in 1..Len(fed') /\ P + deltaCount <= Len(fed')
      BY <2>0, <2>2
    <3>4. deltas \in [0..(metricsCount * maxDeltas - 1) -> 0..(Mod - 1)]
      BY DEF TypeOK
    <3>5. c = ChunkOf(referenceDoc, referenceDocDate, metricsCount, deltaCount, maxDeltas, deltas)
      BY <1>2 DEF CompressedSamples
    <3>6. QED
      BY <2>0, <2>3, <3>1, <3>2, <3>3, <3>4, <3>5, ChunkFromColumns
  <2>5. P + c.d + 1 = Len(fed) + 1
    <3>1. c.d = deltaCount
      BY <1>2 DEF CompressedSamples, ChunkOf
    <3>2. QED
      BY <2>0, <2>2, <3>1
  <2>6. PICK Q : Q = Len(fed) + 1
    OBVIOUS
  <2>7. HasDataToFlush' /\ PendingEncodes(Q)'
    BY <1>1, <2>6, NewReference DEF EncodingPremises
  <2>8. HeldFrom(P + c.d + 1)'
    <3>1. P + c.d + 1 = Q
      BY <2>5, <2>6, <2>0, <2>2
    <3>2. QED
      BY <2>7, <3>1 DEF HeldFrom
  <2>9. QED
    BY <2>4, <2>8
<1>5. QED
  BY <1>1, <1>2, <1>3, <1>4, AppendChunkStep


(* addSample with the reference's schema stores one more column; when it   *)
(* fills the chunk, the chunk is flushed and nothing is held after it.     *)
LEMMA EncAddDelta ==
    ASSUME EncodingPremises, TypeOK, CountsInductive, EncInv, ~failed,
           NEW s \in Samples, now' = now + 1, AddDelta(s, now + 1)
    PROVE  EncInv'
<1> DEFINE x == [vals |-> s.vals, date |-> now + 1]
<1>1. /\ HasDataToFlush /\ Matches(referenceDoc, s)
      /\ deltas' = StoreDeltas(s.vals) /\ deltaCount' = deltaCount + 1
      /\ prevmetrics' = s.vals
      /\ UNCHANGED <<referenceDocDate, metricsCount, maxDeltas>>
      /\ fed' = Append(fed, x)
  BY DEF AddDelta, HasDataToFlush, EncodingPremises, Accept
<1>2. /\ deltaCount \in Nat /\ metricsCount \in Nat /\ maxDeltas \in Nat
      /\ deltaCount < maxDeltas
  BY <1>1 DEF TypeOK, CountsInductive
\* Where the held samples start, their facts after the step.
<1>3. ASSUME NEW P, HeldFrom(P)
      PROVE  /\ PendingEncodes(P)
             /\ P \in 1..Len(fed) /\ Len(fed) = P + deltaCount
             /\ Len(fed') = Len(fed) + 1 /\ fed'[P] = fed[P]
             /\ \A i \in 0..(metricsCount - 1), j \in 0..deltaCount :
                   deltas'[GetArrayOffset(maxDeltas, j, i)] = Step(P + j, i)'
  <2>1. PendingEncodes(P)
    BY <1>1, <1>3 DEF HeldFrom
  <2>2. P \in 1..Len(fed) /\ Len(fed) = P + deltaCount
    BY <2>1 DEF PendingEncodes
  <2>3. Len(fed') = Len(fed) + 1 /\ fed'[P] = fed[P]
    <3>1. fed \in Seq([vals : Seq(Values), date : 1..MaxCalls])
      BY DEF TypeOK
    <3>2. fed' = Append(fed, x)
      BY <1>1
    <3>3. QED
      BY <2>2, <3>1, <3>2
  <2>4. \A i \in 0..(metricsCount - 1), j \in 0..deltaCount :
           deltas'[GetArrayOffset(maxDeltas, j, i)] = Step(P + j, i)'
    BY <1>1, <2>1, NewColumn
  <2>5. QED
    BY <2>1, <2>2, <2>3, <2>4
<1>4. CASE deltaCount + 1 # maxDeltas
  <2>1. UNCHANGED <<referenceDoc, chunks>>
    BY <1>4, <1>1 DEF AddDelta
  <2>2. \A P : HeldFrom(P) => HeldFrom(P)'
    <3> SUFFICES ASSUME NEW P, HeldFrom(P) PROVE HeldFrom(P)'
      OBVIOUS
    <3>0. /\ PendingEncodes(P)
          /\ P \in 1..Len(fed) /\ Len(fed) = P + deltaCount
          /\ Len(fed') = Len(fed) + 1 /\ fed'[P] = fed[P]
          /\ \A i \in 0..(metricsCount - 1), j \in 0..deltaCount :
                deltas'[GetArrayOffset(maxDeltas, j, i)] = Step(P + j, i)'
      BY <1>3
    <3>1. HasDataToFlush'
      BY <1>1, <2>1 DEF HasDataToFlush, IsEmpty
    <3>2. P \in 1..Len(fed') /\ Len(fed') = P + deltaCount'
      <4>1. P \in 1..Len(fed) /\ Len(fed) = P + deltaCount /\ Len(fed') = Len(fed) + 1
        BY <3>0
      <4>2. deltaCount' = deltaCount + 1 /\ deltaCount \in Nat
        BY <1>1, <1>2
      <4>3. QED
        BY <4>1, <4>2
    <3>3. fed'[P].vals = referenceDoc'.vals /\ fed'[P].date = referenceDocDate'
      BY <1>1, <3>0, <2>1 DEF PendingEncodes
    <3>4. prevmetrics' = fed'[Len(fed')].vals
      <4>1. fed \in Seq([vals : Seq(Values), date : 1..MaxCalls])
        BY DEF TypeOK
      <4>2. fed'[Len(fed')] = x
        BY <1>1, <4>1
      <4>3. QED
        BY <1>1, <4>2
    <3>5. \A i \in 0..(metricsCount' - 1), j \in 0..(deltaCount' - 1) :
             deltas'[GetArrayOffset(maxDeltas', j, i)] = Step(P + j, i)'
      <4>1. 0..(deltaCount' - 1) = 0..deltaCount
        BY <1>1, <1>2
      <4>2. QED
        BY <1>1, <3>0, <4>1
    <3>6. QED
      BY <3>1, <3>2, <3>3, <3>4, <3>5 DEF HeldFrom, PendingEncodes
  <2>3. QED
    BY <1>1, <2>1, <2>2, KeepChunksStep
<1>5. CASE deltaCount + 1 = maxDeltas
  <2>1. /\ chunks' = Append(chunks, ChunkOf(referenceDoc, referenceDocDate, metricsCount,
                                            deltaCount + 1, maxDeltas, deltas'))
        /\ referenceDoc' = EmptyDoc
    BY <1>5, <1>1 DEF AddDelta, EncodingPremises
  <2>2. PICK dl : dl = deltas'
    OBVIOUS
  <2>3. dl \in [0..(metricsCount * maxDeltas - 1) -> 0..(Mod - 1)]
    BY <1>1, <2>2, SampleFacts, StoreDeltasType
  <2>4. PICK c : c = ChunkOf(referenceDoc, referenceDocDate, metricsCount,
                             deltaCount + 1, maxDeltas, dl)
    OBVIOUS
  <2>5. c \in Chunk /\ c.d = deltaCount + 1
    <3>1. referenceDoc \in Sample /\ referenceDocDate \in Nat
      BY DEF TypeOK
    <3>2. c \in Chunk
      <4>1. deltaCount + 1 \in Nat
        BY <1>2
      <4>2. QED
        BY <1>2, <2>3, <2>4, <3>1, <4>1, ChunkOfType
    <3>3. c.d = deltaCount + 1
      BY <2>4 DEF ChunkOf
    <3>4. QED
      BY <3>2, <3>3
  <2>6. \A P : HeldFrom(P) => ChunkEncodes(c, P)' /\ HeldFrom(P + c.d + 1)'
    <3> SUFFICES ASSUME NEW P, HeldFrom(P)
                 PROVE  ChunkEncodes(c, P)' /\ HeldFrom(P + c.d + 1)'
      OBVIOUS
    <3>0. /\ PendingEncodes(P)
          /\ P \in 1..Len(fed) /\ Len(fed) = P + deltaCount
          /\ Len(fed') = Len(fed) + 1 /\ fed'[P] = fed[P]
          /\ \A i \in 0..(metricsCount - 1), j \in 0..deltaCount :
                deltas'[GetArrayOffset(maxDeltas, j, i)] = Step(P + j, i)'
      BY <1>3
    <3>1. ChunkEncodes(c, P)'
      <4>1. P \in Nat /\ P \in 1..Len(fed') /\ P + (deltaCount + 1) <= Len(fed')
        BY <1>2, <3>0
      <4>2. fed'[P].vals = referenceDoc.vals /\ fed'[P].date = referenceDocDate
        BY <3>0 DEF PendingEncodes
      <4>3. \A i \in 0..(metricsCount - 1), j \in 0..(deltaCount + 1 - 1) :
               dl[GetArrayOffset(maxDeltas, j, i)] = Step(P + j, i)'
        <5>1. 0..(deltaCount + 1 - 1) = 0..deltaCount
          BY <1>2
        <5>2. QED
          BY <2>2, <3>0, <5>1
      <4>4. deltaCount + 1 \in Nat /\ deltaCount + 1 <= maxDeltas
        BY <1>2, <1>5
      <4>5. PICK d1 \in Nat : d1 = deltaCount + 1
        BY <4>4
      <4>6. /\ c = ChunkOf(referenceDoc, referenceDocDate, metricsCount, d1, maxDeltas, dl)
            /\ d1 <= maxDeltas /\ P + d1 <= Len(fed')
            /\ \A i \in 0..(metricsCount - 1), j \in 0..(d1 - 1) :
                  dl[GetArrayOffset(maxDeltas, j, i)] = Step(P + j, i)'
        <5>1. c = ChunkOf(referenceDoc, referenceDocDate, metricsCount, d1, maxDeltas, dl)
          BY <2>4, <4>5, Zenon
        <5>2. d1 <= maxDeltas /\ P + d1 <= Len(fed')
          BY <4>1, <4>4, <4>5
        <5>3. d1 - 1 = deltaCount + 1 - 1
          BY <1>2, <4>5
        <5>4. QED
          BY <4>3, <5>1, <5>2, <5>3
      <4>7. QED
        BY <2>3, <4>1, <4>2, <4>5, <4>6, ChunkFromColumns
    <3>2. ~HasDataToFlush'
      BY <2>1 DEF HasDataToFlush, IsEmpty, EmptyDoc
    <3>3. P + c.d + 1 = Len(fed') + 1
      BY <1>2, <3>0, <2>5
    <3>4. QED
      BY <3>1, <3>2, <3>3 DEF HeldFrom
  <2>7. QED
    BY <1>1, <2>1, <2>2, <2>4, <2>5, <2>6, AppendChunkStep
<1>6. QED
  BY <1>4, <1>5


\* After reset() (and initially) nothing is accepted, held or returned.
LEMMA EncEmpty ==
    ASSUME fed = << >>, chunks = << >>, referenceDoc = EmptyDoc
    PROVE  EncInv
<1>1. ~HasDataToFlush
  BY DEF HasDataToFlush, IsEmpty, EmptyDoc
<1>2. HeldFrom(1)
  BY <1>1 DEF HeldFrom
<1>3. QED
  BY <1>2 DEF EncInv, FedDatesBound, SamplesEncoded

(* Every step of the compressor and its owner keeps EncInv, in the         *)
(* configurations of EncodingPremises.                                     *)
LEMMA EncStep ==
    ASSUME EncodingPremises, TypeOK, CountsInductive, EncInv, [Next]_vars
    PROVE  EncInv'
<1>1. CASE \E s \in Samples : AddSample(s)
  <2>1. PICK s \in Samples : AddSample(s)
    BY <1>1
  <2>2. ~failed /\ now' = now + 1
    BY <2>1 DEF AddSample, EncodingPremises
  <2>3. CASE AddReference(s, now + 1)
    BY <2>2, <2>3, EncAddReference
  <2>4. CASE AddExtractError(s)
    <3>1. UNCHANGED <<fed, chunks, referenceDoc, referenceDocDate, metricsCount,
                      deltaCount, maxDeltas, deltas, prevmetrics>>
      BY <2>4 DEF AddExtractError
    <3>2. QED
      BY <2>2, <3>1, EncFrame, DatesTick DEF EncInv
  <2>5. CASE AddSchemaChanged(s, now + 1)
    BY <2>2, <2>5, EncSchemaChanged
  <2>6. CASE AddDelta(s, now + 1)
    BY <2>2, <2>6, EncAddDelta
  <2>7. QED
    BY <2>1, <2>3, <2>4, <2>5, <2>6 DEF AddSample
<1>2. CASE Reset
  <2>1. fed' = << >> /\ chunks' = << >> /\ referenceDoc' = EmptyDoc
    BY <1>2 DEF Reset, ResetTo
  <2>2. ~HasDataToFlush'
    BY <2>1 DEF HasDataToFlush, IsEmpty, EmptyDoc
  <2>3. HeldFrom(1)'
    BY <2>1, <2>2 DEF HeldFrom
  <2>4. QED
    BY <2>1, <2>3 DEF EncInv, FedDatesBound, SamplesEncoded
<1>3. CASE UNCHANGED vars
  BY <1>3, EncFrame, DatesTick DEF vars, EncInv
<1>4. QED
  BY <1>1, <1>2, <1>3 DEF Next

(* The compressor loses no sample and invents none: the samples addSample  *)
(* accepted are, in order, the references and the %2^64 deltas of the      *)
(* chunks it returned, followed by what it still holds -- for every        *)
(* configuration in which the owner stops after an error, the block        *)
(* compressor cannot fail and the sampler never yields the empty document  *)
(* (each of which the runs ftdc_leak, ftdc_flushfail and ftdc_empty show   *)
(* to break it).                                                           *)
THEOREM SamplesEncodedHolds ==
    ASSUME EncodingPremises
    PROVE  Spec => []SamplesEncoded
<1>1. Init => EncInv
  BY EncEmpty DEF Init
<1>2. TypeOK /\ CountsInductive /\ EncInv /\ [Next]_vars => EncInv'
  BY EncStep
<1>3. EncInv => SamplesEncoded
  BY DEF EncInv
<1>4. Spec => []CountsInductive
  BY CountsInductiveHolds DEF EncodingPremises
<1>5. QED
  BY <1>1, <1>2, <1>3, <1>4, TypeCorrect, PTL DEF Spec

====
