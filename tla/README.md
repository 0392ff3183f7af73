# TLA+ models of the FTDC compressor, the mongos chunk-split lock and local session kills

This directory holds TLA+ models of the C++ sources under
`src/mongo-r4.4.6/src/mongo/`, with TLC configurations and TLAPS proofs. Paths
below are relative to `src/mongo-r4.4.6/src/mongo/`.

## 1. The system and its parts

| Part | Source | State | Operations |
|---|---|---|---|
| FTDC chunk assembler (`FTDCCompressor`) | `db/ftdc/compressor.cpp`, `compressor.h` | reference document and date, `_metricsCount`, `_deltaCount`, `_maxDeltas`, the delta matrix `_deltas`, `_metrics`, `_prevmetrics`, two scratch buffers | `addSample`, `getCompressedSamples`, `reset`, `_reset` |
| FTDC metric extractor | `db/ftdc/util.cpp` 135-312 | none (pure, recursive) | `extractMetricsFromDocument`, `FTDCBSONObjIterator`, `isFTDCType` |
| FTDC document reconstruction | `db/ftdc/util.cpp` 316-420 | none | `constructDocumentFromMetrics` |
| FTDC envelopes, file names, clock | `db/ftdc/util.cpp` 78-123, 424-515 | none | `createBSON*Document`, `getBSONDocument*`, `getInterimFile`, `roundTime`, `getMongoSPath` |
| Chunk write tracker (mongos) | `s/chunk_writes_tracker.cpp` | atomic byte counter, split flag, mutex | `clearBytesWritten`, `shouldSplit`, `acquireSplitLock`, `releaseSplitLock` |
| Local session kills (mongod) | `db/kill_sessions_local.cpp` | none of its own; acts on the session catalog and transaction participants | `killSessionsAction` and its six callers |
| `TransactionMetricsObserver`, `WiredTigerRecoveryUnit` | headers | declarations only | trivial accessors |

How they interact:

- The FTDC sampler thread calls `addSample` once per period. It gets back "has space",
  `kSchemaChanged` or `kCompressorFull` with a chunk, or an error.
- `addSample` calls the extractor against the current reference document. It packs the
  delta matrix and calls the block compressor (zlib) through `getCompressedSamples`.
- A reader (`FTDCDecompressor`, not in this repository) unpacks a chunk. It rebuilds the
  samples with `constructDocumentFromMetrics`.
- The tracker and the kill procedures do not interact with FTDC. Each is driven by
  threads of its own server:
  - writes to a chunk race for its split lock;
  - session kills race with the commands running on those sessions.

Hard behaviours in the code:

- partial failure of `addSample`: the flush fails after the counters moved;
- an extraction that fails after appending to `_metrics`;
- unsigned wrap-around of deltas;
- zero runs that span metrics;
- a write into `_deltas` that is only in bounds below `_maxDeltas`;
- the unlocked read of the split flag;
- the gap between a kill's scan and its checkout, in which the session's own command can still change the transaction.

## 2. Modules

| Module | Models | Used by |
|---|---|---|
| `FTDCCompressor` | `addSample`, `reset`, `_reset`, chunk contents; no recursion, so provable | `MC_FTDC`, `FTDCCompressor_proofs` |
| `FTDCPack` | zero-run packing of `getCompressedSamples`; the reader's unpacking and sums (from the specification) | `MC_FTDC`, `MC_Pack` |
| `MC_FTDC` | composes the compressor with the reader; the properties about emitted chunks | runs `ftdc_*` |
| `MC_Pack` | packing checked against unpacking on every small matrix | run `pack_roundtrip` |
| `FTDCCompressor_proofs` | TLAPS proofs of `TypeOK`, `CountsConsistent` and `ReferenceFlushedBeforeReplaced` | `FTDCEncoding_proofs` |
| `FTDCEncoding_proofs` | TLAPS proof of `SamplesEncoded`, the encoding half of `Lossless` | |
| `ChunkWritesTracker`, `MC_ChunkWritesTracker`, `ChunkWritesTracker_proofs` | the split lock, its run, and the proof of exclusion | run `tracker` |
| `FTDCChunks` | the abstract specification of the compressor: in-order batches of samples | run `ftdc_refines`, through `MC_FTDC` |
| `FTDCExtract` | `extractMetricsFromDocument`, `FTDCBSONObjIterator`, `isFTDCType` and `constructDocumentFromMetrics`, as recursive operators on nested documents | `MC_Extract` |
| `MC_Extract` | the walk checked against definitions of schema and metric vector, on every pair of small documents | run `extract` |
| `KillSessionsLocal`, `MC_KillSessionsLocal` | `killSessionsAction` with the six filters and kill functions, against session owners | runs `kill_sessions`, `kill_sessions_live` |
| `KillSessionsLocal_proofs` | TLAPS proof of `KillsMatchState` and `ExpiryAbortsOnlyOverdue` | |

### FTDCCompressor: state and actions

**Variables.** Each C++ member is a variable of the same name:

- `referenceDoc` is `_referenceDoc`;
- `deltas` is `_deltas`, a function on `0..size-1`;
- `metrics` and `prevmetrics` are the two vectors.

Two history variables serve the properties and are not code: `chunks` (the chunks
returned) and `fed` (the samples accepted since the last `reset`, with their dates).
`now` is the capture clock the caller passes in.

**Data abstraction.**

- A BSON sample is a record `[schema, vals]`. `schema` stands for the sequence of FTDC
  field names and type classes the extractor compares. `vals` is the metric vector it
  produces: `NumMetrics[schema]` values.
- Metric values are residues mod `Mod`, the model's 2^64. `(cur - prev) % Mod` is the
  unsigned subtraction at compressor.cpp 109.
- The extractor is reduced to its outcome:
  - `ExtractFails`: the recursion limit at util.cpp 180;
  - `Matches`: schema equality, which is what the lockstep walk at util.cpp 187-283 decides.

**Actions.** `AddSample(s)` is the whole of `addSample`, one disjunct per path:

- `AddReference`: the no-reference path at 63-73, including the failed extraction that
  leaves `_metrics` appended to.
- `AddExtractError`: 76-82.
- `AddSchemaChanged`: 90-103, with a flush that may fail.
- `AddDelta`: 107-133, with three outcomes:
  - not full;
  - full and flushed;
  - full and the flush failed, with the count and vectors already advanced.

`ResetTo` is `_reset`, which every path that installs a reference uses. `Reset` is
`reset()`.

**Undefined behaviour.** A write to `_deltas` past its end is undefined behaviour. The
model drops it, and an out-of-range read gives 0 (`DeltaAt`, `PrevAt`). No passing run
reaches either: `CountsConsistent` shows it.

**Environment constants.**

- `CompressMayFail` says the block compressor may fail.
- `ResetAfterError` models the owner, `FTDCController`, which is not in this repository.
  When TRUE, the compressor is not called again after an error until `reset`.

### FTDCChunks: what the compressor promises, and the refinement

`FTDCChunks` states the compressor's contract without deltas or counters. `out` is
the batches handed to the writer, `held` the samples of the open batch and `heldDate`
its first sample's date. There are four steps:

- `Hold`: a sample joins (or opens) the open batch, which still has room;
- `Fill`: a sample fills the batch, which is handed over;
- `Switch`: a sample cannot join (a schema change), so the batch is handed over and
  the sample opens the next one;
- `Discard`: `reset()`.

`MC_FTDC` instantiates it with a refinement mapping:

- `out` is the chunks, each decoded back to its samples by the reader;
- `held` is the pending samples the reader would decode from the current state;
- `heldDate` is the reference date while there is data to flush, else 0.

A failed extraction, and a failed flush on a schema change, are stutters: they change
neither the chunks nor the pending samples. A failed full flush is not: it has already
counted the sample in `_deltaCount` and stored its deltas, so `held` grows by a sample
whose call returned an error. The run `ftdc_refines` checks `ImplementsBatches == Batches!Spec` as a
temporal property with a compressor that never fails, so it does not reach that case;
`CountsConsistent` and the `ftdc_failures` run cover the failing paths.

### FTDCExtract: the schema walk

A document is a sequence of fields `[name, type, val, sub]`. `ExtractFrom` is the
loop of `extractMetricsFromDocument` (util.cpp 187-286): it walks the current fields
and the reference fields in lockstep and reads the reference only while `matches`
holds. It tests names and types, with the loose numeric match at 214-228, and appends
each leaf's metrics. It recurses into containers, with the reference's sub-document
or none, and carries the nested verdict up (268). At the end it tests that the
reference was consumed (276-283). `ExtractDoc` adds the recursion limit (180).
`ConstructFrom` is the loop of `constructDocumentFromMetrics` (325-405), with its
bounds checks (`HasRoom`, two slots for a Timestamp). The flag `oob` records any read
past the end of the vector.

### ChunkWritesTracker

Each method is one atomic step of a thread:

- `acquireSplitLock` runs under `_mtx`.
- `_bytesWritten` is atomic.
- `shouldSplit` and `releaseSplitLock` touch the flag without the mutex. A data race on
  a `bool` can only yield the old or the new value, and interleaving covers both.

The callers (cluster write path, chunk splitter) are not in this repository. A thread
follows the only order the tracker's contract allows:

1. write;
2. ask `shouldSplit`;
3. on true, try the lock;
4. the holder may clear the counter, then releases the lock.

`aborted` records a failed `invariant()`.

### KillSessionsLocal

`ScanSessions(p)` is the scan stage of `killSessionsAction` (57-69) for procedure `p`.
`killSessionsAbortUnpreparedTransactions` (86-103) passes on its caller's matcher:
`killSessionsLocal` forwards the one it is given, the other procedures build the
all-sessions matcher. The model uses the all-sessions matcher, so `matcher.match` always
succeeds; a narrower matcher only scans fewer sessions.
`KillSession(s)` is one iteration of the kill loop (71-81), which does three things in
one step:

1. `checkOutSessionForKill` waits until no operation has the session;
2. the procedure's kill function runs;
3. the token is released.

Once the killer holds the session, nobody else can touch it, so one step is faithful.

`Filter` and `KillFn` are the two lambdas of each caller:

- `abortUnprepared` (86-104);
- `expired` (129-160);
- `shutdown` (162-174);
- `abortPrepared` (176-194);
- `yieldLocks` (196-230);
- `invalidate` (232-250).

The session catalog and the transaction participant are the environment:

- An operation checks a session out only when no kill is registered on it (`CheckOut`).
- It runs one command that makes at most one transaction transition (`RunCommand`).
- It then checks the session in (`CheckIn`).
- While a stepdown holds the RSTL, no command prepares, or decides a prepared
  transaction. The code's comments at 186 and 213-217 rely on this.
- `Expire` marks an in-progress transaction as past its lifetime limit.
- The effects history records what each kill function did and the transaction state it
  found.

## 3. Runs

| Run | Bounds | Checks | Result |
|---|---|---|---|
| `ftdc_core` | shapes `a` (1 metric), `b` (2), `z` (0), `d0` (too deep); 5 calls; 3 samples per chunk; values {0,1,3} mod 4; compressor never fails | `TypeOK`, `Lossless`, `ChunkDates`, `CountsConsistent`, `SamplesEncoded` | pass, 469,274 states |
| `ftdc_failures` | also `d1` (too deep, 1 metric); compressor may fail; 4 calls | `CountsConsistent`, `ChunksWellFormed`, `ReferenceFlushedBeforeReplaced` | pass, 55,424 states |
| `pack_roundtrip` | all 1..2 x 1..2 matrices over {0,1,2} | `PackRoundTrip` | pass, 102 states |
| `tracker` | 3 threads, writes of 1 or 2 bytes, split past 2 bytes, counter up to 8 | `SplitLockExclusive` | pass, 136 states |
| `ftdc_refines` | as `ftdc_core`, 4 calls | `ImplementsBatches` | pass, 36,099 states |
| `ftdc_leak` | owner keeps calling after an error | `ChunksWellFormed` | violated (finding) |
| `ftdc_flushfail` | flush may fail, owner keeps calling | `CountsConsistent` | violated (finding) |
| `ftdc_empty` | the sampler may produce `{}` | `Lossless` | violated (finding) |

What the FTDC properties state:

- **`Lossless`**: decoding every emitted chunk, and the chunk still pending, gives back
  exactly the sequence of accepted metric vectors.
- **`ChunkDates`**: each chunk carries the date of its first sample.
- **`ChunksWellFormed`**: every chunk decodes and holds at most Dmax deltas.
- **`CountsConsistent`**: the invariant behind the `dassert` at compressor.cpp 85 and the
  specification's 0 <= D <= Dmax.
- **`ReferenceFlushedBeforeReplaced`** (an action property): a call of `addSample`
  (a step that takes the next call date) that replaces or clears the held reference while
  data is pending returns, in the same step, that reference's chunk with its date and
  every pending delta. This holds from the first call on, before any chunk exists.
  `reset()` is not a call of `addSample`; it discards on purpose. A flush that fails must leave the reference in place. This is what
  `getCompressedSamples` before `_reset` (compressor.cpp 91-97) guarantees. Its mutant
  swaps the two calls.
- **`SamplesEncoded`**: `Lossless` stated without the decoder, so that it can be proved.
  - The accepted samples are dated in increasing order.
  - The chunks tile them in order. Chunk k starts at an accepted sample r: its reference
    and date are sample r's, and its delta for metric i at column j is
    `(v[r+j+1][i] - v[r+j][i]) % 2^64`, stored in metric-major order.
  - The next chunk starts right after it. After the last chunk, the pending reference,
    `_deltas` (at `GetArrayOffset`) and `_prevmetrics` start there in the same way.
  - With no reference held, nothing is pending.
  - Its mutant takes the delta against the reference instead of the previous sample.
    All three violation configurations below break it too.

What the other new properties state:

- **`KillsComplete`**: every kill procedure that starts ends, with every kill token
  returned. A lost token would keep its session from ever being checked out again.
- **`ExtractAgreesWithSchema`**: extraction fails exactly when the current sample nests
  past the limit, and then leaves a prefix of its metrics behind. Otherwise it yields
  the sample's metrics in document order, and it matches exactly when the two schemas
  are equal up to the numeric class.
- **`RebuildRoundTrip`**: a matching sample is rebuilt from the reference and its
  metrics, with every numeric field as NumberLong.
- **`RebuildChecksBounds`**: rebuilding never reads past the vector. It fails exactly
  when the vector is too short or the reference too deep.

Why the bounds are enough:

- Three samples per chunk (Dmax = 2) reach a full chunk in three calls.
- Five calls reach a full chunk followed by a new reference and a delta.
- Mod 4 with values {0,1,3} makes decreasing metrics, so deltas wrap.
- The shapes give a zero-metric document, a schema change between 1 and 2 metrics, and a
  failing extraction both with no metric before the deep field (`d0`) and with one
  (`d1`).
- The tracker instance lets two or three threads pass `shouldSplit` before any acquires.
- The kill instance lets a session's command run between a scan and its kill, and a
  second procedure start after a first.
- The extract documents reach every branch of the walk:
  - a name change, a numeric-class change (int/double), and a type change to or from a
    container;
  - a reference longer and shorter than the sample;
  - a difference inside a nested document;
  - an ignored field (string) between metric fields;
  - a nesting one past `kMaxRecursion`, with a metric before the deep field;
  - a Timestamp at the end of a vector one slot short.

Every property of a passing run has a mutant in `PROJECT.json`: a plausible bug in the
mapped code, under which the run fails.

**Deadlock.** It is checked everywhere except the tracker. A tracker whose chunk gets no
more writes rests, so there is nothing to check there.

**Fairness.** Only `kill_sessions_live` checks liveness, under `FairSpec`:

- weak fairness of `KillSession` and `Finish`. The killer is one thread that runs the
  procedure to its end, and `checkOutSessionForKill` blocks only while the session is
  checked out.
- weak fairness of `InterruptedCheckIn(s)`, a check-in of a session with a kill
  registered. `session.kill(reason)` (66-68) interrupts the operation holding the
  session, so that operation ends and checks the session in.

An operation nobody interrupts gets no fairness and may hold its session forever.
Symmetry is not used in this run, because it is unsound for liveness.

### Findings

1. **`ftdc_leak`**: stale `_metrics` after a failed first extraction.
   - On the no-reference path `addSample` extracts into `_metrics` without clearing it
     (compressor.cpp 66).
   - An extraction that hits the recursion limit has already appended the metrics before
     the deep field.
   - If the owner calls again, the next reference inherits them: `_metricsCount` is too
     large and the chunk does not decode.
2. **`ftdc_flushfail`**: a failed full flush leaves D = Dmax.
   - `_deltaCount` is advanced and the vectors swapped (112-115) before the flush that
     may fail (119-124). The specification says the count is not advanced on failure.
   - The next sample writes a delta at column Dmax. For the last metric that is past the
     end of `_deltas`, which is undefined behaviour.
3. **`ftdc_empty`**: an empty first sample is accepted but never emitted.
   - An empty reference means "no reference".

The passing FTDC runs use `ResetAfterError = TRUE`. Findings 1 and 2 only matter to an
owner that keeps using the compressor after an error.

## 4. Proofs (TLAPS)

**`FTDCCompressor_proofs`.** It uses the assumptions `SchemaAssumption` and
`ConfigAssumption`: the metric counts are naturals, the empty shape has none and is
never too deep, Dmax >= 1, and values are residues.

- **`TypeCorrect`** proves `Spec => []TypeOK`. `TypeOK` is inductive as it stands.
  - There is one step per path of `addSample` and for `reset`.
  - It rests on these lemmas:
    - `SampleFacts`: a produced sample has `NumMetrics` metrics;
    - `ChunkOfType`;
    - `StoreDeltasType`: the stored deltas stay residues on the same index set;
    - `ResetToType`;
    - `VectorElem` and `DivNat`.
- **`CountsConsistentHolds`** proves `ResetAfterError => (Spec => []CountsConsistent)`,
  from the lemma `CountsInductiveHolds`.
  - `CountsConsistent` is not inductive. A same-schema step adds one to `_deltaCount`,
    which is safe only if the chunk was not already full.
  - The strengthening `CountsInductive` adds that, while a reference is held and no error
    is pending, `_deltaCount < _maxDeltas`.
  - It holds because the call that fills the chunk either flushes it and clears the
    reference, or fails, after which the owner stops.
  - TLC checked `CountsInductive` first on both passing FTDC instances.
  - The proof uses `TypeCorrect` for the types and the lemma `ResetToCounts`: every
    `_reset` re-establishes the invariant.
- **`ReferenceFlushedHolds`** proves `Spec => ReferenceFlushedBeforeReplaced`, with no
  assumption on the owner. `TypeOK` is all it needs. The lemma `FlushStep` has one step
  per path of `addSample`: only the schema change and the full flush take the reference
  away, and both append its chunk. `reset` leaves the call date alone, so it is outside
  the property.
**`FTDCEncoding_proofs`.** It extends `FTDCCompressor_proofs`.

- **`SamplesEncodedHolds`** proves `EncodingPremises => (Spec => []SamplesEncoded)`.
  `EncodingPremises` has one conjunct per finding:
  - the owner stops after an error (`ftdc_leak`);
  - the block compressor does not fail (`ftdc_flushfail`);
  - the empty shape is not a sample shape (`ftdc_empty`).

  Each finding's run shows the property false without its premise. The passing runs
  satisfy all three, so the theorem states the same property `ftdc_core` checks.
- `SamplesEncoded` is not inductive. A new sample is appended to the accepted sequence
  with the next call's date, which must exceed every accepted date. `EncInv` adds
  `FedDatesBound`: every accepted date is at most the clock.
  - It also needs `CountsInductive`: the stored column must fit the chunk.
  - TLC checked `EncInv` on `ftdc_core` first.
- The layout lemmas come first:
  - `DivMod`;
  - `OffsetInRange`;
  - `ChunkDeltaAt`: `getCompressedSamples` reads metric i, column j from the slot
    `addSample` wrote it to;
  - `StoreDeltasAt`: a store writes column `_deltaCount` and keeps the earlier ones.
- Two lemmas cover the two step shapes:
  - `KeepChunksStep`: a sample is accepted and no chunk is returned;
  - `AppendChunkStep`: a sample is accepted and one chunk is returned.
- These build the new state:
  - `NewColumn` gives the new column's deltas;
  - `NewReference` gives the state after `_reset`;
  - `ChunkFromColumns` gives the returned chunk.
- There is one lemma per path of `addSample`: `EncAddReference`, `EncSchemaChanged` and
  `EncAddDelta`. `EncStep` combines them with `reset` and the failed paths.
- The failing flush paths are the ones `~CompressMayFail` excludes. After a failed
  extraction the owner stops calling. A full flush leaves nothing pending, so the next
  tile starts after the new sample.

**`KillSessionsLocal_proofs`.** It uses `KillAssumption` (`MaxRounds` is a natural).

- **`KillsMatchStateHolds`** proves
  `Spec => [](KillsMatchState /\ ExpiryAbortsOnlyOverdue)` for any set of sessions.
- Neither invariant is inductive. A kill step is right only if what the scan saw still
  holds when the killer checks the session out. The inductive invariant `IInv` adds
  three conjuncts:
  - `Tokens`: a session has a kill token exactly while it is pending, and none outside
    a procedure, so no operation can check a pending session out;
  - `PreparedPending`: under the prepared-abort procedure every pending session is
    prepared. The RSTL keeps commands from deciding it;
  - `ExpiredPending`: under the expiry procedure a pending session either still has its
    overdue transaction, or its operation ended it and cannot start another.
- The lemma `KillSessionIInv` handles a kill step, with one case per group of
  procedures. `NextIInv` has one step per action.
- `IInvHolds` proves `Spec => []IInv`. The theorems `KillsMatchStateHolds` and
  `ExpiryAbortsOnlyOverdueHolds` state the two properties separately, each as the
  `[]` of one run property.

**`ChunkWritesTracker_proofs`.**

- It proves `TypeCorrect`.
- **`SplitLockExclusiveHolds`** proves `Spec => []SplitLockExclusive` for any set of
  threads. The invariant is inductive given `TypeOK`:
  - the flag is set exactly while the single holder exists;
  - so an acquire that sees it clear finds no holder;
  - and a release always finds it set.
**Left to TLC.** The reader and the packing (`FTDCPack`) and the schema walk
(`FTDCExtract`) use RECURSIVE operators. The provers lose their SMT backend in a module
that reaches one, and induction over data needs an operator parameter the provers
cannot instantiate. So these properties are checked only on the instances above:

- `Lossless`, `ChunkDates`, `ChunksWellFormed`. Their decoder-free halves are proved:
  `SamplesEncoded` for what the chunks hold. What is left is that `FTDCPack`'s decoder inverts the encoding;
- `PackRoundTrip`;
- `ExtractAgreesWithSchema`, `RebuildRoundTrip`, `RebuildChecksBounds`;
- the refinement `ImplementsBatches`, whose mapping decodes chunks.

Liveness (`KillsComplete`) needs fairness and ENABLED, which TLAPS does not handle here,
so it is checked only by TLC.

## 5. Not modelled

- **Envelope documents, file names and `roundTime`** (util.cpp 78-123, 424-515) are
  formatting, parsing and path code with no state. Their only control is a
  missing-field error. A model would restate each field read and write, and no
  property of them depends on an order of steps.
- `FTDCCompressor` still uses the extractor's abstraction (schema equality and a metric
  count per shape), to keep its state space small. The run `extract` shows that the
  walk in `FTDCExtract` computes exactly that abstraction.
- **Not in this repository:** the VarInt codec, zlib, the decoder, the session catalog,
  `TransactionParticipant`, and the callers of the tracker. Each is modelled only as far
  as the code here depends on it, and marked `spec_modelled` in the map.
- **Parts of the modelled files left out:**
  - `killSessionsLocal`'s kills of operations and cursors (110-113), which call the
    operation and cursor managers;
  - the log messages;
  - the two headers with declarations only. `transaction_metrics_observer.h` and
    `wiredtiger_recovery_unit.h` declare classes whose behaviour is in `.cpp` files
    that are not in this repository.
