----------------------------- MODULE FTDCChunks -----------------------------
(***************************************************************************)
(* What FTDCCompressor promises the file writer that calls it, stated      *)
(* without deltas, layouts or counters: it batches the samples it accepts, *)
(* in order, into chunks of at most maxSamplesPerArchiveMetricChunk        *)
(* samples, each stamped with the capture date of its first sample.  A     *)
(* batch is closed when it is full, or when a sample cannot join it (a     *)
(* schema change), and that sample opens the next one.  reset() abandons  *)
(* the open batch.                                                         *)
(***************************************************************************)
EXTENDS Naturals, Sequences

CONSTANTS
    MaxSamplesPerChunk,  \* FTDCConfig::maxSamplesPerArchiveMetricChunk
    Vectors,             \* the metric vectors a sample may carry
    Dates,               \* capture dates
    NoDate               \* the date of no batch

VARIABLES
    out,       \* the batches handed to the writer since the last reset
    held,      \* the samples of the open batch
    heldDate   \* the capture date of its first sample

vars == <<out, held, heldDate>>

Init == out = << >> /\ held = << >> /\ heldDate = NoDate

Batch(samples, date) == [samples |-> samples, date |-> date]

\* Each action is stated over the set of the states it may lead to, so
\* that a checker evaluates each variable's next value once.

\* A sample joins the open batch, or opens one, and the batch has room.
Hold ==
    /\ Len(held) + 1 < MaxSamplesPerChunk
    /\ held' \in {Append(held, v) : v \in Vectors}
    /\ heldDate' \in IF held = << >> THEN Dates ELSE {heldDate}
    /\ UNCHANGED out

\* A sample fills the open batch, which is handed over.
Fill ==
    /\ Len(held) + 1 = MaxSamplesPerChunk
    /\ out' \in {Append(out, Batch(Append(held, v), heldDate)) : v \in Vectors}
    /\ held' = << >>
    /\ heldDate' = NoDate

\* A sample cannot join the open batch: the batch is handed over and the
\* sample opens the next one.
Switch ==
    /\ held # << >>
    /\ out' = Append(out, Batch(held, heldDate))
    /\ held' \in {<< v >> : v \in Vectors}
    /\ heldDate' \in Dates

Discard ==
    /\ out' = << >>
    /\ held' = << >>
    /\ heldDate' = NoDate

Next == Hold \/ Fill \/ Switch \/ Discard

Spec == Init /\ [][Next]_vars

=============================================================================
