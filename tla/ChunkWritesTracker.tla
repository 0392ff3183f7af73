-------------------------- MODULE ChunkWritesTracker --------------------------
(***************************************************************************)
(* The per-chunk write tracker of mongos (src/mongo/s/                     *)
(* chunk_writes_tracker.cpp): an atomic byte counter, and a split flag     *)
(* taken under a mutex by acquireSplitLock but read by shouldSplit and     *)
(* cleared by releaseSplitLock without it.  Each method is one step of a   *)
(* thread.  The writers that call it are not in this repository, so a      *)
(* thread may call the methods in any order the tracker's contract allows: *)
(* after writing it asks shouldSplit, on true it tries the split lock, and *)
(* the holder may clear the counter before it releases the lock.           *)
(***************************************************************************)
EXTENDS Naturals

CONSTANTS
    Threads,          \* writer threads sharing one chunk's tracker
    Writes,           \* byte counts a single write may add
    MaxChunkSize,     \* the balancer's max chunk size, in bytes
    SplitTestFactor,  \* ChunkWritesTracker::kSplitTestFactor
    MaxBytes          \* bound on the counter, to keep the model finite

ASSUME TrackerAssumption ==
    /\ Writes \subseteq Nat \ {0}
    /\ MaxChunkSize \in Nat /\ MaxBytes \in Nat
    /\ SplitTestFactor \in Nat \ {0}

VARIABLES
    bytesWritten,          \* _bytesWritten (AtomicWord<uint64_t>)
    isLockedForSplitting,  \* _isLockedForSplitting
    pc,                    \* where each thread is in its use of the tracker
    aborted                \* an invariant() of the tracker has failed

vars == <<bytesWritten, isLockedForSplitting, pc, aborted>>

\* "idle": may write; "written": may ask shouldSplit; "trying": may call
\* acquireSplitLock; "splitting": holds the split lock.
PCs == {"idle", "written", "trying", "splitting"}

Init ==
    /\ bytesWritten = 0
    /\ isLockedForSplitting = FALSE
    /\ pc = [t \in Threads |-> "idle"]
    /\ aborted = FALSE

\* addBytesWritten (chunk_writes_tracker.h): _bytesWritten.addAndFetch(n).
AddBytesWritten(t, n) ==
    /\ pc[t] = "idle"
    /\ bytesWritten + n <= MaxBytes
    /\ bytesWritten' = bytesWritten + n
    /\ pc' = [pc EXCEPT ![t] = "written"]
    /\ UNCHANGED <<isLockedForSplitting, aborted>>

\* shouldSplit(maxChunkSize): the flag is read without _mtx.
ShouldSplit(t) ==
    /\ pc[t] = "written"
    /\ LET split == /\ ~isLockedForSplitting
                    /\ bytesWritten > MaxChunkSize \div SplitTestFactor
       IN  pc' = [pc EXCEPT ![t] = IF split THEN "trying" ELSE "idle"]
    /\ UNCHANGED <<bytesWritten, isLockedForSplitting, aborted>>

\* Mutant: the flag is tested but never set.
AcquireSplitLockNoFlag(t) ==
    /\ pc[t] = "trying"
    /\ IF ~isLockedForSplitting
         THEN pc' = [pc EXCEPT ![t] = "splitting"]
         ELSE pc' = [pc EXCEPT ![t] = "idle"]
    /\ UNCHANGED <<bytesWritten, isLockedForSplitting, aborted>>

\* acquireSplitLock(): test and set of the flag under _mtx.
AcquireSplitLock(t) ==
    /\ pc[t] = "trying"
    /\ IF ~isLockedForSplitting
         THEN /\ isLockedForSplitting' = TRUE
              /\ pc' = [pc EXCEPT ![t] = "splitting"]
         ELSE /\ UNCHANGED isLockedForSplitting
              /\ pc' = [pc EXCEPT ![t] = "idle"]
    /\ UNCHANGED <<bytesWritten, aborted>>

\* clearBytesWritten(): _bytesWritten.swap(0), by the split lock's holder.
ClearBytesWritten(t) ==
    /\ pc[t] = "splitting"
    /\ bytesWritten' = 0
    /\ UNCHANGED <<isLockedForSplitting, pc, aborted>>

\* releaseSplitLock(): invariant(_isLockedForSplitting), then the flag is
\* cleared without _mtx.
ReleaseSplitLock(t) ==
    /\ pc[t] = "splitting"
    /\ ~aborted
    /\ aborted' = ~isLockedForSplitting
    /\ isLockedForSplitting' = FALSE
    /\ pc' = [pc EXCEPT ![t] = "idle"]
    /\ UNCHANGED bytesWritten

Next ==
    \E t \in Threads :
        \/ \E n \in Writes : AddBytesWritten(t, n)
        \/ ShouldSplit(t)
        \/ AcquireSplitLock(t)
        \/ ClearBytesWritten(t)
        \/ ReleaseSplitLock(t)

Spec == Init /\ [][Next]_vars

-----------------------------------------------------------------------------
TypeOK ==
    /\ bytesWritten \in 0..MaxBytes
    /\ isLockedForSplitting \in BOOLEAN
    /\ pc \in [Threads -> PCs]
    /\ aborted \in BOOLEAN

\* The threads that believe they hold the split lock.
Holders == {t \in Threads : pc[t] = "splitting"}

(* The split lock is exclusive and the flag tells the truth about it:      *)
(* however shouldSplit's unlocked read interleaves with other threads'     *)
(* acquire and release, at most one thread is past acquireSplitLock, the   *)
(* flag is set exactly while one is, and releaseSplitLock's invariant      *)
(* never fails.                                                            *)
SplitLockExclusive ==
    /\ \A t, u \in Holders : t = u
    /\ isLockedForSplitting <=> Holders # {}
    /\ ~aborted

=============================================================================
