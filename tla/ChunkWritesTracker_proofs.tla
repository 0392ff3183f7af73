---------------------- MODULE ChunkWritesTracker_proofs ----------------------
(***************************************************************************)
(* The split lock of ChunkWritesTracker is exclusive for any number of     *)
(* threads and any sizes.                                                  *)
(***************************************************************************)
EXTENDS ChunkWritesTracker, TLAPS

USE TrackerAssumption

(* The type invariant.                                                     *)
THEOREM TypeCorrect == Spec => []TypeOK
<1>1. Init => TypeOK
  <2> SUFFICES ASSUME Init PROVE TypeOK
    OBVIOUS
  <2>1. bytesWritten \in 0..MaxBytes
    BY DEF Init
  <2>2. pc \in [Threads -> PCs]
    BY DEF Init, PCs
  <2>3. QED
    BY <2>1, <2>2 DEF Init, TypeOK
<1>2. TypeOK /\ [Next]_vars => TypeOK'
  <2> SUFFICES ASSUME TypeOK, [Next]_vars PROVE TypeOK'
    OBVIOUS
  <2>1. ASSUME NEW t \in Threads, NEW n \in Writes, AddBytesWritten(t, n)
        PROVE  TypeOK'
    BY <2>1 DEF AddBytesWritten, TypeOK, PCs
  <2>2. ASSUME NEW t \in Threads, ShouldSplit(t) PROVE TypeOK'
    BY <2>2 DEF ShouldSplit, TypeOK, PCs
  <2>3. ASSUME NEW t \in Threads, AcquireSplitLock(t) PROVE TypeOK'
    BY <2>3 DEF AcquireSplitLock, TypeOK, PCs
  <2>4. ASSUME NEW t \in Threads, ClearBytesWritten(t) PROVE TypeOK'
    BY <2>4 DEF ClearBytesWritten, TypeOK, PCs
  <2>5. ASSUME NEW t \in Threads, ReleaseSplitLock(t) PROVE TypeOK'
    BY <2>5 DEF ReleaseSplitLock, TypeOK, PCs
  <2>6. CASE UNCHANGED vars
    BY <2>6 DEF vars, TypeOK
  <2>7. QED
    BY <2>1, <2>2, <2>3, <2>4, <2>5, <2>6 DEF Next
<1>3. QED
  BY <1>1, <1>2, PTL DEF Spec

(* SplitLockExclusive is inductive given the type invariant: a thread      *)
(* enters "splitting" only by setting a clear flag, and the one holder     *)
(* clears the flag as it leaves, so releaseSplitLock always finds it set.  *)
THEOREM SplitLockExclusiveHolds == Spec => []SplitLockExclusive
<1>1. Init => SplitLockExclusive
  BY DEF Init, SplitLockExclusive, Holders
<1>2. TypeOK /\ SplitLockExclusive /\ [Next]_vars => SplitLockExclusive'
  <2> SUFFICES ASSUME TypeOK, SplitLockExclusive, [Next]_vars
               PROVE  SplitLockExclusive'
    OBVIOUS
  <2>1. ASSUME NEW t \in Threads, NEW n \in Writes, AddBytesWritten(t, n)
        PROVE  SplitLockExclusive'
    <3>1. Holders' = Holders
      BY <2>1 DEF AddBytesWritten, Holders, TypeOK
    <3>2. QED
      BY <2>1, <3>1 DEF AddBytesWritten, SplitLockExclusive
  <2>2. ASSUME NEW t \in Threads, ShouldSplit(t) PROVE SplitLockExclusive'
    <3>1. Holders' = Holders
      BY <2>2 DEF ShouldSplit, Holders, TypeOK
    <3>2. QED
      BY <2>2, <3>1 DEF ShouldSplit, SplitLockExclusive
  <2>3. ASSUME NEW t \in Threads, AcquireSplitLock(t) PROVE SplitLockExclusive'
    <3>1. CASE ~isLockedForSplitting
      <4>1. Holders = {}
        BY <3>1 DEF SplitLockExclusive
      <4>2. Holders' = {t}
        BY <2>3, <3>1, <4>1 DEF AcquireSplitLock, Holders, TypeOK
      <4>3. QED
        BY <2>3, <3>1, <4>2 DEF AcquireSplitLock, SplitLockExclusive
    <3>2. CASE isLockedForSplitting
      <4>1. Holders' = Holders
        BY <2>3, <3>2 DEF AcquireSplitLock, Holders, TypeOK
      <4>2. QED
        BY <2>3, <3>2, <4>1 DEF AcquireSplitLock, SplitLockExclusive
    <3>3. QED
      BY <3>1, <3>2
  <2>4. ASSUME NEW t \in Threads, ClearBytesWritten(t) PROVE SplitLockExclusive'
    BY <2>4 DEF ClearBytesWritten, SplitLockExclusive, Holders
  <2>5. ASSUME NEW t \in Threads, ReleaseSplitLock(t) PROVE SplitLockExclusive'
    <3>1. t \in Holders
      BY <2>5 DEF ReleaseSplitLock, Holders
    <3>2. isLockedForSplitting /\ Holders = {t}
      BY <3>1 DEF SplitLockExclusive
    <3>3. Holders' = {}
      BY <2>5, <3>2 DEF ReleaseSplitLock, Holders, TypeOK
    <3>4. QED
      BY <2>5, <3>2, <3>3 DEF ReleaseSplitLock, SplitLockExclusive
  <2>6. CASE UNCHANGED vars
    BY <2>6 DEF vars, SplitLockExclusive, Holders
  <2>7. QED
    BY <2>1, <2>2, <2>3, <2>4, <2>5, <2>6 DEF Next
<1>3. QED
  BY <1>1, <1>2, TypeCorrect, PTL DEF Spec


=============================================================================
