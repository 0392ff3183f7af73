------------------------ MODULE KillSessionsLocal_proofs ------------------------
(***************************************************************************)
(* Proofs, for every set of sessions and every bound on the rounds, that   *)
(* the kill functions act only on the transactions they are meant for.     *)
(* Neither invariant is inductive by itself: both rest on what the scan   *)
(* established about each session still to be killed, and on the kill    *)
(* token keeping new operations off that session until its kill is done.  *)
(***************************************************************************)
EXTENDS KillSessionsLocal, TLAPS

USE KillAssumption

\* One token per session still to be killed, none outside a procedure.
Tokens ==
    /\ proc = "idle" => pending = {}
    /\ \A s \in Sessions : kills[s] = IF s \in pending THEN 1 ELSE 0

\* A session the prepared-abort procedure still has to kill is prepared:
\* the RSTL it runs under keeps any command from deciding it.
PreparedPending ==
    proc = "abortPrepared" => \A s \in pending : txn[s] = "prepared"

\* A session the expiry procedure still has to kill either still has the
\* overdue transaction the scan saw, or its operation, out at the scan, has
\* since ended that transaction and can start no other.
ExpiredPending ==
    proc = "expired" =>
        \A s \in pending :
            \/ txn[s] = "inProgress" /\ overdue[s]
            \/ txn[s] # "inProgress" /\ owner[s] # "out"

IInv ==
    /\ TypeOK
    /\ Tokens
    /\ PreparedPending
    /\ ExpiredPending
    /\ KillsMatchState
    /\ ExpiryAbortsOnlyOverdue

LEMMA InitIInv == Init => IInv
<1> SUFFICES ASSUME Init PROVE IInv
    OBVIOUS
<1>1. TypeOK
    <2>1. txn \in [Sessions -> TxnStates] /\ overdue \in [Sessions -> BOOLEAN]
        BY DEF Init, TxnStates
    <2>2. owner \in [Sessions -> {"in", "out", "done"}] /\ kills \in [Sessions -> Nat]
        BY DEF Init
    <2>3. rounds \in 0..MaxRounds /\ effects \subseteq Effects
        BY DEF Init
    <2>4. QED
        BY <2>1, <2>2, <2>3 DEF Init, TypeOK
<1>2. Tokens /\ PreparedPending /\ ExpiredPending
    BY DEF Init, Tokens, PreparedPending, ExpiredPending
<1>3. KillsMatchState /\ ExpiryAbortsOnlyOverdue
    BY DEF Init, KillsMatchState, ExpiryAbortsOnlyOverdue
<1>4. QED
    BY <1>1, <1>2, <1>3 DEF IInv

\* The kill of one session: what the kill function records is right for
\* the state the killer finds.
LEMMA KillSessionIInv ==
    ASSUME IInv, NEW s \in Sessions, KillSession(s)
    PROVE  IInv'
<1> USE DEF IInv
<1> DEFINE r == KillFn(proc, s)
           new == {Effect(proc, s, op) : op \in r.ops}
<1>1. /\ s \in pending
      /\ proc \in Procs
      /\ kills[s] = 1
    BY DEF KillSession, Tokens, TypeOK
<1>2. /\ r.txn \in TxnStates
      /\ r.ops \subseteq {"abort", "invalidate", "shutdown", "yield"}
    BY <1>1 DEF KillFn, TypeOK, TxnStates, Procs
<1>3. TypeOK'
    BY <1>1, <1>2 DEF KillSession, TypeOK, Effects, Effect
<1>4. Tokens'
    BY <1>1 DEF KillSession, Tokens, TypeOK
<1>5. PreparedPending' /\ ExpiredPending'
    BY DEF KillSession, PreparedPending, ExpiredPending, TypeOK
<1>6. ~crashed'
    BY <1>1 DEF KillSession, PreparedPending, KillsMatchState
<1>7. effects' = effects \cup new
    BY DEF KillSession
<1>8. \A e \in new :
          /\ e.op = "abort" /\ e.proc # "abortPrepared" => e.from = "inProgress"
          /\ e.op = "abort" /\ e.proc = "abortPrepared" => e.from = "prepared"
          /\ e.op = "yield" => e.from = "prepared"
          /\ e.op = "invalidate" /\ e.proc = "invalidate" => e.from # "prepared"
          /\ e.op = "abort" /\ e.proc = "expired" => e.overdue
    <2> SUFFICES ASSUME NEW op \in r.ops
                 PROVE  LET e == Effect(proc, s, op) IN
          /\ e.op = "abort" /\ e.proc # "abortPrepared" => e.from = "inProgress"
          /\ e.op = "abort" /\ e.proc = "abortPrepared" => e.from = "prepared"
          /\ e.op = "yield" => e.from = "prepared"
          /\ e.op = "invalidate" /\ e.proc = "invalidate" => e.from # "prepared"
          /\ e.op = "abort" /\ e.proc = "expired" => e.overdue
        OBVIOUS
    <2>1. CASE proc \in {"abortUnprepared", "shutdown", "yieldLocks", "invalidate"}
        BY <2>1 DEF KillFn, Effect
    <2>2. CASE proc = "expired"
        BY <1>1, <2>2 DEF KillFn, Effect, ExpiredPending, TypeOK
    <2>3. CASE proc = "abortPrepared"
        BY <1>1, <2>3 DEF KillFn, Effect, PreparedPending
    <2>4. QED
        BY <1>1, <2>1, <2>2, <2>3 DEF Procs
<1>9. KillsMatchState' /\ ExpiryAbortsOnlyOverdue'
    BY <1>6, <1>7, <1>8 DEF KillsMatchState, ExpiryAbortsOnlyOverdue
<1>10. QED
    BY <1>3, <1>4, <1>5, <1>9

\* The environment's steps and the killer's scan and return.
LEMMA NextIInv == IInv /\ [Next]_vars => IInv'
<1> SUFFICES ASSUME IInv, [Next]_vars PROVE IInv'
    OBVIOUS
<1> USE DEF IInv
<1>1. ASSUME NEW p \in Procs, ScanSessions(p) PROVE IInv'
    <2>1. pending = {} /\ \A s \in Sessions : kills[s] = 0
        BY <1>1 DEF ScanSessions, Tokens
    <2>2. TypeOK'
        BY <1>1, <2>1 DEF ScanSessions, TypeOK
    <2>3. Tokens'
        BY <1>1, <2>1 DEF ScanSessions, Tokens, Procs
    <2>4. PreparedPending' /\ ExpiredPending'
        BY <1>1 DEF ScanSessions, Filter, PreparedPending, ExpiredPending
    <2>5. QED
        BY <1>1, <2>2, <2>3, <2>4 DEF ScanSessions, KillsMatchState,
           ExpiryAbortsOnlyOverdue
<1>2. ASSUME NEW s \in Sessions, KillSession(s) PROVE IInv'
    BY <1>2, KillSessionIInv
<1>3. CASE Finish
    BY <1>3 DEF Finish, TypeOK, Tokens, PreparedPending, ExpiredPending,
       KillsMatchState, ExpiryAbortsOnlyOverdue
<1>4. ASSUME NEW s \in Sessions, CheckOut(s) PROVE IInv'
    <2>1. s \notin pending
        BY <1>4 DEF CheckOut, Tokens
    <2>2. QED
        BY <1>4, <2>1 DEF CheckOut, TypeOK, Tokens, PreparedPending,
           ExpiredPending, KillsMatchState, ExpiryAbortsOnlyOverdue
<1>5. ASSUME NEW s \in Sessions, RunCommand(s) PROVE IInv'
    <2>1. PICK to \in TxnStates :
              /\ Transition(txn[s], to)
              /\ txn' = [txn EXCEPT ![s] = to]
              /\ overdue' = [overdue EXCEPT ![s] = IF to = "inProgress"
                                                  THEN FALSE ELSE overdue[s]]
        BY <1>5 DEF RunCommand
    <2>2. TypeOK'
        BY <1>5, <2>1 DEF RunCommand, TypeOK
    <2>3. PreparedPending'
        BY <1>5, <2>1 DEF RunCommand, Transition, RSTLHeld, RSTLProcs,
           PreparedPending, TypeOK
    <2>4. ExpiredPending'
        BY <1>5, <2>1 DEF RunCommand, Transition, ExpiredPending, TypeOK
    <2>5. QED
        BY <1>5, <2>2, <2>3, <2>4 DEF RunCommand, Tokens, KillsMatchState,
           ExpiryAbortsOnlyOverdue
<1>6. ASSUME NEW s \in Sessions, CheckIn(s) PROVE IInv'
    BY <1>6 DEF CheckIn, TypeOK, Tokens, PreparedPending, ExpiredPending,
       KillsMatchState, ExpiryAbortsOnlyOverdue
<1>7. ASSUME NEW s \in Sessions, Expire(s) PROVE IInv'
    BY <1>7 DEF Expire, TypeOK, Tokens, PreparedPending, ExpiredPending,
       KillsMatchState, ExpiryAbortsOnlyOverdue
<1>8. CASE UNCHANGED vars
    BY <1>8 DEF vars, TypeOK, Tokens, PreparedPending, ExpiredPending,
       KillsMatchState, ExpiryAbortsOnlyOverdue
<1>9. QED
    BY <1>1, <1>2, <1>3, <1>4, <1>5, <1>6, <1>7, <1>8 DEF Next

\* IInv holds in every reachable state.
LEMMA IInvHolds == Spec => []IInv
  BY InitIInv, NextIInv, PTL DEF Spec

(* Whatever the sessions' own operations do between the scan and the      *)
(* checkouts for kill, every kill function acts only on a transaction in  *)
(* the state it is meant for: the unprepared abort, shutdown and expiry   *)
(* kills abort only in-progress transactions, the prepared abort and the  *)
(* lock yield only prepared ones, the stepdown invalidation never a       *)
(* prepared one, and no invariant() of a kill function fails.            *)
THEOREM KillsMatchStateHolds == Spec => []KillsMatchState
<1>1. IInv => KillsMatchState
  BY DEF IInv
<1>2. QED
  BY <1>1, IInvHolds, PTL

(* The expiry kill (killAllExpiredTransactions) aborts only transactions  *)
(* that are past their lifetime limit, although its kill function only    *)
(* re-tests that the transaction is in progress: the kill token keeps a   *)
(* new transaction from starting on the session between scan and kill.   *)
THEOREM ExpiryAbortsOnlyOverdueHolds == Spec => []ExpiryAbortsOnlyOverdue
<1>1. IInv => ExpiryAbortsOnlyOverdue
  BY DEF IInv
<1>2. QED
  BY <1>1, IInvHolds, PTL

=============================================================================
