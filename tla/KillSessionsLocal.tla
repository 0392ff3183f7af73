--------------------------- MODULE KillSessionsLocal ---------------------------
(***************************************************************************)
(* Session kills on a mongod (src/mongo/db/kill_sessions_local.cpp).       *)
(* killSessionsAction scans the session catalog under its mutex, keeps the *)
(* sessions a filter selects and registers a kill on each (session.kill), *)
(* then checks each one out for kill, in turn, and runs a kill function   *)
(* on it.  Between the scan and a checkout, an operation that had the      *)
(* session checked out at scan time may still finish its command and      *)
(* change the transaction, which is why the kill functions test the state *)
(* again.                                                                 *)
(*                                                                         *)
(* The session catalog and TransactionParticipant are not in this          *)
(* repository; their behaviour is the environment here: an operation       *)
(* checks a session out only while no kill is registered on it and no     *)
(* killer holds it (SessionCatalog::checkOutSession), runs one command     *)
(* that makes at most one transaction transition, and checks the session  *)
(* in.  While a stepdown holds the RSTL in mode X (the prepared-abort,     *)
(* lock-yield and invalidation kills run under it), no command can         *)
(* prepare, commit or abort a prepared transaction.                       *)
(***************************************************************************)
EXTENDS Naturals

CONSTANTS
    Sessions,     \* logical sessions in the catalog
    MaxRounds     \* bound on the kill procedures run

ASSUME KillAssumption == MaxRounds \in Nat

\* The public kill procedures, each a killSessionsAction with its own
\* filter and kill function.
Procs == {"abortUnprepared", "expired", "shutdown", "abortPrepared",
          "yieldLocks", "invalidate"}

\* Those called during stepdown with the RSTL held.
RSTLProcs == {"abortPrepared", "yieldLocks", "invalidate"}

TxnStates == {"none", "inProgress", "prepared", "committed", "aborted"}

VARIABLES
    txn,       \* each session's transaction state
    overdue,   \* its transaction has passed transactionLifetimeLimitSeconds
    owner,     \* "in", or "out"/"done": checked out by an operation that
               \* has not yet / has already run its command
    kills,     \* the kills registered on each session (_killsRequested)
    proc,      \* the kill procedure running, or "idle"
    pending,   \* sessions the running procedure still has to kill
    rounds,    \* kill procedures started
    crashed,   \* an invariant() in a kill function has failed
    effects    \* history: what kill functions did, and to what

vars == <<txn, overdue, owner, kills, proc, pending, rounds, crashed, effects>>

Init ==
    /\ txn = [s \in Sessions |-> "none"]
    /\ overdue = [s \in Sessions |-> FALSE]
    /\ owner = [s \in Sessions |-> "in"]
    /\ kills = [s \in Sessions |-> 0]
    /\ proc = "idle"
    /\ pending = {}
    /\ rounds = 0
    /\ crashed = FALSE
    /\ effects = {}

RSTLHeld == proc \in RSTLProcs

-----------------------------------------------------------------------------
(* The filters (the first lambda of each procedure).                       *)

\* transactionIsOpen(): in progress or prepared.
IsOpen(s) == txn[s] \in {"inProgress", "prepared"}

\* Mutant: the prepared-abort procedure selecting every open transaction.
FilterOpenForPrepared(p, s) ==
    CASE p = "abortUnprepared" -> txn[s] = "inProgress"
      [] p = "expired"         -> txn[s] = "inProgress" /\ overdue[s]
      [] p = "shutdown"        -> IsOpen(s)
      [] p = "abortPrepared"   -> IsOpen(s)
      [] p = "yieldLocks"      -> txn[s] = "prepared"
      [] p = "invalidate"      -> txn[s] # "prepared"

\* Mutant: the expiry filter without the deadline test.
FilterNoDeadline(p, s) ==
    CASE p = "abortUnprepared" -> txn[s] = "inProgress"
      [] p = "expired"         -> txn[s] = "inProgress"
      [] p = "shutdown"        -> IsOpen(s)
      [] p = "abortPrepared"   -> txn[s] = "prepared"
      [] p = "yieldLocks"      -> txn[s] = "prepared"
      [] p = "invalidate"      -> txn[s] # "prepared"

\* expiredAsOf(when) is in progress and past its deadline at the scan.
Filter(p, s) ==
    CASE p = "abortUnprepared" -> txn[s] = "inProgress"
      [] p = "expired"         -> txn[s] = "inProgress" /\ overdue[s]
      [] p = "shutdown"        -> IsOpen(s)
      [] p = "abortPrepared"   -> txn[s] = "prepared"
      [] p = "yieldLocks"      -> txn[s] = "prepared"
      [] p = "invalidate"      -> txn[s] # "prepared"

(* Stage 1: scanSessions with the matcher of all sessions; session.kill()  *)
(* registers a kill token on each selected session.                       *)
ScanSessions(p) ==
    /\ proc = "idle"
    /\ rounds < MaxRounds
    /\ LET selected == {s \in Sessions : Filter(p, s)}
       IN  /\ pending' = selected
           /\ kills' = [s \in Sessions |->
                          IF s \in selected THEN kills[s] + 1 ELSE kills[s]]
    /\ proc' = p
    /\ rounds' = rounds + 1
    /\ UNCHANGED <<txn, overdue, owner, crashed, effects>>

-----------------------------------------------------------------------------
(* The kill functions (the second lambda of each procedure): the new       *)
(* transaction state, and what is recorded of the call.                    *)

Effect(p, s, op) ==
    [proc |-> p, op |-> op, from |-> txn[s], overdue |-> overdue[s]]

\* Mutant: the unprepared abort without the second test of
\* transactionIsInProgress.
KillFnNoRecheck(p, s) ==
    CASE p = "abortUnprepared" -> [txn |-> "aborted", ops |-> {"abort"}]
      [] p = "expired" ->
            IF txn[s] = "inProgress" THEN [txn |-> "aborted", ops |-> {"abort"}]
                                     ELSE [txn |-> txn[s], ops |-> {}]
      [] p = "shutdown" -> [txn |-> txn[s], ops |-> {"shutdown"}]
      [] p = "abortPrepared" -> [txn |-> "aborted", ops |-> {"abort", "invalidate"}]
      [] p = "yieldLocks" ->
            [txn |-> txn[s], ops |-> IF txn[s] = "prepared" THEN {"yield"} ELSE {}]
      [] p = "invalidate" ->
            [txn |-> txn[s], ops |-> IF txn[s] # "prepared" THEN {"invalidate"} ELSE {}]

KillFn(p, s) ==
    CASE p = "abortUnprepared" ->
            IF txn[s] = "inProgress" THEN [txn |-> "aborted", ops |-> {"abort"}]
                                     ELSE [txn |-> txn[s], ops |-> {}]
      [] p = "expired" ->
            IF txn[s] = "inProgress" THEN [txn |-> "aborted", ops |-> {"abort"}]
                                     ELSE [txn |-> txn[s], ops |-> {}]
      [] p = "shutdown" -> [txn |-> txn[s], ops |-> {"shutdown"}]
      [] p = "abortPrepared" -> [txn |-> "aborted", ops |-> {"abort", "invalidate"}]
      [] p = "yieldLocks" ->
            [txn |-> txn[s], ops |-> IF txn[s] = "prepared" THEN {"yield"} ELSE {}]
      [] p = "invalidate" ->
            [txn |-> txn[s], ops |-> IF txn[s] # "prepared" THEN {"invalidate"} ELSE {}]

(* Stage 2 for one session: checkOutSessionForKill waits until no         *)
(* operation has it checked out; the kill function runs on it (the         *)
(* prepared-abort one first asserts the transaction is prepared); the     *)
(* token is returned when the checked-out session goes out of scope.       *)
KillSession(s) ==
    /\ s \in pending
    /\ owner[s] = "in"
    /\ ~crashed
    /\ LET r == KillFn(proc, s)
       IN  /\ txn' = [txn EXCEPT ![s] = r.txn]
           /\ effects' = effects \cup {Effect(proc, s, op) : op \in r.ops}
    /\ crashed' = (proc = "abortPrepared" /\ txn[s] # "prepared")
    /\ kills' = [kills EXCEPT ![s] = kills[s] - 1]
    /\ pending' = pending \ {s}
    /\ UNCHANGED <<overdue, owner, proc, rounds>>

\* Every selected session has been killed: the procedure returns.
Finish ==
    /\ proc # "idle"
    /\ pending = {}
    /\ proc' = "idle"
    /\ UNCHANGED <<txn, overdue, owner, kills, pending, rounds, crashed, effects>>

-----------------------------------------------------------------------------
(* The environment: operations running transactions on the sessions.       *)

\* Mutant: a checkout that does not wait for the registered kills.
CheckOutIgnoringKills(s) ==
    /\ owner[s] = "in"
    /\ owner' = [owner EXCEPT ![s] = "out"]
    /\ UNCHANGED <<txn, overdue, kills, proc, pending, rounds, crashed, effects>>

CheckOut(s) ==
    /\ owner[s] = "in"
    /\ kills[s] = 0
    /\ owner' = [owner EXCEPT ![s] = "out"]
    /\ UNCHANGED <<txn, overdue, kills, proc, pending, rounds, crashed, effects>>

\* The transitions one command makes: start a new transaction (with a new
\* deadline), prepare, commit or abort.  A stepdown's RSTL blocks those
\* that write a prepare or decide a prepared transaction.
Transition(from, to) ==
    \/ from \in {"none", "committed", "aborted"} /\ to = "inProgress"
    \/ from = "inProgress" /\ to \in {"committed", "aborted"}
    \/ from = "inProgress" /\ to = "prepared" /\ ~RSTLHeld
    \/ from = "prepared" /\ to \in {"committed", "aborted"} /\ ~RSTLHeld

RunCommand(s) ==
    /\ owner[s] = "out"
    /\ \E to \in TxnStates :
          /\ Transition(txn[s], to)
          /\ txn' = [txn EXCEPT ![s] = to]
          /\ overdue' = [overdue EXCEPT ![s] = IF to = "inProgress" THEN FALSE
                                                                     ELSE overdue[s]]
    /\ owner' = [owner EXCEPT ![s] = "done"]
    /\ UNCHANGED <<kills, proc, pending, rounds, crashed, effects>>

\* The operation ends (its command done, failed or interrupted by a kill).
CheckIn(s) ==
    /\ owner[s] \in {"out", "done"}
    /\ owner' = [owner EXCEPT ![s] = "in"]
    /\ UNCHANGED <<txn, overdue, kills, proc, pending, rounds, crashed, effects>>

\* An in-progress transaction passes transactionLifetimeLimitSeconds.
Expire(s) ==
    /\ txn[s] = "inProgress"
    /\ ~overdue[s]
    /\ overdue' = [overdue EXCEPT ![s] = TRUE]
    /\ UNCHANGED <<txn, owner, kills, proc, pending, rounds, crashed, effects>>

Next ==
    \/ \E p \in Procs : ScanSessions(p)
    \/ \E s \in Sessions : KillSession(s)
    \/ Finish
    \/ \E s \in Sessions : CheckOut(s) \/ RunCommand(s) \/ CheckIn(s) \/ Expire(s)

Spec == Init /\ [][Next]_vars

(* Fairness.  The killer is one thread that runs the procedure to its end: *)
(* checkOutSessionForKill blocks only until the session is checked in, so  *)
(* the kill of a session that stays checked in, and the return once no     *)
(* token is left, are weakly fair.  session.kill(reason) also interrupts   *)
(* the operation that has the session checked out, so that operation ends *)
(* and checks the session in: check-in is weakly fair for a session with a *)
(* kill registered, and only for it (an operation nobody interrupts may    *)
(* hold its session as long as it likes).                                  *)
InterruptedCheckIn(s) == kills[s] > 0 /\ CheckIn(s)

FairSpec ==
    /\ Spec
    /\ WF_vars(\E s \in Sessions : KillSession(s))
    /\ WF_vars(Finish)
    /\ \A s \in Sessions : WF_vars(InterruptedCheckIn(s))

-----------------------------------------------------------------------------
Effects == [proc : Procs, op : {"abort", "invalidate", "shutdown", "yield"},
            from : TxnStates, overdue : BOOLEAN]

TypeOK ==
    /\ txn \in [Sessions -> TxnStates]
    /\ overdue \in [Sessions -> BOOLEAN]
    /\ owner \in [Sessions -> {"in", "out", "done"}]
    /\ kills \in [Sessions -> Nat]
    /\ proc \in Procs \cup {"idle"}
    /\ pending \subseteq Sessions
    /\ rounds \in 0..MaxRounds
    /\ crashed \in BOOLEAN
    /\ effects \subseteq Effects

(* What a kill does is right for the transaction it finds, whatever the    *)
(* session's own operation did between the scan and the checkout for kill *)
(* (the second test in each kill function): an abort outside the          *)
(* prepared-abort kill hits only a transaction still in progress; a       *)
(* prepared transaction is aborted only by the prepared-abort kill, whose *)
(* invariant() never fails; locks are yielded only for a prepared          *)
(* transaction; stepdown never invalidates a prepared one.                *)
KillsMatchState ==
    /\ ~crashed
    /\ \A e \in effects :
          /\ e.op = "abort" /\ e.proc # "abortPrepared" => e.from = "inProgress"
          /\ e.op = "abort" /\ e.proc = "abortPrepared" => e.from = "prepared"
          /\ e.op = "yield" => e.from = "prepared"
          /\ e.op = "invalidate" /\ e.proc = "invalidate" => e.from # "prepared"

(* killAllExpiredTransactions aborts only transactions that had outlived  *)
(* their limit: the kill function tests only that the transaction is in   *)
(* progress, so this rests on the kill registered at the scan keeping any  *)
(* new command, and so any new transaction, off the session until the     *)
(* kill is done.                                                          *)
ExpiryAbortsOnlyOverdue ==
    \A e \in effects : e.op = "abort" /\ e.proc = "expired" => e.overdue

(* Every kill procedure returns, and leaves no kill registered: the kill  *)
(* registered at the scan keeps a new operation from checking the session *)
(* out, the interrupt makes the running one check it in, so the killer's  *)
(* checkout cannot be starved, and no kill function's invariant() stops   *)
(* the killer half-way.  Sessions are then usable again.                  *)
KillsComplete ==
    proc # "idle" ~> (proc = "idle" /\ \A s \in Sessions : kills[s] = 0)

=============================================================================
