------------------------ MODULE MCTransactionContext ------------------------
(***************************************************************************)
(* Model-checking harness for TransactionContext: the accounts, account   *)
(* limits and transactions of the runs, and the properties checked.       *)
(***************************************************************************)
EXTENDS TransactionContext, TLC

CONSTANTS alice, bob

\* What the payers can afford: finite stakes (alice more than bob).
StakedNet == [a \in Accounts |-> [e \in BOOLEAN |-> IF a = alice THEN 1500 ELSE 900]]
StakedCpu == [a \in Accounts |-> [e \in BOOLEAN |-> IF a = alice THEN 20000 ELSE 5000]]
StakedRam == [a \in Accounts |-> 50]

\* A transaction: actors of each action, context-free actions, header CPU
\* cap in ms, delay in seconds, and whether it has expired.
Trx1(acts, cf, ms, delay, expired) ==
  [actions |-> acts, cfActions |-> cf, maxNetUsageWords |-> 0,
   maxCpuUsageMS |-> ms, delaySec |-> delay, expired |-> expired]

\* A transaction of bob with a context-free action, run immediately.
ImmediateTrx == {Trx1(<<<<bob>>>>, 1, 0, 0, FALSE)}
\* The same under a CPU cap in the header, and delayed by a second.
MixedTrx     == {Trx1(<<<<bob>>>>, 1, 0, 0, FALSE), Trx1(<<<<alice>>>>, 0, 10, 1, FALSE)}
\* An expired transaction of alice.
ExpiredTrx   == {Trx1(<<<<alice>>>>, 0, 0, 0, TRUE)}

\* Caller deadlines: none (MaxTimePoint), or 12 ms after the start.
CallerDeadlineSet == {MaxTimePoint, Start + 12000}
\* The clock runs for 25 ms, in steps of 5 ms.
TimeBound == Start + 25000

BT == INSTANCE BillingTimer WITH
        clock <- now,
        running <- pseudoStart # 0,
        billed <- IF pseudoStart # 0 THEN now - pseudoStart ELSE billedTime

Phases == {"constructed", "initialized", "executing", "executed",
           "finalized", "squashed", "undone"}
ExceptionValue == [code: STRING, by: STRING]

TypeOK ==
  /\ now \in Start..MaxTime
  /\ Trx \in Transactions
  /\ isInitialized \in BOOLEAN /\ IsInput \in BOOLEAN /\ inAction \in BOOLEAN
  /\ netUsage \in Nat /\ eagerNetLimit \in Nat /\ netLimit \in Nat
  /\ pseudoStart \in {0} \cup (Start..MaxTime)
  /\ billedTime \in 0..(MaxTime - Start)
  /\ BillToAccounts \in Seq(Accounts)
  /\ ramUsage \in [Accounts -> Int]
  /\ phase \in Phases
  /\ except \in ExceptionValue
  /\ dispatchPos \in 0..(Len(Dispatches) + 1)
  /\ hostCalls \in 0..MaxHostCalls
  /\ accrued \in 0..(MaxTime - Start)

(***************************************************************************)
(* Pause/Resume round-trip (spec.md 4.2, 8): the billing timer of         *)
(* PauseBillingTimer/ResumeBillingTimer, through pseudoStart (0 = paused) *)
(* and billedTime, implements the abstract pausable stopwatch.            *)
(***************************************************************************)
BillingTimerRefinement == BT!Spec

(***************************************************************************)
(* A finalized transaction that was timed (not explicitly billed) is      *)
(* billed exactly the CPU time that elapsed while its billing timer ran,  *)
(* floored at the minimum (Finalize -> UpdateBilledCpuTime), however the  *)
(* controller paused and resumed it.                                      *)
(***************************************************************************)
BilledCpuIsAccruedTime ==
  (phase \in {"finalized", "squashed"} /\ ~ExplicitBilledCpuTime)
    => BilledCpuTimeUs = MaxOf(accrued, MinTransactionCpuUsage)

(***************************************************************************)
(* spec.md section 3: the deadline exception code identifies the cap the  *)
(* current deadline represents.  Whenever it names a CPU cap (init,       *)
(* ResumeBillingTimer), the timer is running and the deadline is where    *)
(* the billing-timer budget runs out, no later than the caller's.         *)
(***************************************************************************)
DeadlineCodeMatchesCap ==
  (isInitialized /\ deadlineExceptionCode # DeadlineException)
    => /\ pseudoStart # 0
       /\ deadline = Int64(pseudoStart + billingTimerDurationLimit)
       /\ deadline <= Deadline

(***************************************************************************)
(* spec.md section 8: on return from any operation the net usage is      *)
(* within the eager net limit.  CheckNetUsage's assertions are written    *)
(* EosAssert(true, ...) (lines 329-339).                                  *)
(***************************************************************************)
NetUsageWithinLimit ==
  (isInitialized /\ except = NoException) => netUsage <= eagerNetLimit

(***************************************************************************)
(* spec.md 4.6 step 2: Finalize verifies the RAM of every account whose   *)
(* usage grew, so a finalized transaction leaves no such account over its *)
(* RAM limit.  The loop ranges over indices (line 279).                   *)
(***************************************************************************)
RamWithinLimitsAtFinalize ==
  phase \in {"finalized", "squashed"} =>
    \A a \in Accounts : a \in ToSet(ValidateRamUsage) => ramUsage[a] <= RamLimit[a]

(***************************************************************************)
(* spec.md section 8: the eager net limit is always a multiple of 8.      *)
(* Finalize sets it to the payers' net limit unrounded (line 299).        *)
(***************************************************************************)
EagerNetWordAligned == eagerNetLimit % 8 = 0

(***************************************************************************)
(* spec.md 4.2: while the timer is paused "the only thing that can fire   *)
(* is the caller's hard wall-clock deadline": a DeadlineException from    *)
(* CheckTime means the caller's deadline has passed.  PauseBillingTimer   *)
(* switches the code but leaves the deadline (lines 398-401).             *)
(***************************************************************************)
DeadlineOnlyPastCallerDeadline ==
  (except.by = "CheckTime" /\ except.code = DeadlineException)
    => now > Deadline

(***************************************************************************)
(* spec.md 3 and 4.7: a failed transaction is undone, and Undo reverts    *)
(* every row it wrote (the dedup row, a generated transaction).  The      *)
(* session is never started (line 96), so Squash and Undo are no-ops.     *)
(***************************************************************************)
UndoRevertsWrites == phase = "undone" => db = {}

(***************************************************************************)
(* spec.md 4.1: an input transaction is validated for expiration before   *)
(* it is initialized, so an expired one never initializes.  The checks    *)
(* run only when SkipTrxChecks() holds (line 225).                        *)
(***************************************************************************)
ExpiredInputRejected == (isInitialized /\ IsInput) => ~Trx.expired
=============================================================================
