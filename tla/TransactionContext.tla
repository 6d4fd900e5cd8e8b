------------------------- MODULE TransactionContext -------------------------
(***************************************************************************)
(* One TransactionContext (src/chain/transaction_context.go) from its      *)
(* construction to Squash or Undo: the three init entry points, Exec and   *)
(* the dispatch of each action through the contract VM, the host calls a   *)
(* contract makes back into the context (CheckTime, AddNetUsage,          *)
(* AddRamUsage), the billing timer paused and resumed by the controller,  *)
(* deferred scheduling, Finalize, and the undo session.                   *)
(*                                                                         *)
(* The wall clock is `now`, in microseconds, advanced by Tick.  The       *)
(* controller and the VM are not under src/: they appear only as the      *)
(* order in which they call the context (phase) and as the choice of host *)
(* calls a contract makes.                                                *)
(***************************************************************************)
EXTENDS LimitEnvelope, FiniteSets

CONSTANTS
  Start,                     \* the construction time s, microseconds
  Transactions,              \* transactions the controller may push
  CallerDeadlines,           \* t.Deadline as the controller sets it
  BilledCpuInputs,           \* explicit billed_cpu_time_us values
  PackedSizes,               \* packed unprunable/prunable sizes
  BasePerTransactionNetUsage, TransactionIdNetUsage,
  ContextFreeDiscountNetUsageNum, ContextFreeDiscountNetUsageDen,
  BillableSizeGto,           \* common.BillableSizeV("generated_transaction_object")
  RamLimit,                  \* [Accounts -> Nat], what VerifyAccountRamUsage allows
  NetUsages, RamDeltas,      \* amounts a contract's host calls add
  TickSizes,                 \* how far the clock moves in one step
  MaxTime,                   \* bound: the clock stops here
  MaxHostCalls               \* bound: host calls per transaction

ASSUME Transactions \subseteq Transaction
\* The wall clock (microseconds since the epoch) exceeds every budget.
ASSUME Start > Milliseconds(MaxTransactionCpuUsage) + BlockCpuLimit
ASSUME MaxTime < MaxTimePoint

VARIABLES
  now,                       \* common.Now()
  Trx, Delay, Deadline, BilledCpuTimeUs, ExplicitBilledCpuTime,
  IsInput, ApplyContextFree, isInitialized,
  BillToAccounts, ValidateRamUsage,
  netLimit, netLimitDueToBlock, netLimitDueToGreylist, cpuLimitDueToGreylist,
  eagerNetLimit, netUsage, objectiveDurationLimit,
  deadline, deadlineExceptionCode, billingTimerExceptionCode,
  pseudoStart, billedTime, billingTimerDurationLimit,
  Trace,                     \* [scheduled, actionTraces, elapsed]
  ramUsage,                  \* rl: pending RAM usage per account
  db,                        \* rows the context inserted
  permissionUsage,           \* accounts whose permission usage was bumped
  charged,                   \* rl.AddTransactionUsage calls made (at most one)
  phase,                     \* where the controller is in its calls
  except,                    \* the exception in flight, or None
  dispatchPos, inAction, hostCalls,
  accrued                    \* history: CPU time elapsed while the timer ran

limitVars == <<netLimit, netLimitDueToBlock, netLimitDueToGreylist,
               cpuLimitDueToGreylist, eagerNetLimit, objectiveDurationLimit,
               deadline, deadlineExceptionCode, billingTimerExceptionCode,
               billingTimerDurationLimit>>
inputVars == <<Trx, Delay, Deadline, ExplicitBilledCpuTime>>
envVars   == <<ramUsage, db, permissionUsage, charged>>
execVars  == <<dispatchPos, inAction, hostCalls>>
vars == <<now, inputVars, BilledCpuTimeUs, IsInput, ApplyContextFree,
          isInitialized, BillToAccounts, ValidateRamUsage, limitVars, netUsage,
          pseudoStart, billedTime, Trace, envVars, phase, except, execVars,
          accrued>>

\* The exception in flight: its code and the site that raised it.
NoException == [code |-> None, by |-> None]
Raise(code, by) == except' = [code |-> code, by |-> by]

Seconds(s) == s * 1000000

\* types.Transaction.FirstAuthorizor: the first actor of any authorization.
FirstAuthorizor(trx) == Head(FlattenSeq(trx.actions))

(***************************************************************************)
(* NewTransactionContext (lines 53-102).  The controller then sets        *)
(* Deadline, Delay and the explicit billed CPU time.  The undo session is *)
(* never started: StartSession is commented out (line 96).               *)
(***************************************************************************)
Init ==
  /\ now = Start
  /\ Trx \in Transactions
  /\ Delay \in {0, Seconds(Trx.delaySec)}
  /\ Deadline \in CallerDeadlines
  /\ ExplicitBilledCpuTime \in BOOLEAN
  /\ BilledCpuTimeUs \in IF ExplicitBilledCpuTime THEN BilledCpuInputs ELSE {0}
  /\ IsInput = FALSE /\ ApplyContextFree = TRUE /\ isInitialized = FALSE
  /\ BillToAccounts = <<>> /\ ValidateRamUsage = <<>>
  /\ netLimit = 0 /\ netLimitDueToBlock = TRUE
  /\ netLimitDueToGreylist = FALSE /\ cpuLimitDueToGreylist = FALSE
  /\ eagerNetLimit = 0 /\ netUsage = 0 /\ objectiveDurationLimit = 0
  /\ deadline = MaxTimePoint
  /\ deadlineExceptionCode = BlockCpuUsageExceeded
  /\ billingTimerExceptionCode = BlockCpuUsageExceeded
  /\ pseudoStart = Start /\ billedTime = 0 /\ billingTimerDurationLimit = 0
  /\ Trace = [scheduled |-> FALSE, actionTraces |-> <<>>, elapsed |-> 0]
  /\ ramUsage = [a \in Accounts |-> 0]
  /\ db = {} /\ permissionUsage = {} /\ charged = {}
  /\ phase = "constructed" /\ except = NoException
  /\ dispatchPos = 0 /\ inAction = FALSE /\ hostCalls = 0
  /\ accrued = 0

Live(phases) == phase \in phases /\ except = NoException

(***************************************************************************)
(* CheckTime (lines 345-389) at deadline d with codes as given: the       *)
(* exception it raises, or None.                                          *)
(***************************************************************************)
TimeException(d, code, cpuGrey) ==
  IF SkipTrxChecks \/ now <= d THEN None
  ELSE IF ExplicitBilledCpuTime \/ code = DeadlineException THEN DeadlineException
  ELSE IF code = BlockCpuUsageExceeded THEN BlockCpuUsageExceeded
  ELSE IF code = TxCpuUsageExceed
       THEN IF cpuGrey THEN GreylistCpuUsageExceeded ELSE TxCpuUsageExceed
  ELSE IF code = LeewayDeadlineException THEN LeewayDeadlineException
  ELSE TransactionException

\* exception.EosAssert: the exception raised when the condition is false.
EosAssert(cond, code) == IF cond THEN None ELSE code

(***************************************************************************)
(* CheckNetUsage (lines 324-343) of a usage against an eager limit: the   *)
(* exception it raises, or None.  Each branch asserts `true`, so none     *)
(* raises.                                                                *)
(***************************************************************************)
NetUsageException(usage, eager, dueToBlock, dueToGreylist) ==
  IF SkipTrxChecks \/ usage <= eager THEN None
  ELSE CASE dueToBlock    -> EosAssert(TRUE, BlockNetUsageExceeded)
         [] dueToGreylist -> EosAssert(TRUE, GreylistNetUsageExceeded)
         [] OTHER         -> EosAssert(TRUE, TxNetUsageExceeded)

(***************************************************************************)
(* AddRamUsage (lines 454-465): the pending usage changes; a growing      *)
(* account is queued for validation, the first one behind a sentinel 5.   *)
(***************************************************************************)
RamQueued(account, ramDelta) ==
  IF ramDelta <= 0 THEN ValidateRamUsage
  ELSE IF ValidateRamUsage = <<>> THEN <<5, account>>
  ELSE Append(ValidateRamUsage, account)

AddRamUsage(account, ramDelta) ==
  /\ ramUsage' = [ramUsage EXCEPT ![account] = @ + ramDelta]
  /\ ValidateRamUsage' = RamQueued(account, ramDelta)

(***************************************************************************)
(* init (lines 104-201) with the initial net usage, as an action.  The    *)
(* header limits are set first; an explicit billed CPU time over them     *)
(* fails there (line 150).  Otherwise the payer limits follow, the       *)
(* initial net usage is added, and CheckTime may fail before              *)
(* isInitialized is set.                                                  *)
(***************************************************************************)
InitCore(initialNetUsage) ==
  LET h     == HeaderLimits(Trx)
      early == IF BilledCpuTimeUs > 0
               THEN ValidateCpuUsageToBill(BilledCpuTimeUs, FALSE,
                      h.objectiveDurationLimit, h.billingTimerExceptionCode,
                      cpuLimitDueToGreylist)
               ELSE None
      p     == PayerLimits(Trx, h, Start, Deadline, ExplicitBilledCpuTime)
      grey  == netLimitDueToGreylist \/ p.netLimitDueToGreylist
      net   == IF initialNetUsage > 0
               THEN NetUsageException(netUsage + initialNetUsage, p.eagerNetLimit,
                                      p.netLimitDueToBlock, grey)
               ELSE None
      late  == TimeException(p.deadline, p.deadlineExceptionCode,
                             p.cpuLimitDueToGreylist)
  IN
  /\ ~isInitialized
  /\ netLimit' = h.netLimit
  /\ objectiveDurationLimit' = h.objectiveDurationLimit
  /\ IF early # None
     THEN /\ netLimitDueToBlock' = h.netLimitDueToBlock
          /\ billingTimerExceptionCode' = h.billingTimerExceptionCode
          /\ deadline' = Int64(Start + h.objectiveDurationLimit)
          /\ Raise(early, "validateCpuUsageToBill")
          /\ UNCHANGED <<BillToAccounts, netLimitDueToGreylist,
                         cpuLimitDueToGreylist, eagerNetLimit,
                         billingTimerDurationLimit, deadlineExceptionCode,
                         netUsage, isInitialized>>
     ELSE /\ BillToAccounts' = BillToAccounts \o p.billToAccounts
          /\ netLimitDueToBlock' = p.netLimitDueToBlock
          /\ netLimitDueToGreylist' = grey
          /\ cpuLimitDueToGreylist' = (cpuLimitDueToGreylist \/ p.cpuLimitDueToGreylist)
          /\ eagerNetLimit' = p.eagerNetLimit
          /\ billingTimerExceptionCode' = p.billingTimerExceptionCode
          /\ billingTimerDurationLimit' = p.billingTimerDurationLimit
          /\ deadline' = p.deadline
          /\ deadlineExceptionCode' = p.deadlineExceptionCode
          /\ netUsage' = netUsage + initialNetUsage
          /\ CASE net # None  -> Raise(net, "CheckNetUsage") /\ UNCHANGED isInitialized
               [] late # None -> Raise(late, "CheckTime") /\ UNCHANGED isInitialized
               [] OTHER       -> isInitialized' = TRUE /\ UNCHANGED except

InitDone == IF except' = NoException THEN phase' = "initialized" ELSE UNCHANGED phase

\* InitForImplicitTrx (lines 203-206); Published is not read by the context.
InitForImplicitTrx ==
  /\ Live({"constructed"})
  /\ InitCore(0)
  /\ InitDone
  /\ UNCHANGED <<now, inputVars, BilledCpuTimeUs, IsInput, ApplyContextFree,
                 ValidateRamUsage, pseudoStart, billedTime, Trace, envVars,
                 execVars, accrued>>

\* The net usage an input transaction starts with (lines 209-220).
InputNetUsage(unprunable, prunable) ==
  LET num == ContextFreeDiscountNetUsageNum
      den == ContextFreeDiscountNetUsageDen
      discounted == IF den > 0 /\ num < den
                    THEN (prunable * num + den - 1) \div den
                    ELSE prunable
      base == BasePerTransactionNetUsage + unprunable + discounted
  IN  IF Trx.delaySec > 0
      THEN base + BasePerTransactionNetUsage + TransactionIdNetUsage
      ELSE base

(***************************************************************************)
(* InitForInputTrx (lines 208-236).  Expiration, TAPOS and referenced     *)
(* accounts are validated only when SkipTrxChecks() holds (line 225).     *)
(* After a successful init the transaction id is recorded (lines          *)
(* 547-551) unless the caller skips recording.                            *)
(***************************************************************************)
InitForInputTrx ==
  \E unprunable, prunable \in PackedSizes, skipRecording \in BOOLEAN :
    /\ Live({"constructed"})
    /\ IsInput' = TRUE
    /\ IF SkipTrxChecks /\ Trx.expired
       THEN /\ Raise("ExpiredTxException", "ValidateExpiration")
            /\ UNCHANGED <<isInitialized, BillToAccounts, limitVars, netUsage,
                           db, phase>>
       ELSE /\ InitCore(InputNetUsage(unprunable, prunable))
            /\ InitDone
            /\ db' = IF except' = NoException /\ ~skipRecording THEN db \cup {"TransactionObject"}
                     ELSE db
    /\ UNCHANGED <<now, inputVars, BilledCpuTimeUs, ApplyContextFree,
                   ValidateRamUsage, pseudoStart, billedTime, Trace, ramUsage,
                   permissionUsage, charged, execVars, accrued>>

\* InitForDeferredTrx (lines 238-243): context-free actions are not re-run.
InitForDeferredTrx ==
  /\ Live({"constructed"})
  /\ Trace' = [Trace EXCEPT !.scheduled = TRUE]
  /\ ApplyContextFree' = FALSE
  /\ InitCore(0)
  /\ InitDone
  /\ UNCHANGED <<now, inputVars, BilledCpuTimeUs, IsInput, ValidateRamUsage,
                 pseudoStart, billedTime, envVars, execVars, accrued>>

(***************************************************************************)
(* Exec (lines 245-264): the context-free actions when they apply, then   *)
(* the actions when there is no delay.  Each is one dispatch, a flag      *)
(* saying whether it runs context-free.                                   *)
(***************************************************************************)
Dispatches ==
  [i \in 1..(IF ApplyContextFree THEN Trx.cfActions ELSE 0) |-> TRUE]
  \o [i \in 1..(IF Delay = 0 THEN Len(Trx.actions) ELSE 0) |-> FALSE]

ExecStart ==
  /\ Live({"initialized"})
  /\ isInitialized
  /\ phase' = "executing"
  /\ dispatchPos' = 1
  /\ UNCHANGED <<now, inputVars, BilledCpuTimeUs, IsInput, ApplyContextFree,
                 isInitialized, BillToAccounts, ValidateRamUsage, limitVars,
                 netUsage, pseudoStart, billedTime, Trace, envVars, except,
                 inAction, hostCalls, accrued>>

\* Lines 251-252 / 258-259 and DispathAction line 506: an empty trace is
\* appended and the VM starts on the action.
BeginDispatch ==
  /\ Live({"executing"})
  /\ ~inAction
  /\ dispatchPos <= Len(Dispatches)
  /\ Trace' = [Trace EXCEPT !.actionTraces =
                 Append(@, [contextFree |-> Dispatches[dispatchPos], complete |-> FALSE])]
  /\ inAction' = TRUE
  /\ UNCHANGED <<now, inputVars, BilledCpuTimeUs, IsInput, ApplyContextFree,
                 isInitialized, BillToAccounts, ValidateRamUsage, limitVars,
                 netUsage, pseudoStart, billedTime, envVars, phase, except,
                 dispatchPos, hostCalls, accrued>>

SetLastTrace(complete) ==
  Trace' = [Trace EXCEPT !.actionTraces[Len(Trace.actionTraces)].complete = complete]

\* DispathAction lines 510-518 on success: the trace is written back.
EndDispatch ==
  /\ Live({"executing"})
  /\ inAction
  /\ SetLastTrace(TRUE)
  /\ inAction' = FALSE
  /\ dispatchPos' = dispatchPos + 1
  /\ UNCHANGED <<now, inputVars, BilledCpuTimeUs, IsInput, ApplyContextFree,
                 isInitialized, BillToAccounts, ValidateRamUsage, limitVars,
                 netUsage, pseudoStart, billedTime, envVars, phase, except,
                 hostCalls, accrued>>

\* DispathAction lines 512-516: the contract fails (eosio_assert); the
\* partial trace stays written and the exception is rethrown.
DispatchFails ==
  /\ Live({"executing"})
  /\ inAction
  /\ Raise("EosioAssertMessageException", "ApplyContext.Exec")
  /\ UNCHANGED <<now, inputVars, BilledCpuTimeUs, IsInput, ApplyContextFree,
                 isInitialized, BillToAccounts, ValidateRamUsage, limitVars,
                 netUsage, pseudoStart, billedTime, Trace, envVars, phase,
                 execVars, accrued>>

(***************************************************************************)
(* Host calls a running contract makes into the context.                  *)
(***************************************************************************)
HostCall == Live({"executing"}) /\ inAction /\ hostCalls < MaxHostCalls

\* AddNetUsage (lines 449-452): the usage grows, then CheckNetUsage runs
\* on the grown usage.
HostAddNetUsage(u) ==
  LET net == NetUsageException(netUsage + u, eagerNetLimit, netLimitDueToBlock,
                               netLimitDueToGreylist)
  IN
  /\ HostCall
  /\ netUsage' = netUsage + u
  /\ hostCalls' = hostCalls + 1
  /\ IF net # None THEN Raise(net, "CheckNetUsage") ELSE UNCHANGED except
  /\ UNCHANGED <<now, inputVars, BilledCpuTimeUs, IsInput, ApplyContextFree,
                 isInitialized, BillToAccounts, ValidateRamUsage, limitVars,
                 pseudoStart, billedTime, Trace, envVars, phase,
                 dispatchPos, inAction, accrued>>

HostAddRamUsage(account, ramDelta) ==
  /\ HostCall
  /\ AddRamUsage(account, ramDelta)
  /\ hostCalls' = hostCalls + 1
  /\ UNCHANGED <<now, inputVars, BilledCpuTimeUs, IsInput, ApplyContextFree,
                 isInitialized, BillToAccounts, limitVars, netUsage,
                 pseudoStart, billedTime, Trace, db, permissionUsage, charged,
                 phase, except, dispatchPos, inAction, accrued>>

(***************************************************************************)
(* CheckTime (lines 345-389) called by the VM or the controller while the *)
(* transaction runs; only a call that raises changes anything.           *)
(***************************************************************************)
CheckTime ==
  LET e == TimeException(deadline, deadlineExceptionCode, cpuLimitDueToGreylist)
  IN  /\ Live({"initialized", "executing", "executed"})
      /\ e # None
      /\ Raise(e, "CheckTime")
      /\ UNCHANGED <<now, inputVars, BilledCpuTimeUs, IsInput, ApplyContextFree,
                     isInitialized, BillToAccounts, ValidateRamUsage, limitVars,
                     netUsage, pseudoStart, billedTime, Trace, envVars, phase,
                     execVars, accrued>>

(***************************************************************************)
(* scheduleTransaction (lines 521-545): a delayed transaction becomes a   *)
(* generated-transaction row charged to the first authorizer, its         *)
(* serialized size taken as 0 (line 540).                                 *)
(***************************************************************************)
ExecEnd ==
  /\ Live({"executing"})
  /\ ~inAction
  /\ dispatchPos > Len(Dispatches)
  /\ phase' = "executed"
  /\ IF Delay = 0
     THEN UNCHANGED <<netUsage, db, ramUsage, ValidateRamUsage>>
     ELSE /\ netUsage' = IF Trx.delaySec = 0
                         THEN netUsage + BasePerTransactionNetUsage + TransactionIdNetUsage
                         ELSE netUsage
          /\ db' = db \cup {"GeneratedTransactionObject"}
          /\ AddRamUsage(FirstAuthorizor(Trx), BillableSizeGto + 0)
  /\ UNCHANGED <<now, inputVars, BilledCpuTimeUs, IsInput, ApplyContextFree,
                 isInitialized, BillToAccounts, limitVars, pseudoStart,
                 billedTime, Trace, permissionUsage, charged, except, execVars,
                 accrued>>

(***************************************************************************)
(* The billing timer (lines 392-419).  The early returns are the guards.  *)
(***************************************************************************)
TimerCallable == Live({"initialized", "executing", "executed"})

\* Mutant: pausing leaves the deadline exception code as it was.
PauseBillingTimerKeepsCode ==
  /\ TimerCallable
  /\ ~ExplicitBilledCpuTime /\ pseudoStart # 0
  /\ billedTime' = now - pseudoStart
  /\ pseudoStart' = 0
  /\ UNCHANGED <<now, inputVars, BilledCpuTimeUs, IsInput, ApplyContextFree,
                 isInitialized, BillToAccounts, ValidateRamUsage, limitVars,
                 netUsage, Trace, envVars, phase, except, execVars, accrued>>

\* Mutant: the billed time computed with its operands swapped.
PauseBillingTimerSwapped ==
  /\ TimerCallable
  /\ ~ExplicitBilledCpuTime /\ pseudoStart # 0
  /\ billedTime' = pseudoStart - now
  /\ deadlineExceptionCode' = DeadlineException
  /\ pseudoStart' = 0
  /\ UNCHANGED <<now, inputVars, BilledCpuTimeUs, IsInput, ApplyContextFree,
                 isInitialized, BillToAccounts, ValidateRamUsage, netLimit,
                 netLimitDueToBlock, netLimitDueToGreylist, cpuLimitDueToGreylist,
                 eagerNetLimit, objectiveDurationLimit, deadline,
                 billingTimerExceptionCode, billingTimerDurationLimit, netUsage,
                 Trace, envVars, phase, except, execVars, accrued>>

PauseBillingTimer ==
  /\ TimerCallable
  /\ ~ExplicitBilledCpuTime /\ pseudoStart # 0
  /\ billedTime' = now - pseudoStart
  /\ deadlineExceptionCode' = DeadlineException
  /\ pseudoStart' = 0
  /\ UNCHANGED <<now, inputVars, BilledCpuTimeUs, IsInput, ApplyContextFree,
                 isInitialized, BillToAccounts, ValidateRamUsage, netLimit,
                 netLimitDueToBlock, netLimitDueToGreylist, cpuLimitDueToGreylist,
                 eagerNetLimit, objectiveDurationLimit, deadline,
                 billingTimerExceptionCode, billingTimerDurationLimit, netUsage,
                 Trace, envVars, phase, except, execVars, accrued>>

\* Mutant: resuming restarts the timer at now, forgetting the billed time.
ResumeBillingTimerFromNow ==
  LET timerDeadline == Int64(now + billingTimerDurationLimit)
  IN
  /\ TimerCallable
  /\ ~ExplicitBilledCpuTime /\ pseudoStart = 0
  /\ pseudoStart' = now
  /\ IF timerDeadline <= Deadline
     THEN deadline' = timerDeadline /\ deadlineExceptionCode' = billingTimerExceptionCode
     ELSE deadline' = Deadline /\ deadlineExceptionCode' = DeadlineException
  /\ UNCHANGED <<now, inputVars, BilledCpuTimeUs, IsInput, ApplyContextFree,
                 isInitialized, BillToAccounts, ValidateRamUsage, netLimit,
                 netLimitDueToBlock, netLimitDueToGreylist, cpuLimitDueToGreylist,
                 eagerNetLimit, objectiveDurationLimit, billingTimerExceptionCode,
                 billingTimerDurationLimit, netUsage, billedTime, Trace, envVars,
                 phase, except, execVars, accrued>>

ResumeBillingTimer ==
  LET start == now - billedTime
      timerDeadline == Int64(start + billingTimerDurationLimit)
  IN
  /\ TimerCallable
  /\ ~ExplicitBilledCpuTime /\ pseudoStart = 0
  /\ pseudoStart' = start
  /\ IF timerDeadline <= Deadline
     THEN deadline' = timerDeadline /\ deadlineExceptionCode' = billingTimerExceptionCode
     ELSE deadline' = Deadline /\ deadlineExceptionCode' = DeadlineException
  /\ UNCHANGED <<now, inputVars, BilledCpuTimeUs, IsInput, ApplyContextFree,
                 isInitialized, BillToAccounts, ValidateRamUsage, netLimit,
                 netLimitDueToBlock, netLimitDueToGreylist, cpuLimitDueToGreylist,
                 eagerNetLimit, objectiveDurationLimit, billingTimerExceptionCode,
                 billingTimerDurationLimit, netUsage, billedTime, Trace, envVars,
                 phase, except, execVars, accrued>>

\* Mutant: the billed time measured from the construction time.
BilledCpuSinceStart(t) ==
  IF ExplicitBilledCpuTime THEN BilledCpuTimeUs
  ELSE MaxOf(Uint64(t - Start), MinTransactionCpuUsage)

\* UpdateBilledCpuTime (lines 467-475) at time t.
BilledCpuAt(t) ==
  IF ExplicitBilledCpuTime THEN BilledCpuTimeUs
  ELSE MaxOf(Uint64(t - pseudoStart), MinTransactionCpuUsage)

(***************************************************************************)
(* Finalize (lines 266-310).  RAM is verified for the *indices* of        *)
(* ValidateRamUsage converted to account names (`for a := range`, line   *)
(* 279): small numbers that name no account, so the verification never   *)
(* fails and changes nothing.  The limits tighten to what the payers     *)
(* can afford, the usage is word-aligned and CheckNetUsage runs (line    *)
(* 301) before the CPU time is billed and validated.                      *)
(***************************************************************************)
Finalize ==
  LET mb       == MaxBandwidthBilledAccountsCanPay(BillToAccounts, FALSE)
      net1     == IF mb.net <= netLimit THEN mb.net ELSE netLimit
      cpuTight == mb.cpu <= objectiveDurationLimit
      cpu1     == IF cpuTight THEN mb.cpu ELSE objectiveDurationLimit
      btCode1  == IF cpuTight THEN TxCpuUsageExceed ELSE billingTimerExceptionCode
      grey1    == cpuLimitDueToGreylist \/ mb.greylistedCpu
      usage1   == ((netUsage + 7) \div 8) * 8
      billed   == BilledCpuAt(now)
      bad      == ValidateCpuUsageToBill(billed, TRUE, cpu1, btCode1, grey1)
      net      == NetUsageException(usage1, net1,
                    netLimitDueToBlock /\ ~(mb.net <= netLimit),
                    netLimitDueToGreylist \/ mb.greylistedNet)
  IN
  /\ Live({"executed"})
  /\ isInitialized
  /\ permissionUsage' = IF IsInput THEN permissionUsage \cup ToSet(FlattenSeq(Trx.actions))
                        ELSE permissionUsage
  /\ netLimitDueToGreylist' = (netLimitDueToGreylist \/ mb.greylistedNet)
  /\ cpuLimitDueToGreylist' = grey1
  /\ netLimit' = net1
  /\ netLimitDueToBlock' = (netLimitDueToBlock /\ ~(mb.net <= netLimit))
  /\ objectiveDurationLimit' = cpu1
  /\ billingTimerExceptionCode' = btCode1
  /\ netUsage' = usage1
  /\ eagerNetLimit' = net1
  /\ CASE net # None ->
            Raise(net, "CheckNetUsage") /\ UNCHANGED <<Trace, BilledCpuTimeUs, charged, phase>>
       [] bad # None ->
            /\ Trace' = [Trace EXCEPT !.elapsed = now - Start]
            /\ BilledCpuTimeUs' = billed
            /\ Raise(bad, "validateCpuUsageToBill") /\ UNCHANGED <<charged, phase>>
       [] OTHER ->
            /\ Trace' = [Trace EXCEPT !.elapsed = now - Start]
            /\ BilledCpuTimeUs' = billed
            /\ charged' = {[accounts |-> BillToAccounts, cpu |-> billed, net |-> usage1]}
            /\ phase' = "finalized"
            /\ UNCHANGED except
  /\ UNCHANGED <<now, inputVars, IsInput, ApplyContextFree, isInitialized,
                 BillToAccounts, ValidateRamUsage, deadline, deadlineExceptionCode,
                 billingTimerDurationLimit, pseudoStart, billedTime, ramUsage, db,
                 execVars, accrued>>

(***************************************************************************)
(* Squash and Undo (lines 312-322) act on the undo session, which is nil: *)
(* neither touches the database.  The controller squashes a finalized     *)
(* transaction and undoes a failed one.                                  *)
(***************************************************************************)
Squash ==
  /\ Live({"finalized"})
  /\ phase' = "squashed"
  /\ UNCHANGED <<now, inputVars, BilledCpuTimeUs, IsInput, ApplyContextFree,
                 isInitialized, BillToAccounts, ValidateRamUsage, limitVars,
                 netUsage, pseudoStart, billedTime, Trace, envVars, except,
                 execVars, accrued>>

Undo ==
  /\ except # NoException
  /\ phase \notin {"squashed", "undone"}
  /\ phase' = "undone"
  /\ UNCHANGED <<now, inputVars, BilledCpuTimeUs, IsInput, ApplyContextFree,
                 isInitialized, BillToAccounts, ValidateRamUsage, limitVars,
                 netUsage, pseudoStart, billedTime, Trace, envVars, except,
                 execVars, accrued>>

\* The wall clock advances while the transaction is being processed.
Tick(d) ==
  /\ Live({"constructed", "initialized", "executing", "executed"})
  /\ now + d <= MaxTime
  /\ now' = now + d
  /\ accrued' = IF pseudoStart # 0 THEN accrued + d ELSE accrued
  /\ UNCHANGED <<inputVars, BilledCpuTimeUs, IsInput, ApplyContextFree,
                 isInitialized, BillToAccounts, ValidateRamUsage, limitVars,
                 netUsage, pseudoStart, billedTime, Trace, envVars, phase,
                 except, execVars>>

Next ==
  \/ InitForImplicitTrx \/ InitForInputTrx \/ InitForDeferredTrx
  \/ ExecStart \/ BeginDispatch \/ EndDispatch \/ DispatchFails \/ ExecEnd
  \/ \E u \in NetUsages : HostAddNetUsage(u)
  \/ \E a \in Accounts, r \in RamDeltas : HostAddRamUsage(a, r)
  \/ CheckTime \/ PauseBillingTimer \/ ResumeBillingTimer
  \/ Finalize \/ Squash \/ Undo
  \/ \E d \in TickSizes : Tick(d)

Spec == Init /\ [][Next]_vars
=============================================================================
