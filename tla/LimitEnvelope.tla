---------------------------- MODULE LimitEnvelope ----------------------------
(***************************************************************************)
(* The limit envelope that TransactionContext.init computes                *)
(* (src/chain/transaction_context.go, lines 104-201): the block caps,      *)
(* clamped by the global configuration, by the transaction header and by  *)
(* what the billed accounts can pay, folded into a net limit, a CPU        *)
(* budget, a deadline and the exception code that fires first.            *)
(*                                                                         *)
(* Go's int64/uint64 arithmetic is modelled at Width bits: the operators   *)
(* Int64 and Uint64 wrap exactly as the 64-bit types do, and the model's   *)
(* values are chosen so that what does not wrap at 64 bits does not wrap   *)
(* at Width bits either (see ASSUME below).                               *)
(***************************************************************************)
EXTENDS Integers, Sequences, SequencesExt

CONSTANTS
  Width,                   \* bits of the modelled int64/uint64
  Accounts,                \* account names that can authorize actions
  BlockNetLimit,           \* rl.GetBlockNetLimit()
  BlockCpuLimit,           \* rl.GetBlockCpuLimit(), microseconds
  MaxTransactionNetUsage,  \* cfg.MaxTransactionNetUsage
  MaxTransactionCpuUsage,  \* cfg.MaxTransactionCpuUsage, microseconds
  NetUsageLeeway,          \* cfg.NetUsageLeeway
  MinTransactionCpuUsage,  \* cfg.MinTransactionCpuUsage
  AccountNetLimit,         \* [Accounts -> [BOOLEAN -> Int]]: rl.GetAccountNetLimit(a, elastic), -1 = unlimited
  AccountCpuLimit,         \* [Accounts -> [BOOLEAN -> Int]]: rl.GetAccountCpuLimit(a, elastic), -1 = unlimited
  Greylisted,              \* accounts for which Control.IsResourceGreylisted holds
  IsProducingBlock,        \* Control.IsProducingBlock()
  SkipTrxChecks            \* Control.SkipTrxChecks()

Modulus == 2^Width
Half    == Modulus \div 2

ASSUME Width \in 12..30
ASSUME Greylisted \subseteq Accounts
ASSUME IsProducingBlock \in BOOLEAN /\ SkipTrxChecks \in BOOLEAN
\* No configured limit is large enough to wrap when converted from
\* milliseconds, as none does at 64 bits.
ASSUME \A v \in {BlockCpuLimit, MaxTransactionCpuUsage} : v * 1000 < Half

\* Two's-complement wrap of Go's int64 and uint64 at Width bits.
Int64(x)  == ((x + Half) % Modulus) - Half
Uint64(x) == x % Modulus

\* x * k modulo 2^Width, computed by doubling so that no intermediate
\* value leaves TLC's 32-bit integers.
RECURSIVE MulMod(_, _)
MulMod(x, k) ==
  IF k = 0 THEN 0
  ELSE LET h == MulMod(x, k \div 2)
       IN  (((2 * h) % Modulus) + ((k % 2) * (x % Modulus))) % Modulus

\* common.Milliseconds: an int64 count of milliseconds times 1000.
Milliseconds(ms) == Int64(MulMod(ms, 1000))

\* math.MaxUint64 / 2 (line 479).
LargeNumberNoOverflow == (Modulus - 1) \div 2

\* common.MaxTimePoint(): the largest int64.
MaxTimePoint == Half - 1

\* The constructor's t.Leeway (line 77), microseconds.
Leeway == 3000

MinOf(a, b) == IF a <= b THEN a ELSE b
MaxOf(a, b) == IF a >= b THEN a ELSE b

\* Exception codes (package exception).
None                     == "None"
BlockNetUsageExceeded    == "BlockNetUsageExceeded"
GreylistNetUsageExceeded == "GreylistNetUsageExceeded"
TxNetUsageExceeded       == "TxNetUsageExceeded"
BlockCpuUsageExceeded    == "BlockCpuUsageExceeded"
TxCpuUsageExceed         == "TxCpuUsageExceed"
GreylistCpuUsageExceeded == "GreylistCpuUsageExceeded"
LeewayDeadlineException  == "LeewayDeadlineException"
DeadlineException        == "DeadlineException"
TransactionException     == "TransactionException"

(***************************************************************************)
(* A transaction is abstracted to what the envelope and the dispatcher     *)
(* read: the actors of each action's authorization, the number of context- *)
(* free actions, the header limits, the delay and whether it is expired.   *)
(***************************************************************************)
Transaction ==
  [actions: Seq(Seq(Accounts)), cfActions: Nat, maxNetUsageWords: Nat,
   maxCpuUsageMS: Nat, delaySec: Nat, expired: BOOLEAN]

\* Lines 111-145: block caps, lowered by the configuration and the header.
\* The configured CPU cap is compared as microseconds (line 124) but
\* assigned as milliseconds (line 125).
HeaderLimits(trx) ==
  LET txNet   == MaxTransactionNetUsage <= BlockNetLimit
      net1    == IF txNet THEN MaxTransactionNetUsage ELSE BlockNetLimit
      txCpu   == MaxTransactionCpuUsage <= BlockCpuLimit
      cpu1    == IF txCpu THEN Milliseconds(MaxTransactionCpuUsage) ELSE BlockCpuLimit
      hdrNet  == trx.maxNetUsageWords * 8
      useNet  == hdrNet > 0 /\ hdrNet <= net1
      hdrCpu  == Milliseconds(trx.maxCpuUsageMS)
      useCpu  == trx.maxCpuUsageMS > 0 /\ hdrCpu <= cpu1
  IN [netLimit                  |-> IF useNet THEN hdrNet ELSE net1,
      netLimitDueToBlock        |-> ~txNet /\ ~useNet,
      objectiveDurationLimit    |-> IF useCpu THEN hdrCpu ELSE cpu1,
      billingTimerExceptionCode |-> IF txCpu \/ useCpu THEN TxCpuUsageExceed
                                    ELSE BlockCpuUsageExceeded]

\* Lines 154-158: every authorization's actor, in order, duplicates kept.
BillToAccountsOf(trx) == FlattenSeq(trx.actions)

\* Line 485 as written: Go's precedence gives !producing && greylisted.
Elastic(a, forceElastic) ==
  forceElastic \/ (~IsProducingBlock /\ a \in Greylisted)

\* Lines 477-502. uint64 of an unlimited (-1) account limit exceeds
\* LargeNumberNoOverflow, and the `>= 0` guards on uint64 always hold.
MaxBandwidthBilledAccountsCanPay(bill, forceElastic) ==
  LET payers == ToSet(bill)
      lim(f) == Min({LargeNumberNoOverflow} \cup
                    {Uint64(f[a][Elastic(a, forceElastic)]) : a \in payers})
      grey   == \E a \in payers : ~Elastic(a, forceElastic)
  IN [net |-> lim(AccountNetLimit), cpu |-> lim(AccountCpuLimit),
      greylistedNet |-> grey, greylistedCpu |-> grey]

\* Lines 421-448: the exception validateCpuUsageToBill raises, or None.
ValidateCpuUsageToBill(billedUs, checkMinimum, objective, btCode, cpuGrey) ==
  IF SkipTrxChecks THEN None
  ELSE IF checkMinimum /\ billedUs < MinTransactionCpuUsage THEN TransactionException
  ELSE IF billedUs <= objective THEN None
  ELSE IF btCode = BlockCpuUsageExceeded THEN BlockCpuUsageExceeded
  ELSE IF cpuGrey THEN GreylistCpuUsageExceeded
  ELSE TxCpuUsageExceed

\* Lines 153-193, after the header limits h: payers, eager net limit,
\* the leeway deadline, the billing-timer budget and the caller deadline.
PayerLimits(trx, h, start, callerDeadline, explicitBilled) ==
  LET bill      == BillToAccountsOf(trx)
      mb        == MaxBandwidthBilledAccountsCanPay(bill, FALSE)
      newEager  == MinOf(h.netLimit, Uint64(mb.net + NetUsageLeeway))
      tighter   == newEager < h.netLimit
      deadline0 == Int64(start + h.objectiveDurationLimit)
      \* line 178 converts the microsecond budget as milliseconds
      useLeeway == Int64(Milliseconds(mb.cpu) + Leeway) <= Int64(deadline0 - start)
      deadline1 == IF useLeeway THEN Int64(Int64(start + mb.cpu) + Leeway) ELSE deadline0
      btCode    == IF useLeeway THEN LeewayDeadlineException ELSE h.billingTimerExceptionCode
      caller    == explicitBilled \/ callerDeadline < deadline1
  IN [billToAccounts            |-> bill,
      netLimitDueToGreylist     |-> mb.greylistedNet,
      cpuLimitDueToGreylist     |-> mb.greylistedCpu,
      netLimitDueToBlock        |-> h.netLimitDueToBlock /\ ~tighter,
      eagerNetLimit             |-> (newEager \div 8) * 8,
      billingTimerExceptionCode |-> btCode,
      billingTimerDurationLimit |-> Int64(deadline1 - start),
      deadline                  |-> IF caller THEN callerDeadline ELSE deadline1,
      deadlineExceptionCode     |-> IF caller THEN DeadlineException ELSE btCode]
=============================================================================
