--------------------------- MODULE MCLimitEnvelope ---------------------------
(***************************************************************************)
(* Checks the envelope init computes (LimitEnvelope) against what spec.md  *)
(* section 4.1 says of it, over every transaction, caller deadline and     *)
(* billing mode drawn from small sets.  The state is the input only: each  *)
(* property is a statement about the envelope of that input.               *)
(***************************************************************************)
EXTENDS LimitEnvelope, TLC

CONSTANTS alice, bob, Start

VARIABLE input

\* Account limits: finite stakes, and the unlimited (-1) limits of a
\* system account such as eosio.
FiniteNet   == [a \in Accounts |-> [e \in BOOLEAN |-> IF a = alice THEN 1500 ELSE 900]]
FiniteCpu   == [a \in Accounts |-> [e \in BOOLEAN |-> IF a = alice THEN 20000 ELSE 5000]]
UnlimitedCpu == [a \in Accounts |-> [e \in BOOLEAN |-> IF a = alice THEN -1 ELSE 5000]]

Transactions ==
  { [actions |-> acts, cfActions |-> 0, maxNetUsageWords |-> w,
     maxCpuUsageMS |-> ms, delaySec |-> 0, expired |-> FALSE] :
      acts \in { <<<<alice>>>>, <<<<bob>>>>, <<<<alice, bob>>, <<alice>>>> },
      w    \in {0, 100},
      ms   \in {0, 50} }

Inputs ==
  [trx: Transactions, callerDeadline: {MaxTimePoint, Start + 10000},
   explicitBilled: BOOLEAN]

Init == input \in Inputs
Next == UNCHANGED input

Header == HeaderLimits(input.trx)
Payer  == PayerLimits(input.trx, Header, Start, input.callerDeadline,
                      input.explicitBilled)
Paying == MaxBandwidthBilledAccountsCanPay(Payer.billToAccounts, FALSE)

(***************************************************************************)
(* spec.md 4.1: every clamp of the CPU budget "only tightens, never        *)
(* relaxes": the budget never exceeds the block's CPU limit.  The         *)
(* configured transaction cap is compared in microseconds and assigned in *)
(* milliseconds (init, lines 123-128).                                     *)
(***************************************************************************)
CpuLimitNeverRelaxed == Header.objectiveDurationLimit <= BlockCpuLimit

(***************************************************************************)
(* spec.md 4.1 step 8: when what the payers can pay plus the leeway fits  *)
(* before the deadline, the deadline is lowered to it.  Line 178 converts *)
(* the payers' microsecond budget with Milliseconds.                      *)
(***************************************************************************)
DeadlineWithinPayerBudget ==
  LET budget == Paying.cpu + Leeway
  IN  (~input.explicitBilled /\ input.callerDeadline = MaxTimePoint
       /\ budget <= Header.objectiveDurationLimit)
        => Payer.deadline - Start <= budget

(***************************************************************************)
(* spec.md section 3: the deadline never precedes the start.  A payer with *)
(* unlimited CPU leaves the budget at math.MaxUint64/2, which lines       *)
(* 178-179 scale and add to the start time in int64.                      *)
(***************************************************************************)
DeadlineNotBeforeStart == Payer.deadline >= Start

(***************************************************************************)
(* spec.md section 3: the greylist flags say the binding cap came from    *)
(* greylisting, so they are set only when some payer is greylisted        *)
(* (MaxBandwidthBilledAccountsCanPay, line 485).                          *)
(***************************************************************************)
GreylistFlagOnlyForGreylistedPayer ==
  Payer.cpuLimitDueToGreylist =>
    \E a \in ToSet(Payer.billToAccounts) : a \in Greylisted

(***************************************************************************)
(* spec.md 4.1 step 5: the billed accounts are the deduplicated actors of *)
(* all authorizations (init, lines 154-158).                              *)
(***************************************************************************)
BillToAccountsDeduplicated == IsInjective(Payer.billToAccounts)
=============================================================================
