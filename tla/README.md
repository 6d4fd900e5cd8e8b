# TLA+ models of eos-go: transaction context, mock chain, database keys

This directory holds TLA+ models of the Go sources under `src/`, the TLC
configurations that check them, and `PROJECT.json`. That file lists the
components, runs, mutants, the definition-to-source map, the findings and the
hazards.

## Inventory of the system

| Part | Source | State | Operations |
|------|--------|-------|------------|
| Transaction context | `src/chain/transaction_context.go` | limits (`netLimit`, `objectiveDurationLimit`, `eagerNetLimit`, the `*DueTo*` flags), the deadline and its exception code, the billing timer (`pseudoStart`, `billedTime`, `billingTimerDurationLimit`), `netUsage`, `BillToAccounts`, `ValidateRamUsage`, the trace | `NewTransactionContext`, `init`, `InitForImplicitTrx`/`InitForInputTrx`/`InitForDeferredTrx`, `Exec`, `DispathAction`, `scheduleTransaction`, `recordTransaction`, `CheckTime`, `CheckNetUsage`, `AddNetUsage`, `AddRamUsage`, `PauseBillingTimer`, `ResumeBillingTimer`, `UpdateBilledCpuTime`, `validateCpuUsageToBill`, `MaxBandwidthBilledAccountsCanPay`, `Finalize`, `Squash`, `Undo` |
| Mock chain | `src/plugins/producer_plugin/mork_chain.go` | fork database, head, pending block | `StartBlock`, `FinalizeBlock`, `SignBlock`, `CommitBlock`, `AbortBlock`, `PushTransaction`, `PushBlock`, `MaybeSwitchForks`, `ApplyBlock` |
| Database keys | `src/database/keys.go` | none (pure) | `getFieldInfo`, key building, `getNonUniqueEnd` |
| Wasm interface | `src/cvm/exec/wasm_conext_interface.go` | none | declarations only |
| CLI HTTP | `src/cmd/cli/http.go` | none | HTTP and JSON I/O |
| Exceptions | `src/exception/gen_*.go` | none | generated types |

**How the parts interact.** The controller drives a transaction context in a
fixed order:

1. It constructs the context.
2. It sets `Deadline`, `Delay` and any explicit billed CPU time.
3. It calls one of the three init entry points.
4. It calls `Exec`.
5. It calls `Finalize`.
6. It calls `Squash`, or `Undo` if anything raised.

During `Exec`, each action runs in the contract VM, which calls back into the
context through `CheckTime`, `AddNetUsage` and `AddRamUsage`. The controller
may pause and resume the billing timer around work it does not want billed.

The producer plugin drives the mock chain through its block cycle:
StartBlock, then PushTransaction per incoming transaction, then FinalizeBlock,
SignBlock and CommitBlock. Blocks from the network arrive at any point through
PushBlock, which aborts the pending block first. The database builds row keys
and index keys with `keys.go`, and scans `[prefix, getNonUniqueEnd(prefix))`
for a lookup.

**What makes it hard.**
- The billing timer's arithmetic across pauses and resumes.
- Int64/uint64 wrap in the deadline computations.
- The interleaving of clock steps with host calls and timer calls.
- Failures at several points, each followed by `Undo`.

## Modules

- **`LimitEnvelope`** holds the pure part of `init` (lines 104-201) and its
  helpers, written as operators:
  - `HeaderLimits` covers the block, configuration and header clamps.
  - `PayerLimits` covers the payers, eager net limit, leeway deadline and
    caller deadline.
  - `MaxBandwidthBilledAccountsCanPay`, `ValidateCpuUsageToBill` and
    `Elastic` model the functions of the same names.

  Go's `int64`/`uint64` are modelled at `Width` = 30 bits by `Int64` and
  `Uint64`, which wrap exactly as the 64-bit types do. `Milliseconds`
  multiplies by 1000 with `MulMod`, so no TLC integer overflows.
- **`TransactionContext`** has the struct fields as VARIABLES under the code's
  names, plus four more:
  - `now`, the wall clock;
  - `phase`, where the controller is in its calls;
  - `except`, the exception in flight, as its code and the site that raised
    it;
  - `accrued`, a history variable: the time elapsed while the timer ran.

  Each Go method is one action, with its guards and early returns. The actions
  are `InitForImplicitTrx`, `InitForInputTrx`, `InitForDeferredTrx` (all
  through `InitCore`), `ExecStart`, `BeginDispatch`, `EndDispatch`,
  `DispatchFails`, `ExecEnd` (`scheduleTransaction`), `HostAddNetUsage`,
  `HostAddRamUsage`, `CheckTime`, `PauseBillingTimer`, `ResumeBillingTimer`,
  `Finalize`, `Squash`, `Undo` and `Tick`. An action that raises sets
  `except`, and only `Undo` may follow it.
- **`BillingTimer`** is the abstract promise of the billing timer: a pausable
  stopwatch. `MCTransactionContext` maps the context onto it:
  - `clock` is `now`;
  - `running` is `pseudoStart # 0`;
  - `billed` is `now - pseudoStart` while running, and `billedTime` while
    paused.

  The run checks `BT!Spec` as a PROPERTY.
- **`MockChain`** models `mork_chain.go`. Block states are heap objects, so
  `store` is the heap and a pointer is an index into it (Nil is 0). `head`,
  `pending`, `forkHead` (`forkDb.head`) and `index` (`forkDb.index`) hold
  pointers, which keeps their aliasing. A block id is the sequence of
  (timestamp, confirmed) pairs from genesis. This is injective like the
  header digest, its length is the block number, and dropping its last pair
  gives the previous id. The actions are `AbortBlock`, `StartBlock`,
  `PushTransaction`, `FinalizeBlock`, `SignBlock`, `CommitBlock` and
  `PushBlock`. `PushBlock` contains `add2`, `MaybeSwitchForks` and
  `ApplyBlock`, as the code calls them. A nil dereference sets `panicked`,
  and nothing runs after it. `stage` is the producer's place in its cycle.
- **`LinearChain`** is the abstract promise of the chain: a sequence of
  block ids from genesis to the head that only grows, by one child of the
  old head at a time. `MCMockChain` maps the mock chain onto it:
  - `chain` is `HeadChain`, the ids from genesis to `c.head`, each reached
    from its child through `forkDb.find`;
  - `Parent` is the previous id a block id digests.

  `mc_core` checks `LC!Spec` as a PROPERTY.
- **`DatabaseKeys`** models `keys.go` as pure operators over byte sequences:
  `IdKey`, `TypeNameFieldName`, `FieldValueToByte`, `GetFieldValue` and
  `GetNonUniqueEnd`, and `GetFieldInfo`. `GetFieldInfo` sees a Go value as a record
  of what reflection inspects: valid, pointer or not, kind, tags and fields.
  Byte arithmetic wraps at 256. Values are uints below
  256 and bools, RLP-encoded. `KeyLess` (a RECURSIVE byte-wise order),
  `HasPrefix` and `InRange` are the reference definitions the keys are
  checked against. `MCDatabaseKeys` takes every pair of rows as its initial states.
- **`MCLimitEnvelope`**, **`MCTransactionContext`**, **`MCMockChain`** and
  **`MCDatabaseKeys`** are the harnesses. They
  define the accounts, the stakes, the transactions and the properties.

The controller, the resource-limits manager, the database and the VM are not
under `src/`. Only what the context reads from them and writes to them is
modelled:
- the account limits and the greylist are CONSTANTS;
- pending RAM usage is `ramUsage`;
- inserted rows are `db`;
- the usage charged at Finalize is `charged`;
- bumped permission usage is `permissionUsage`.

These are the `spec_modelled` entries of the map.

## Runs

| Run | Checks | Result |
|-----|--------|--------|
| `tc_core` (`MCTransactionContext.cfg`) | `TypeOK`; `BilledCpuIsAccruedTime`: a timed, finalized transaction is billed exactly the time its timer ran; `DeadlineCodeMatchesCap`: a non-caller deadline code means the timer runs and the deadline is the timer budget, no later than the caller's; `BillingTimerRefinement`: pause/resume implement the stopwatch | passes: 263,526 distinct states in about 60 s, and every action fires |
| `env_*` (`MCLimitEnvelope_*.cfg`) | one spec.md statement each about init's envelope | violated (findings) |
| `tc_*` violation runs (`MCTransactionContext_*.cfg`) | one spec.md statement each about the context | violated (findings) |

| `mc_core` (`MCMockChain.cfg`) | `ForkDbRooted`: the fork database is a tree rooted at genesis, so every indexed block's previous block is indexed; `TypeOK`; `ChainRefinement`: the branch from genesis to the head implements `LinearChain`, so whatever the network pushes between StartBlock and CommitBlock, the head only moves onto a child of the old head and no block id on the branch changes (only ids are compared: the transactions of a committed block do change, see `CommittedBlocksImmutable`) | passes: 979,486 distinct states in about 22 s, and every action fires |
| `mc_*` violation runs (`MCMockChain_*.cfg`) | `AppliedBlockBecomesHead`, `CommittedBlocksImmutable` | violated (findings) |
| `keys_core` (`MCDatabaseKeys.cfg`) | `FieldKeysInjective`: no two rows with different type names or values share an index key, despite `_` inside names and values; `QueryKeyPrefixesStoredKey`: a lookup key is a prefix of the index key of every row it names | passes: 202,500 distinct states |
| `keys_id_collision` (`MCDatabaseKeys_IdKeysInjective.cfg`) | `IdKeysInjective`: no two (type name, id) pairs share a row key | violated (finding) |
| `keys_range` (`MCDatabaseKeys_NonUniqueRangeIsPrefix.cfg`) | the scan range `[prefix, getNonUniqueEnd(prefix))` holds exactly the keys with the prefix | violated (finding) |

Each property of a passing run has a mutant, a plausible bug that TLC catches.
The mutants of `tc_core` are:
- Pause with the operands of the billed time swapped;
- Pause that keeps the deadline code;
- Resume that forgets the billed time;
- billing measured from the construction time.

The mutants of the other passing runs are:
- a block id digested over its own zero id (`TypeOK`);
- an add2 that falls back to the fork head when the previous block is unknown, the naive fix of the nil dereference (`ForkDbRooted`);
- CommitBlock reading the fork head before adding the block (`ChainRefinement`);
- index keys that drop the last value (`FieldKeysInjective`);
- lookup values without separators (`QueryKeyPrefixesStoredKey`).

**Findings.** Each is a violation that TLC finds with a short trace. See
`PROJECT.json` for the full text.
- Line 125: the configured CPU cap is taken ×1000.
- Line 179: an unlimited payer makes the deadline overflow below the start.
- Line 279: RAM is verified for indices instead of accounts.
- Lines 398-401: a pause makes CheckTime report a caller-deadline miss early.
- Line 96: the undo session is never started, so Undo keeps the writes.
- `mork_chain.go:200`: `ApplyBlock` commits with `CommitBlock(false)`, so a
  pushed block that extends the head never becomes the head.
- `mork_chain.go:157`: `c.pending` still points at the committed head, so a
  later `PushTransaction` changes a committed block.
- `keys.go:80`: `getNonUniqueEnd` wraps 0xFF to 0x00, so a lookup for a
  value whose encoding ends in 0xFF (uint 255) scans an empty range.
- `keys.go:8-15`: `idKey` does not escape `_`, so the type `A_` with id `C`
  and the type `A` with id `_C` share the key `A___C`. Go type names may
  contain `_` (`dummy_action` in `src/wasmgo/env_api_test.go`).

**Further violations.** The list of runs holds the deeper findings. These
properties are also stated, and TLC finds each one violated under its own
cfg:
- `DeadlineWithinPayerBudget`: the payer budget is ×1000 at line 178.
- `GreylistFlagOnlyForGreylistedPayer`: operator precedence inverts
  greylisting (line 485).
- `BillToAccountsDeduplicated`: billed accounts are not deduplicated
  (lines 154-158).
- `NetUsageWithinLimit`: `CheckNetUsage` never raises (line 329). It is
  modelled by what it does, as `NetUsageException`, at each of its three
  call sites.
- `EagerNetWordAligned`: Finalize leaves the eager net limit unaligned
  (line 299).
- `ExpiredInputRejected`: the input checks run only when checks are
  skipped (line 225).
- `ForkDbIdsUnique`: `add` indexes a block delivered twice twice.
- `FetchByNumberOnHeadBranch`: `findByNum` returns an earlier fork block
  instead of the head branch's block.
- `NoPanic`: a block that arrives before its parent makes `add2`
  dereference nil (`mork_chain.go:58`).

## Bounds and why they are enough

- **Accounts.** There are two, alice and bob, with different stakes. This is
  enough for duplicates, a minimum over payers, and a first authorizer who
  differs from the others.
- **Transactions.** There are two: bob's, with a context-free action, and
  alice's, with a 10 ms header cap and a 1 s delay. Together they cover the
  cf/std dispatch paths, the delayed-scheduling path and the header clamp.
- **Clock.** The start is 300,000,000 µs, a realistic wall clock, so
  `now - 0` after a pause is far above every budget, as it is in the code.
  Ticks are 5 ms, up to 25 ms. That lets the clock pass the 8 ms leeway
  deadline, the 12 ms caller deadline and bob's 5 ms stake.
- **Host calls.** At most 2 per transaction. That is enough for two RAM
  increases, so the sentinel-then-append path runs, and for net growth past
  the limit.
- **Width.** 30 bits keeps every value of the runs exact, while an unlimited
  payer still wraps, as at 64 bits.

- **Mock chain.** There are at most 6 block states and 2 slots. That is
  enough for a produced block, a pushed block that extends the head (it
  allocates two states: the added one and the applied copy), a fork beside
  it, a duplicate, and an unlinkable block, two of them in one behaviour. Every message is delivered,
  duplicated or reordered, because `PushBlock` takes any known or unknown
  previous id. There is 1 transaction per block, which is enough to touch a
  committed block.
- **Keys.** The value bytes are 0, 1, 95 (`_`), 128 and 255. These are the
  RLP boundaries, the separator byte, and the wrap of the end byte. The type
  names are `A`, `AB` and `A_`: one is a prefix of the others and one ends in
  `_`. The ids are `C`, `BC` and `_C`, one starting with `_`. That is the
  smallest input on which a shifted separator can collide.

No symmetry is used: alice and bob have different stakes.

## Fairness

No fairness is assumed, and no liveness property is checked. In
`TransactionContext`, every step the controller takes (init, Exec,
Finalize, Squash, Undo) is a straight chain of calls. "Every transaction
ends" would then follow from fairness on those steps alone, whatever the
code does. `tc_core` sets `CHECK_DEADLOCK FALSE`, because every behaviour
stops at squashed or undone, and those are final states.

The mock chain has no progress obligation either. The producer's timer and
the network drive it from outside. `mc_core` stops when its block bound is
reached (`CHECK_DEADLOCK FALSE`).

## Not modelled

- What `keys.go` calls outside `src/`: `cloneByte`, which copies;
  `extractObjectTagInfo`, whose result `GetFieldInfo` takes as given; and
  `rlp` and `isZero`, which are modelled only for uints below 256 and bools.
- The mock chain's getters, `FetchBlockById`, and the no-op
  `PushReceipt`, `PushScheduledTransaction` and `DropUnappliedTransaction`.
  None of them changes state.
- The size of a deferred transaction's RAM, taken as 0 as in the code (line
  540).
- The HTTP client, which is I/O.
- The generated exceptions.
- The wasm interface, which has no behaviour.
