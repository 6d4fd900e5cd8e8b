------------------------------ MODULE MockChain ------------------------------
(***************************************************************************)
(* The mock chain of the producer plugin                                   *)
(* (src/plugins/producer_plugin/mork_chain.go): a head block, a pending    *)
(* block and a fork database, driven by the producer's block cycle         *)
(* (StartBlock, PushTransaction, FinalizeBlock, SignBlock, CommitBlock,    *)
(* AbortBlock) and by blocks arriving from the network (PushBlock).        *)
(*                                                                         *)
(* Block states are heap objects shared by pointer: `store` is the heap,   *)
(* a pointer is an index into it and Nil is 0.  head, pending, the fork    *)
(* database's head and its index hold pointers, so a block reached        *)
(* through two of them is one object.  A block id is modelled by what     *)
(* BlockID does, an injective digest of the header: the sequence of the   *)
(* (timestamp, confirmed) pairs from genesis to the block, so that its    *)
(* length is the block number (NumFromID) and dropping the last element   *)
(* gives the previous id.  A nil dereference panics the process: nothing  *)
(* runs after it.                                                         *)
(***************************************************************************)
EXTENDS Integers, Sequences, SequencesExt

CONSTANTS
  GenesisSlot,   \* common.NewBlockTimeStamp(common.Now()) at init
  Slots,         \* block timestamps producers use
  Confirms,      \* confirmed counts in block headers
  MaxBlocks,     \* bound: block states allocated
  MaxTrxs        \* bound: transactions pushed into one block

Nil    == 0
ZeroId == <<>>

\* Header.BlockID(): the digest of a header with this previous id,
\* timestamp and confirmed count.
BlockID(previous, timestamp, confirmed) == Append(previous, <<timestamp, confirmed>>)

\* types.NumFromID.
NumFromID(id) == Len(id)

\* A block id that no block of the chain has: its previous block is unknown.
UnknownId == <<<<GenesisSlot + 1, 0>>, <<GenesisSlot + 1, 0>>>>

VARIABLES
  store,      \* the heap of *types.BlockState
  head,       \* c.head
  pending,    \* c.pending
  forkHead,   \* c.forkDb.head
  index,      \* c.forkDb.index
  stage,      \* the producer's place in its block cycle
  panicked    \* a nil dereference has crashed the process

vars == <<store, head, pending, forkHead, index, stage, panicked>>

Ptr(p) == p \in 1..Len(store)

(***************************************************************************)
(* init() (lines 62-89): the genesis header state becomes the head and is *)
(* added to the fork database.                                            *)
(***************************************************************************)
Init ==
  /\ store = << [id |-> BlockID(ZeroId, GenesisSlot, 0), previous |-> ZeroId,
                 num |-> 1, timestamp |-> GenesisSlot, confirmed |-> 0,
                 signed |-> FALSE, validated |-> FALSE, trxs |-> 0] >>
  /\ head = 1 /\ forkHead = 1 /\ index = <<1>>
  /\ pending = Nil
  /\ stage = "idle"
  /\ panicked = FALSE

\* forkDatabase.find (lines 32-39): the first indexed block with the id.
Find(id) ==
  LET hits == {i \in 1..Len(index) : store[index[i]].id = id}
  IN  IF hits = {} THEN Nil ELSE index[Min(hits)]

\* forkDatabase.findByNum (lines 41-48): the first indexed block with
\* the number.
FindByNum(num) ==
  LET hits == {i \in 1..Len(index) : store[index[i]].num = num}
  IN  IF hits = {} THEN Nil ELSE index[Min(hits)]

\* types.NewBlockState2(prior, when): the next header after prior; the id
\* is not computed until the block is finalized.
NextBlockState(prior, when, confirmed) ==
  [id |-> ZeroId, previous |-> prior.id, num |-> prior.num + 1,
   timestamp |-> when, confirmed |-> confirmed, signed |-> FALSE,
   validated |-> FALSE, trxs |-> 0]

\* Mutant: the digest taken over the block's own (zero) id.
FinalizedFromOwnId(bs) == [bs EXCEPT !.id = BlockID(bs.id, bs.timestamp, bs.confirmed)]

\* add2's new state (lines 56-60, types.NewBlockState3): the pushed
\* block b on top of its previous block prior, untrusted.
Add2State(prior, previous, timestamp, confirmed) ==
  [NextBlockState(prior, timestamp, confirmed)
     EXCEPT !.id = BlockID(previous, timestamp, confirmed),
            !.previous = previous, !.signed = TRUE]

\* FinalizeBlock (lines 136-139) on a block state: its id is computed.
Finalized(bs) == [bs EXCEPT !.id = BlockID(bs.previous, bs.timestamp, bs.confirmed)]

\* AbortBlock (lines 123-128).
AbortBlock ==
  /\ ~panicked
  /\ pending' = Nil
  /\ stage' = "idle"
  /\ UNCHANGED <<store, head, forkHead, index, panicked>>

\* StartBlock (lines 130-135): a new pending block on top of the head.
\* The producer starts a block for a slot after the head's.
StartBlock(when, confirmBlockCount) ==
  /\ ~panicked
  /\ stage = "idle"
  /\ when > store[head].timestamp
  /\ Len(store) < MaxBlocks
  /\ store' = Append(store, NextBlockState(store[head], when, confirmBlockCount))
  /\ pending' = Len(store) + 1
  /\ stage' = "started"
  /\ UNCHANGED <<head, forkHead, index, panicked>>

(***************************************************************************)
(* PushTransaction (lines 160-164) appends to the pending block.  The     *)
(* producer pushes an incoming transaction whenever a pending block       *)
(* exists and queues it otherwise.                                        *)
(***************************************************************************)
PushTransaction ==
  /\ ~panicked
  /\ pending # Nil
  /\ store[pending].trxs < MaxTrxs
  /\ store' = [store EXCEPT ![pending].trxs = @ + 1]
  /\ UNCHANGED <<head, pending, forkHead, index, stage, panicked>>

FinalizeBlock ==
  /\ ~panicked
  /\ stage = "started"
  /\ store' = [store EXCEPT ![pending] = Finalized(@)]
  /\ stage' = "finalized"
  /\ UNCHANGED <<head, pending, forkHead, index, panicked>>

\* SignBlock (lines 141-146): the producer signs the pending header.
SignBlock ==
  /\ ~panicked
  /\ stage = "finalized"
  /\ store' = [store EXCEPT ![pending].signed = TRUE]
  /\ stage' = "signed"
  /\ UNCHANGED <<head, pending, forkHead, index, panicked>>

\* Mutant: the head is read from the fork database before the pending
\* block is added to it.
CommitBlockHeadFirst ==
  /\ ~panicked
  /\ stage = "signed"
  /\ store' = [store EXCEPT ![pending].validated = TRUE]
  /\ index' = Append(index, pending)
  /\ forkHead' = pending
  /\ head' = forkHead
  /\ stage' = "idle"
  /\ UNCHANGED <<pending, panicked>>

\* CommitBlock(true) (lines 148-158): the pending block is validated,
\* added to the fork database and becomes the head.  pending is not
\* cleared (line 157 is commented out).
CommitBlock ==
  /\ ~panicked
  /\ stage = "signed"
  /\ store' = [store EXCEPT ![pending].validated = TRUE]
  /\ index' = Append(index, pending)
  /\ forkHead' = pending
  /\ head' = pending
  /\ stage' = "idle"
  /\ UNCHANGED <<pending, panicked>>

(***************************************************************************)
(* PushBlock (lines 174-180) of a signed block b from the network; the    *)
(* producer aborts its pending block first.  add2 (lines 56-60) looks up  *)
(* the previous block and dereferences it: an unknown one panics.  The    *)
(* new state becomes the fork database's head; MaybeSwitchForks (lines    *)
(* 182-191) applies it when it extends the chain's head: ApplyBlock       *)
(* (lines 193-201) starts and finalizes a copy on top of the head, signs  *)
(* it with b's signature and commits it with CommitBlock(false), which    *)
(* changes nothing.  Otherwise the fork is only reported.                 *)
(***************************************************************************)
\* Mutant: add2 checks for a nil prior and falls back to the fork head.
PushBlockFallback(previous, timestamp, confirmed) ==
  LET prior == IF Find(previous) = Nil THEN forkHead ELSE Find(previous)
      added == Add2State(store[prior], previous, timestamp, confirmed)
      copy  == [Finalized(NextBlockState(store[head], timestamp, confirmed))
                  EXCEPT !.signed = TRUE]
      p     == Len(store) + 1
  IN
  /\ ~panicked
  /\ Len(store) + 2 <= MaxBlocks
  /\ stage' = "idle"
  /\ index' = Append(index, p)
  /\ forkHead' = p
  /\ IF previous = store[head].id
     THEN /\ store' = store \o <<added, copy>>
          /\ pending' = p + 1
     ELSE /\ store' = Append(store, added)
          /\ pending' = Nil
  /\ UNCHANGED <<head, panicked>>

PushBlock(previous, timestamp, confirmed) ==
  LET prior == Find(previous)
      added == Add2State(store[prior], previous, timestamp, confirmed)
      copy  == [Finalized(NextBlockState(store[head], timestamp, confirmed))
                  EXCEPT !.signed = TRUE]
      p     == Len(store) + 1
  IN
  /\ ~panicked
  /\ Len(store) + 2 <= MaxBlocks
  /\ stage' = "idle"
  /\ IF prior = Nil
     THEN /\ panicked' = TRUE
          /\ pending' = Nil
          /\ UNCHANGED <<store, head, forkHead, index>>
     ELSE /\ index' = Append(index, p)
          /\ forkHead' = p
          /\ IF previous = store[head].id
             THEN /\ store' = store \o <<added, copy>>
                  /\ pending' = p + 1
             ELSE /\ store' = Append(store, added)
                  /\ pending' = Nil
          /\ UNCHANGED <<head, panicked>>

Next ==
  \/ AbortBlock
  \/ \E w \in Slots, c \in Confirms : StartBlock(w, c)
  \/ PushTransaction \/ FinalizeBlock \/ SignBlock \/ CommitBlock
  \/ \E prev \in {store[i].id : i \in ToSet(index)} \cup {UnknownId},
        w \in Slots, c \in Confirms : PushBlock(prev, w, c)

Spec == Init /\ [][Next]_vars
=============================================================================
