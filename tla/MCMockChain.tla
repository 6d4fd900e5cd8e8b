---------------------------- MODULE MCMockChain ----------------------------
(***************************************************************************)
(* Model-checking harness for MockChain: the producer's block cycle       *)
(* interleaved with blocks pushed from the network, and the properties    *)
(* checked of it.                                                         *)
(***************************************************************************)
EXTENDS MockChain, TLC

Stages == {"idle", "started", "finalized", "signed"}

TypeOK ==
  /\ Len(store) \in 1..MaxBlocks
  /\ \A i \in 1..Len(store) :
       /\ store[i].trxs \in 0..MaxTrxs
       /\ store[i].timestamp \in Slots \cup {GenesisSlot}
       /\ store[i].confirmed \in Confirms \cup {0}
       /\ store[i].signed \in BOOLEAN /\ store[i].validated \in BOOLEAN
       /\ store[i].num = NumFromID(store[i].previous) + 1
       /\ store[i].id \in {ZeroId, BlockID(store[i].previous, store[i].timestamp,
                                           store[i].confirmed)}
  /\ Ptr(head) /\ Ptr(forkHead) /\ (pending = Nil \/ Ptr(pending))
  /\ \A i \in 1..Len(index) : Ptr(index[i])
  /\ stage \in Stages
  /\ panicked \in BOOLEAN

\* The block of number n on the path from p back to genesis.
RECURSIVE AncestorAt(_, _)
AncestorAt(p, n) ==
  IF store[p].num = n THEN p ELSE AncestorAt(Find(store[p].previous), n)

\* The ids from genesis to the head, found through the fork database.
HeadChain == [n \in 1..store[head].num |-> store[AncestorAt(head, n)].id]

\* The previous id a block id names (the header BlockID digests).
PreviousId(id) == SubSeq(id, 1, Len(id) - 1)

LC == INSTANCE LinearChain WITH
        Genesis <- BlockID(ZeroId, GenesisSlot, 0),
        Parent  <- PreviousId,
        chain   <- HeadChain

(***************************************************************************)
(* The mock chain implements a linear chain: the blocks from genesis to   *)
(* c.head, each reached from its child through forkDb.find, only ever     *)
(* grow by one block whose previous is the old head.  Whatever the        *)
(* network pushes between StartBlock and CommitBlock (forks, duplicates,  *)
(* blocks that extend the head), CommitBlock never moves the head onto    *)
(* another branch, skips a block, or replaces the id of a block already   *)
(* on the chain.  Only ids are compared, not the blocks' transactions.    *)
(***************************************************************************)
ChainRefinement == LC!Spec

(***************************************************************************)
(* The fork database is a tree rooted at genesis: the previous block of   *)
(* every block it holds is in it too.  CommitBlock adds the pending block *)
(* built on the head, and add2 links a pushed block to the block find     *)
(* returns, so this holds only if the head itself is always in the index  *)
(* and nothing is added on an unknown parent.                             *)
(***************************************************************************)
ForkDbRooted ==
  \A i \in 1..Len(index) :
    store[index[i]].previous # ZeroId => Find(store[index[i]].previous) # Nil

(***************************************************************************)
(* Applying a pushed block that extends the head makes it the head: when  *)
(* PushBlock adds a block whose previous is the head, the head's id is    *)
(* that block's id afterwards (MaybeSwitchForks -> ApplyBlock ->          *)
(* CommitBlock(false), lines 185-200).                                    *)
(***************************************************************************)
AppliedBlockBecomesHead ==
  [][(forkHead' # forkHead /\ store'[forkHead'].previous = store[head].id)
       => store'[head'].id = store'[forkHead'].id]_vars

(***************************************************************************)
(* A block in the fork database is never changed: the transactions of a   *)
(* committed block stay as they were when it was committed.  CommitBlock  *)
(* leaves c.pending pointing at the committed head (line 157), and        *)
(* PushTransaction appends to c.pending.                                  *)
(***************************************************************************)
CommittedBlocksImmutable ==
  [][\A i \in 1..Len(index) : store'[index[i]].trxs = store[index[i]].trxs]_vars

(***************************************************************************)
(* The fork database knows each block once: the same block pushed twice   *)
(* (a duplicated network delivery) is not added again (add, lines 50-54). *)
(***************************************************************************)
ForkDbIdsUnique ==
  IsInjective([i \in 1..Len(index) |-> store[index[i]].id])

(***************************************************************************)
(* FetchBlockByNumber (lines 215-221) of a number up to the head's returns *)
(* the block of that number on the head's branch, whatever forks the      *)
(* network pushed before the head was produced.                           *)
(***************************************************************************)
FetchByNumberOnHeadBranch ==
  \A n \in 1..store[head].num : FindByNum(n) = AncestorAt(head, n)

(***************************************************************************)
(* Pushing a block never crashes the node: a block whose previous block   *)
(* is unknown is rejected, not dereferenced (add2, lines 56-58).          *)
(***************************************************************************)
NoPanic == ~panicked
=============================================================================
