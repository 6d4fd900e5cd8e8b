----------------------------- MODULE LinearChain -----------------------------
(***************************************************************************)
(* What a node's chain promises its users: the blocks from genesis to the *)
(* head form one chain that only grows, one block at a time, and each new *)
(* head is a child of the old one.  A block already on the chain is never *)
(* replaced.  Ids are opaque; Parent(id) is the id a block names as its   *)
(* previous block.                                                        *)
(***************************************************************************)
EXTENDS Naturals, Sequences

CONSTANTS
  Genesis,      \* the id of the genesis block
  Parent(_)     \* the previous id a block id commits to

VARIABLE chain  \* the block ids from genesis to the head

Init == chain = <<Genesis>>

\* The head advances onto a child of the current head.
Extend ==
  /\ Len(chain') = Len(chain) + 1
  /\ SubSeq(chain', 1, Len(chain)) = chain
  /\ Parent(chain'[Len(chain')]) = chain[Len(chain)]

Spec == Init /\ [][Extend]_chain
=============================================================================
