--------------------------- MODULE BlockSyncTests ---------------------------
(***************************************************************************)
(* The unit tests of handle_block_sync (main_loop.rs lines 1173-1453),     *)
(* stated of the model's HandleBlockSync.  Each test builds a WSV whose    *)
(* latest block was committed by a single leader, and a block on top of   *)
(* it; it then changes the block (or commits it first) and asserts the     *)
(* outcome.  The tests' topology has one peer, so no quorum is needed.     *)
(* They hold of a one-peer deployment (InitialOrder of length 1), which   *)
(* MCSumeragiCrash instantiates to check them.  Two tests use an empty    *)
(* topology; the paths they take never consult it, and the one peer      *)
(* stands for it.                                                         *)
(***************************************************************************)
EXTENDS Sumeragi, Integers

\* The peer of the tests' topology (PeerId at 127.0.0.1:8080).
TestLeader == InitialOrder[1]

\* commit_topology.clear(): an empty peer list, which is no rotation of
\* the peer set.
Cleared == -1

\* create_data_for_test: the block committed and applied to the WSV, and
\* the next block, chained at view-change index 0 on a clone of the WSV
\* and signed by the leader.
TestGenesis == [height |-> 1, vci |-> 0, txs |-> {}, topo |-> 0, prev |-> EmptyWsv]
TestBlock == [height |-> 2, vci |-> 0, txs |-> Txs, topo |-> 0, prev |-> TestGenesis]
TestSigs == {TestLeader}

\* block_sync_invalid_block: the next block without its commit topology.
BlockSyncInvalidBlock ==
    HandleBlockSync([TestBlock EXCEPT !.topo = Cleared], TestSigs, TestGenesis, TestGenesis)
        = "BlockNotValid"

\* block_sync_invalid_soft_fork_block: the block is committed, then offered
\* again without its commit topology.
BlockSyncInvalidSoftForkBlock ==
    HandleBlockSync([TestBlock EXCEPT !.topo = Cleared], TestSigs, TestBlock, TestGenesis)
        = "SoftForkBlockNotValid"

\* block_sync_not_proper_height: the block claims height 42.
BlockSyncNotProperHeight ==
    HandleBlockSync([TestBlock EXCEPT !.height = 42], TestSigs, TestGenesis, TestGenesis)
        = "BlockNotProperHeight"

\* block_sync_commit_block: the next block is committed.
BlockSyncCommitBlock ==
    HandleBlockSync(TestBlock, TestSigs, TestGenesis, TestGenesis) = "CommitBlock"

\* block_sync_replace_top_block: the block is committed at index 0, then
\* offered at index 42.
BlockSyncReplaceTopBlock ==
    HandleBlockSync([TestBlock EXCEPT !.vci = 42], TestSigs, TestBlock, TestGenesis)
        = "ReplaceTopBlock"

\* block_sync_small_view_change_index: the block is committed at index 42,
\* then offered at index 0.
BlockSyncSmallViewChangeIndex ==
    HandleBlockSync(TestBlock, TestSigs, [TestBlock EXCEPT !.vci = 42], TestGenesis)
        = "SoftForkBlockSmallViewChangeIndex"

\* block_sync_genesis_block_do_not_replace: a block at height 1 and index
\* 42 never replaces the genesis block.
BlockSyncGenesisBlockDoNotReplace ==
    HandleBlockSync([TestBlock EXCEPT !.vci = 42, !.height = 1], TestSigs, TestGenesis, TestGenesis)
        = "BlockNotProperHeight"

HandleBlockSyncTests ==
    /\ BlockSyncInvalidBlock
    /\ BlockSyncInvalidSoftForkBlock
    /\ BlockSyncNotProperHeight
    /\ BlockSyncCommitBlock
    /\ BlockSyncReplaceTopBlock
    /\ BlockSyncSmallViewChangeIndex
    /\ BlockSyncGenesisBlockDoNotReplace

=============================================================================
