-------------------------- MODULE MCSumeragiCrash --------------------------
(* Two deployments of the same module.  Four peers whose leader p1 may    *)
(* crash, with t1 submitted to p2 and p3 only: the voters that expect the *)
(* block must suggest a view change and every live peer must accept it.  *)
(* And the one-peer deployment of the handle_block_sync unit tests, whose *)
(* topology needs no quorum, where the tests are checked as an assumption.*)
(* Both are instances with every constant given here, so that neither     *)
(* deployment's topology is seen by the other.                            *)
CONSTANTS p1, p2, p3, p4, t1, NoBlock, NoMsg

VARIABLES wsv, finalized_wsv, kura, current_topology, transaction_cache,
          public_finalized_wsv, voting_block, voting_signatures,
          view_change_proof_chain, old_view_change_index, old_latest_block_hash,
          queue, expired, network, control, phase

\* One view change (index 0 to 1); reliable channels; blocks of one
\* transaction.
CrashDeployment == INSTANCE Sumeragi
    WITH Peers <- {p1, p2, p3, p4}, InitialOrder <- <<p1, p2, p3, p4>>,
         Txs <- {t1}, Submissions <- {p2, p3} \X {t1}, GenesisPeer <- p1,
         MayShutdown <- {}, MayCrash <- {p1}, MaxTxsInBlock <- 1, MaxView <- 1,
         ExpiringTxs <- {}, LossyControl <- FALSE, LossyNetwork <- FALSE

TestDeployment == INSTANCE BlockSyncTests
    WITH Peers <- {p1}, InitialOrder <- <<p1>>, Txs <- {t1}, Submissions <- {},
         GenesisPeer <- p1, MayShutdown <- {}, MayCrash <- {}, MaxTxsInBlock <- 1,
         MaxView <- 1, ExpiringTxs <- {}, LossyControl <- FALSE, LossyNetwork <- FALSE

ASSUME TestDeployment!HandleBlockSyncTests

FairSpec == CrashDeployment!FairSpec

\* A crashed leader does not stall the live peers: each eventually commits
\* t1 or moves past view 0 (Sumeragi!ViewChangeAccepted).
ViewChangeAccepted == CrashDeployment!ViewChangeAccepted
=============================================================================
