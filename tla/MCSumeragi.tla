---------------------------- MODULE MCSumeragi ----------------------------
(* Four peers, the smallest topology that tolerates a fault: max_faults = *)
(* 1, min_votes_for_commit = 3; in the genesis topology p1 leads, p2      *)
(* validates, p3 is the proxy tail and p4 observes.                       *)
EXTENDS Sumeragi, TLC

CONSTANTS p1, p2, p3, p4, t1, t2

MCInitialOrder == <<p1, p2, p3, p4>>
MCPeers == {p1, p2, p3, p4}

\* Where clients submit: t1 to every peer; t1 to the leaders of index 0
\* and 1; t1 to a leader and a validating peer; t1 to the leader only.
MCSubmitAll == MCPeers \X {t1}
MCSubmitLeaders == {p1, p2} \X {t1}
MCSubmitNonLeaders == {p2, p3} \X {t1}
MCSubmitLeader == {<<p1, t1>>}

\* The soft-fork scenario: t1 reaches the leaders of index 0 and 1 and the
\* observing peer; t2 reaches the leader of the next height only.
MCSubmitFork == {<<p1, t1>>, <<p2, t1>>, <<p4, t1>>, <<p1, t2>>}

=============================================================================
