----------------------------- MODULE ProofChain -----------------------------
(***************************************************************************)
(* The view-change proof chain (core/src/sumeragi/view_change.rs, not      *)
(* among the sources: modelled from spec 4.3).  A proof is one peer's      *)
(* signed suspicion "the round on top of block `hash` at view-change index *)
(* `vci` is stuck".  The chain is the set of proofs a peer holds.          *)
(***************************************************************************)
EXTENDS Naturals, FiniteSets

\* The signers of level i of the chain that reference `latest`.
LevelSigners(chain, latest, i) == {pr.signer : pr \in {q \in chain : q.hash = latest /\ q.vci = i}}

\* verify_with_state: the levels 0, 1, ... are counted while each holds at
\* least max_faults + 1 proofs of distinct members referencing the latest
\* block hash; the count is the current view-change index.
RECURSIVE VerifyFrom(_, _, _, _, _)
VerifyFrom(chain, peers, maxFaults, latest, i) ==
    IF Cardinality(LevelSigners(chain, latest, i) \cap peers) >= maxFaults + 1
    THEN VerifyFrom(chain, peers, maxFaults, latest, i + 1)
    ELSE i

VerifyWithState(chain, peers, maxFaults, latest) == VerifyFrom(chain, peers, maxFaults, latest, 0)

\* prune(latest_hash): proofs about an older block are dropped.
Prune(chain, latest) == {pr \in chain : pr.hash = latest}

\* insert_proof / merge: proofs signed by non-members are refused; proofs
\* are deduplicated (a set), proofs for another hash are kept until pruned.
Merge(chain, proofs, peers) == chain \cup {pr \in proofs : pr.signer \in peers}
=============================================================================
