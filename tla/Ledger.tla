------------------------------- MODULE Ledger -------------------------------
(***************************************************************************)
(* What the consensus loop promises each peer's block store: the latest    *)
(* block only ever moves forward by one committed block on top of it, or   *)
(* (soft fork) is replaced by a block of the same height and parent with a *)
(* higher view-change index; the published finalized WSV only grows, and  *)
(* is always on the peer's own chain.                                      *)
(*                                                                         *)
(* Blocks are records with fields height, vci and prev (see Sumeragi).     *)
(* The steps relate the old tip to the new one, so the specification is    *)
(* checked as a property of a detailed specification that supplies them.  *)
(***************************************************************************)
EXTENDS Naturals

CONSTANTS Peers, Genesis, EmptyWsv

VARIABLES tip, published

\* a is b or a block below it on b's chain.
RECURSIVE OnChain(_, _)
OnChain(a, b) == a = b \/ (b.height > a.height /\ OnChain(a, b.prev))

\* A peer starts with genesis committed, or with the empty WSV.
Init ==
    /\ tip \in [Peers -> {EmptyWsv, Genesis}]
    /\ published = [p \in Peers |-> EmptyWsv]

\* A new block is committed on top of the latest one.
Extend(p) ==
    /\ tip'[p].prev = tip[p]
    /\ tip'[p].height = tip[p].height + 1

\* The latest block is replaced by a sibling of higher view-change index;
\* the genesis block is never replaced.
ReplaceTop(p) ==
    /\ tip[p].height > 1
    /\ tip'[p].prev = tip[p].prev
    /\ tip'[p].height = tip[p].height
    /\ tip'[p].vci > tip[p].vci

\* The published finalized WSV is unchanged, or replaced by a taller block
\* of the peer's new chain.
Publish(p) ==
    \/ published'[p] = published[p]
    \/ /\ published'[p].height > published[p].height
       /\ OnChain(published'[p], tip'[p])

\* One peer's store changes at a time.
Step(p) ==
    /\ Extend(p) \/ ReplaceTop(p)
    /\ Publish(p)
    /\ \A q \in Peers \ {p} : tip'[q] = tip[q] /\ published'[q] = published[q]

Next == \E p \in Peers : Step(p)

Spec == Init /\ [][Next]_<<tip, published>>
=============================================================================
