------------------------------ MODULE Topology ------------------------------
(***************************************************************************)
(* The peer topology of one consensus round (core/src/sumeragi/network_   *)
(* topology.rs, which is not among the sources: modelled from spec 4.1).   *)
(* A topology is an ordering of the peer set; roles are positional.        *)
(* Layout: index 1 is the Leader, the first MinVotes peers are the voting  *)
(* peers and the last of them is the ProxyTail; the remaining peers        *)
(* observe.  This is the layout main_loop.rs relies on when it sends       *)
(* BlockCommitted to "ordered_peers.take(min_votes_for_commit)" in release *)
(* builds and to "voting_peers()" in debug builds (main_loop.rs 695-712).  *)
(*                                                                         *)
(* The peer set is fixed, the genesis topology is InitialOrder, and every  *)
(* later topology is a commit topology rotated by recreate_topology, so    *)
(* every topology is InitialOrder rotated k times: it is kept as k.  The   *)
(* operators on k are checked against the sequence definitions below.      *)
(***************************************************************************)
EXTENDS Naturals, Sequences, FiniteSets

LOCAL INSTANCE Functions

CONSTANT InitialOrder   \* the genesis topology: a sequence of distinct peers

N == Len(InitialOrder)

\* max_faults = (N - 1) / 3
MaxFaults == (N - 1) \div 3

\* min_votes_for_commit = N - max_faults
MinVotes == N - MaxFaults

\* is_consensus_required: more than one peer.
IsConsensusRequired == N > 1

\* Offsets 0..N-1 name the topologies.
Offsets == 0..(N - 1)

\* recreate_topology(last_block, view_change_index, peers): the commit
\* topology of the last block, rotated once per view change.
Recreate(k, vci) == (k + vci) % N

\* The peers, and the position of each in the genesis order.
Members == Range(InitialOrder)
GenesisIndex == [p \in Members |-> CHOOSE i \in 1..N : InitialOrder[i] = p]

\* Position of p in the topology k.
Index(k, p) == ((GenesisIndex[p] - 1 - k) % N) + 1

\* role(peer)
Role(k, p) ==
    LET i == Index(k, p)
    IN CASE i = 1        -> "Leader"
         [] i = MinVotes -> "ProxyTail"
         [] i < MinVotes -> "ValidatingPeer"
         [] OTHER        -> "ObservingPeer"

Leader(k) == InitialOrder[((k) % N) + 1]

ProxyTail(k) == InitialOrder[((k + MinVotes - 1) % N) + 1]

\* voting_peers: the first MinVotes peers.
VotingPeers(k) == {InitialOrder[((k + i - 1) % N) + 1] : i \in 1..MinVotes}

\* filter_signatures_by_roles: the signers whose role is allowed.
FilterSignaturesByRoles(k, roles, signers) == {s \in signers : Role(k, s) \in roles}

\* ValidBlock::commit quorum check: no check when a single peer runs alone,
\* otherwise at least min_votes_for_commit signatures of members.
HasQuorum(signers) ==
    \/ ~IsConsensusRequired
    \/ Cardinality(signers \cap Members) >= MinVotes

-----------------------------------------------------------------------------
(* Reference definitions on sequences (spec 4.1) *)

\* rotate_all: the first peer moves to the back, k times.
RECURSIVE RotateAll(_, _)
RotateAll(t, k) == IF k = 0 THEN t ELSE RotateAll(Append(Tail(t), Head(t)), k - 1)

SeqRole(t, p) ==
    CASE p = t[1]                                   -> "Leader"
      [] p = t[MinVotes]                            -> "ProxyTail"
      [] p \in {t[i] : i \in 2..(MinVotes - 1)}     -> "ValidatingPeer"
      [] p \in {t[i] : i \in (MinVotes + 1)..N}     -> "ObservingPeer"
      [] OTHER                                      -> "Undefined"

\* The offset operators agree with the sequence ones on every topology.
TopologyAgrees ==
    \A k \in Offsets :
        /\ \A v \in 0..N : RotateAll(RotateAll(InitialOrder, k), v) = RotateAll(InitialOrder, Recreate(k, v))
        /\ \A p \in Members : Role(k, p) = SeqRole(RotateAll(InitialOrder, k), p)
        /\ Leader(k) = RotateAll(InitialOrder, k)[1]
        /\ ProxyTail(k) = RotateAll(InitialOrder, k)[MinVotes]
        /\ VotingPeers(k) = {RotateAll(InitialOrder, k)[i] : i \in 1..MinVotes}

ASSUME TopologyAgrees
=============================================================================
