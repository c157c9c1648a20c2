------------------------------ MODULE Sumeragi ------------------------------
(***************************************************************************)
(* The Sumeragi consensus main loop (core/src/sumeragi/main_loop.rs), run  *)
(* by every peer of a fixed peer set.  One step of a peer is one iteration *)
(* of the `while` loop of `run` (lines 844-974): the loop is single-       *)
(* threaded and talks to other peers only through messages, so an         *)
(* iteration is atomic with respect to them.  The iteration is written as  *)
(* a composition of operators on the peer's local state, one per function  *)
(* of the code, in the order the code calls them.                          *)
(*                                                                         *)
(* Data abstraction: a block is a record of its height, view-change index, *)
(* transactions, commit topology and previous block (its hash is the       *)
(* record itself); a WSV is the block at its tip; a signature is its       *)
(* signer.  Time is abstracted to the two deadline tests of the loop,      *)
(* which are nondeterministic except right after the timer was reset.     *)
(***************************************************************************)
EXTENDS Naturals, Sequences, FiniteSets, Topology, ProofChain

LOCAL INSTANCE Functions

CONSTANTS
    Peers,          \* the peers (model values)
    Txs,            \* transactions clients may submit (model values)
    Submissions,    \* the <<peer, transaction>> pairs clients submit
    GenesisPeer,    \* the peer `run` is given a genesis_network
    MayShutdown,    \* the peers whose shutdown signal may be sent
    MayCrash,       \* the peers whose process may crash (stop for good)
    MaxTxsInBlock,  \* max_txs_in_block
    MaxView,        \* bound: no peer suggests a view change at this index
    ExpiringTxs,    \* the transactions whose time-to-live may run out
    LossyControl,   \* whether control-flow messages may be lost
    LossyNetwork,   \* whether block messages may be lost
    NoBlock,        \* model value: Option::None for blocks and hashes
    NoMsg           \* model value: no block message received this iteration

ASSUME /\ Range(InitialOrder) = Peers
       /\ Len(InitialOrder) = Cardinality(Peers)
       /\ MaxTxsInBlock \in Nat \ {0}
       /\ MaxView \in Nat
       /\ ExpiringTxs \subseteq Txs
       /\ Submissions \subseteq Peers \X Txs
       /\ GenesisPeer \in Peers
       /\ MayShutdown \subseteq Peers
       /\ MayCrash \subseteq Peers
       /\ LossyControl \in BOOLEAN
       /\ LossyNetwork \in BOOLEAN

VARIABLES
    \* fields of struct Sumeragi, per peer
    wsv,                      \* tip block of the internal WSV
    finalized_wsv,            \* tip block of the WSV kept one block behind
    kura,                     \* blocks stored by Kura: <<[block, sigs]>>
    current_topology,
    transaction_cache,
    public_finalized_wsv,     \* tip of the finalized WSV published to readers
    \* locals of `run`, per peer
    voting_block,             \* NoBlock or [block, sigs]
    voting_signatures,        \* buffered [signer, hash] signatures
    view_change_proof_chain,
    old_view_change_index,
    old_latest_block_hash,
    \* collaborators
    queue,                    \* per peer: transactions in the queue
    expired,                  \* transactions the queue reports expired
    network,                  \* block messages in flight
    control,                  \* per peer: proofs of control messages in flight
    \* where `run` is, per peer: "genesis" (about to commit genesis),
    \* "listen" (init_listen_for_genesis), "loop" (the while loop),
    \* "stopped" (returned), "panicked" or "crashed"
    phase

vars == <<wsv, finalized_wsv, kura, current_topology, transaction_cache,
          public_finalized_wsv, voting_block, voting_signatures,
          view_change_proof_chain, old_view_change_index,
          old_latest_block_hash, queue, expired, network, control, phase>>


-----------------------------------------------------------------------------
(* Blocks *)

\* The WSV before genesis (height 0, no latest block).
EmptyWsv == [height |-> 0, vci |-> 0, txs |-> {}, topo |-> 0, prev |-> NoBlock]

\* The genesis block, committed by every peer before the loop starts.
Genesis == [height |-> 1, vci |-> 0, txs |-> {}, topo |-> 0, prev |-> EmptyWsv]

\* wsv.has_transaction: the transactions of the chain ending in b.
RECURSIVE Committed(_)
Committed(b) == IF b.height = 0 THEN {} ELSE b.txs \cup Committed(b.prev)

\* a is b or a block below it on b's chain.
RECURSIVE IsAncestor(_, _)
IsAncestor(a, b) == a = b \/ (b.height > a.height /\ IsAncestor(a, b.prev))

\* ValidBlock::validate against a clone of the WSV whose tip is `tip`:
\* height continuity, previous-hash linkage, commit topology consistency.
ValidateBlock(b, topology, tip) ==
    /\ b.height = tip.height + 1
    /\ b.prev = tip
    /\ b.topo = topology

-----------------------------------------------------------------------------
(* The local state of one peer during an iteration *)

Local(p) ==
    [peer_id |-> p, wsv |-> wsv[p], finalized_wsv |-> finalized_wsv[p],
     kura |-> kura[p], current_topology |-> current_topology[p],
     transaction_cache |-> transaction_cache[p],
     public_finalized_wsv |-> public_finalized_wsv[p],
     voting_block |-> voting_block[p], voting_signatures |-> voting_signatures[p],
     proofs |-> view_change_proof_chain[p],
     old_vci |-> old_view_change_index[p], old_hash |-> old_latest_block_hash[p],
     round_restarted |-> FALSE, view_change_restarted |-> FALSE,
     sent |-> {}, broadcast |-> {}]

\* post_packet_to / broadcast_packet_to: never to oneself.
PostTo(L, kind, b, sigs, peers) ==
    [L EXCEPT !.sent = @ \cup {[kind |-> kind, to |-> q, block |-> b, sigs |-> sigs] :
                                q \in peers \ {L.peer_id}}]

\* Faulty variants of update_state: finalized_wsv not moved up to the old
\* wsv for a new block; Kura appended to for a top-block replacement too.
UpdateStateNoSwap(L, b, sigs, strategy) ==
    LET entry == [block |-> b, sigs |-> sigs]
    IN [L EXCEPT
          !.wsv = b,
          !.kura = IF strategy = "NewBlock" THEN Append(@, entry)
                   ELSE [@ EXCEPT ![Len(@)] = entry],
          !.public_finalized_wsv = IF @.height < L.finalized_wsv.height THEN L.finalized_wsv ELSE @,
          !.current_topology = b.topo,
          !.transaction_cache = @ \ (Committed(b) \cup expired)]

UpdateStateAlwaysAppend(L, b, sigs, strategy) ==
    LET fin == IF strategy = "NewBlock" THEN L.wsv ELSE L.finalized_wsv
    IN [L EXCEPT
          !.finalized_wsv = fin,
          !.wsv = b,
          !.kura = Append(@, [block |-> b, sigs |-> sigs]),
          !.public_finalized_wsv = IF @.height < fin.height THEN fin ELSE @,
          !.current_topology = b.topo,
          !.transaction_cache = @ \ (Committed(b) \cup expired)]

\* Faulty variant of before_update_hook: the replacement strategy swaps
\* too, as the new-block one does.
BeforeUpdateHookAlwaysSwap(strategy, wsvTip, finalizedTip) == wsvTip

\* ApplyBlockStrategy (lines 1036-1082).  before_update_hook: the
\* NewBlockStrategy keeps the current WSV as the finalized one (mem::swap;
\* the wsv it leaves is overwritten), the ReplaceTopBlockStrategy leaves
\* it, since its caller built the new WSV on the finalized one.
BeforeUpdateHook(strategy, wsvTip, finalizedTip) ==
    IF strategy = "NewBlock" THEN wsvTip ELSE finalizedTip

\* kura_store_block: store_block appends, replace_top_block overwrites the
\* top block.
KuraStoreBlock(strategy, store, entry) ==
    IF strategy = "NewBlock" THEN Append(store, entry)
    ELSE [store EXCEPT ![Len(store)] = entry]

\* update_state::<Strategy> followed by cache_transaction (lines 322-404):
\* the hook, the block applied, stored in Kura, the topology recreated
\* from it; the public finalized WSV is replaced only by a strictly
\* taller one.
UpdateState(L, b, sigs, strategy) ==
    LET fin == BeforeUpdateHook(strategy, L.wsv, L.finalized_wsv)
    IN [L EXCEPT
          !.finalized_wsv = fin,
          !.wsv = b,
          !.kura = KuraStoreBlock(strategy, @, [block |-> b, sigs |-> sigs]),
          !.public_finalized_wsv = IF @.height < fin.height THEN fin ELSE @,
          !.current_topology = b.topo,
          !.transaction_cache = @ \ (Committed(b) \cup expired)]

\* Faulty variant of handle_block_sync: the soft-fork comparison of view
\* change indices written the wrong way round.
HandleBlockSyncSwapped(b, sigs, tip, fin) ==
    IF tip.height + 1 = b.height
    THEN IF ValidateBlock(b, Recreate(tip.topo, b.vci), tip) /\ HasQuorum(sigs)
         THEN "CommitBlock" ELSE "BlockNotValid"
    ELSE IF tip.height = b.height /\ b.height > 1
    THEN CASE ~(ValidateBlock(b, Recreate(fin.topo, b.vci), fin) /\ HasQuorum(sigs))
                   -> "SoftForkBlockNotValid"
           [] b.vci < tip.vci -> "ReplaceTopBlock"
           [] OTHER -> "SoftForkBlockSmallViewChangeIndex"
    ELSE "BlockNotProperHeight"

\* handle_block_sync (lines 1101-1172): the outcome for block b carrying
\* signatures sigs, given the peer's wsv and finalized_wsv tips.
HandleBlockSync(b, sigs, tip, fin) ==
    IF tip.height + 1 = b.height
    THEN LET topology == Recreate(tip.topo, b.vci)
         IN IF ValidateBlock(b, topology, tip) /\ HasQuorum(sigs)
            THEN "CommitBlock" ELSE "BlockNotValid"
    ELSE IF tip.height = b.height /\ b.height > 1
    THEN LET topology == Recreate(fin.topo, b.vci)
         IN CASE ~(ValidateBlock(b, topology, fin) /\ HasQuorum(sigs))
                     -> "SoftForkBlockNotValid"
              [] tip.vci < b.vci -> "ReplaceTopBlock"
              [] OTHER -> "SoftForkBlockSmallViewChangeIndex"
    ELSE "BlockNotProperHeight"

\* prune_view_change_proofs_and_calculate_current_index (lines 430-440).
PruneProofs(L) == [L EXCEPT !.proofs = Prune(@, L.wsv)]

CurrentIndex(L) ==
    VerifyWithState(L.proofs, Peers,
                    MaxFaults, L.wsv)

\* Faulty variant of reset_state: the voting block survives a new round.
ResetStateKeepsVote(L, vci) ==
    LET newBlock == L.wsv # L.old_hash
        oldVci == IF newBlock THEN 0 ELSE L.old_vci
        rotate == oldVci < vci
    IN IF newBlock \/ rotate
       THEN [L EXCEPT !.old_hash = L.wsv,
                      !.old_vci = IF rotate THEN vci ELSE oldVci,
                      !.current_topology = Recreate(L.wsv.topo, vci),
                      !.voting_signatures = {},
                      !.round_restarted = @ \/ newBlock,
                      !.view_change_restarted = TRUE]
       ELSE L

\* reset_state (lines 731-778): a new latest block restarts the round and
\* zeroes the remembered index; a new block or a higher index recreates
\* the topology and drops the voting block and the buffered signatures.
ResetState(L, vci) ==
    LET newBlock == L.wsv # L.old_hash
        oldVci == IF newBlock THEN 0 ELSE L.old_vci
        rotate == oldVci < vci
    IN IF newBlock \/ rotate
       THEN [L EXCEPT !.old_hash = L.wsv,
                      !.old_vci = IF rotate THEN vci ELSE oldVci,
                      !.current_topology = Recreate(L.wsv.topo, vci),
                      !.voting_block = NoBlock,
                      !.voting_signatures = {},
                      !.round_restarted = @ \/ newBlock,
                      !.view_change_restarted = TRUE]
       ELSE L

-----------------------------------------------------------------------------
(* handle_message (lines 443-617) *)

\* vote_for_block (lines 406-428): validate against `topology`, then sign.
VoteForBlock(L, topology, m) ==
    IF ValidateBlock(m.block, topology, L.wsv)
    THEN [block |-> m.block, sigs |-> m.sigs \cup {L.peer_id}]
    ELSE NoBlock

\* BlockSyncUpdate, any role (lines 456-507).
OnBlockSyncUpdate(L, m) ==
    LET outcome == HandleBlockSync(m.block, m.sigs, L.wsv, L.finalized_wsv)
    IN CASE outcome = "CommitBlock"     -> UpdateState(L, m.block, m.sigs, "NewBlock")
         [] outcome = "ReplaceTopBlock" -> UpdateState(L, m.block, m.sigs, "ReplaceTopBlock")
         [] OTHER                       -> L

\* BlockCommitted to a member (lines 508-543): the voting block is taken;
\* on a hash mismatch it is put back, on too few signatures it is lost.
OnBlockCommitted(L, m, role) ==
    LET t == L.current_topology
        vb == L.voting_block
    IN CASE \/ role = "ProxyTail" /\ IsConsensusRequired
            \/ role = "Leader" /\ ~IsConsensusRequired -> L
         [] vb = NoBlock -> L
         [] m.block # vb.block -> L
         [] HasQuorum(vb.sigs \cup m.sigs) ->
               UpdateState([L EXCEPT !.voting_block = NoBlock], vb.block,
                           vb.sigs \cup m.sigs, "NewBlock")
         [] OTHER -> [L EXCEPT !.voting_block = NoBlock]

\* BlockCreated to a ValidatingPeer (lines 544-559), or to an ObservingPeer
\* once the view-change index is at least 1 (lines 560-579): vote, send
\* BlockSigned to the proxy tail, remember the voting block.
OnBlockCreatedVoter(L, m, vci, role) ==
    LET vb == VoteForBlock(L, L.current_topology, m)
    IN IF vb = NoBlock \/ (role = "ObservingPeer" /\ vci < 1)
       THEN L
       ELSE [PostTo(L, "BlockSigned", vb.block, vb.sigs, {ProxyTail(L.current_topology)})
               EXCEPT !.voting_block = vb]

\* BlockCreated to the ProxyTail (lines 580-587): vote, then add the
\* buffered signatures that are valid for this block and drain the buffer.
OnBlockCreatedProxyTail(L, m) ==
    LET vb == VoteForBlock(L, L.current_topology, m)
        buffered == {s.signer : s \in {x \in L.voting_signatures : x.hash = m.block}}
    IN IF vb = NoBlock THEN L
       ELSE [L EXCEPT !.voting_block = [vb EXCEPT !.sigs = @ \cup buffered],
                      !.voting_signatures = {}]

\* BlockSigned to the ProxyTail (lines 588-612): keep the signatures of
\* validating peers (and of observing peers once the index is at least 1);
\* add them to the voting block of the same hash, or buffer them.
OnBlockSigned(L, m, vci) ==
    LET roles == IF vci >= 1 THEN {"ValidatingPeer", "ObservingPeer"} ELSE {"ValidatingPeer"}
        valid == FilterSignaturesByRoles(L.current_topology, roles, m.sigs)
        vb == L.voting_block
    IN CASE vb # NoBlock /\ m.block = vb.block ->
               [L EXCEPT !.voting_block.sigs = @ \cup valid]
         [] vb # NoBlock -> L
         [] OTHER ->
               [L EXCEPT !.voting_signatures = @ \cup {[signer |-> s, hash |-> m.block] : s \in valid}]

HandleMessage(L, m, vci) ==
    LET role == Role(L.current_topology, L.peer_id)
    IN CASE m.kind = "BlockSyncUpdate" -> OnBlockSyncUpdate(L, m)
         [] m.kind = "BlockCommitted" /\ role # "Undefined" -> OnBlockCommitted(L, m, role)
         [] m.kind = "BlockCreated" /\ role \in {"ValidatingPeer", "ObservingPeer"} ->
               OnBlockCreatedVoter(L, m, vci, role)
         [] m.kind = "BlockCreated" /\ role = "ProxyTail" -> OnBlockCreatedProxyTail(L, m)
         [] m.kind = "BlockSigned" /\ role = "ProxyTail" -> OnBlockSigned(L, m, vci)
         [] OTHER -> L

-----------------------------------------------------------------------------
(* The rest of the loop body *)

\* Lines 853-870: the cache keeps only the transactions the queue reports
\* expired; then get_transactions_for_block adds `pulled`.
RetainCache(L, pulled) ==
    [L EXCEPT !.transaction_cache = (@ \cap expired) \cup pulled]

\* receive_network_packet (lines 148-223): every control message merges
\* its proofs into the chain; at most one block message is returned.
MergeControl(L, proofs) ==
    [L EXCEPT !.proofs = Merge(@, proofs, Peers)]

\* The condition of line 913 apart from the deadline.
ViewChangeDue(L, vci) == L.transaction_cache # {} \/ vci > 0

\* Faulty variant of the suggestion: the own proof names the next index.
SuggestViewChangeNextIndex(L, vci, deadline) ==
    LET expectsBlock == L.transaction_cache # {}
        own == [signer |-> L.peer_id, hash |-> L.wsv, vci |-> vci + 1]
        chain == IF expectsBlock THEN Merge(L.proofs, {own}, Peers) ELSE L.proofs
    IN IF (expectsBlock \/ vci > 0) /\ deadline
       THEN [L EXCEPT !.proofs = chain, !.broadcast = chain]
       ELSE L

\* Faulty variant of the suggestion: the peer signs but never broadcasts.
SuggestViewChangeNoBroadcast(L, vci, deadline) ==
    LET expectsBlock == L.transaction_cache # {}
        own == [signer |-> L.peer_id, hash |-> L.wsv, vci |-> vci]
        chain == IF expectsBlock THEN Merge(L.proofs, {own}, Peers) ELSE L.proofs
    IN IF (expectsBlock \/ vci > 0) /\ deadline
       THEN [L EXCEPT !.proofs = chain]
       ELSE L

\* Lines 911-948: past the view-change deadline, a peer that expects a
\* block signs a suspicion of the current round, and any peer with a
\* pending view change broadcasts its proof chain.
SuggestViewChange(L, vci, deadline) ==
    LET expectsBlock == L.transaction_cache # {}
        own == [signer |-> L.peer_id, hash |-> L.wsv, vci |-> vci]
        chain == IF expectsBlock
                 THEN Merge(L.proofs, {own}, Peers)
                 ELSE L.proofs
    IN IF (expectsBlock \/ vci > 0) /\ deadline
       THEN [L EXCEPT !.proofs = chain, !.broadcast = chain]
       ELSE L

\* Faulty variant of the leader's step: only a full cache makes a block.
LeaderStepNoDeadline(L, vci, deadline) ==
    LET b == [height |-> L.wsv.height + 1, vci |-> vci, txs |-> L.transaction_cache,
              topo |-> L.current_topology, prev |-> L.wsv]
        receivers == IF vci >= 1 THEN Peers ELSE VotingPeers(L.current_topology)
    IN CASE L.voting_block # NoBlock -> L
         [] ~(Cardinality(L.transaction_cache) >= MaxTxsInBlock) -> L
         [] IsConsensusRequired ->
               [PostTo(L, "BlockCreated", b, {L.peer_id}, receivers)
                  EXCEPT !.voting_block = [block |-> b, sigs |-> {L.peer_id}]]
         [] OTHER ->
               UpdateState(PostTo(L, "BlockCommitted", b, {L.peer_id}, Peers),
                           b, {L.peer_id}, "NewBlock")

\* process_message_independent, Leader (lines 632-676): with no voting
\* block, a full cache or a non-empty one past the block deadline makes a
\* block; it is sent for voting, or committed at once by a lone peer.
LeaderStep(L, vci, deadline) ==
    LET t == L.current_topology
        cache == L.transaction_cache
        b == [height |-> L.wsv.height + 1, vci |-> vci, txs |-> cache,
              topo |-> L.current_topology, prev |-> L.wsv]
        receivers == IF vci >= 1 THEN Peers ELSE VotingPeers(t)
    IN CASE L.voting_block # NoBlock -> L
         [] ~(Cardinality(cache) >= MaxTxsInBlock \/ (deadline /\ cache # {})) -> L
         [] IsConsensusRequired ->
               [PostTo(L, "BlockCreated", b, {L.peer_id}, receivers)
                  EXCEPT !.voting_block = [block |-> b, sigs |-> {L.peer_id}]]
         [] OTHER ->
               UpdateState(PostTo(L, "BlockCommitted", b, {L.peer_id}, Peers),
                           b, {L.peer_id}, "NewBlock")

\* process_message_independent, ProxyTail (lines 677-724): a voting block
\* with a quorum of signatures is committed and BlockCommitted sent.
ProxyTailStep(L, vci) ==
    LET t == L.current_topology
        vb == L.voting_block
        receivers == IF vci >= 1 THEN Peers ELSE VotingPeers(t)
    IN IF vb # NoBlock /\ HasQuorum(vb.sigs)
       THEN UpdateState([PostTo(L, "BlockCommitted", vb.block, vb.sigs, receivers)
                           EXCEPT !.voting_block = NoBlock], vb.block, vb.sigs, "NewBlock")
       ELSE L

\* The block deadline decides the leader's step: no voting block, and a
\* cache that is non-empty but not full (line 641).
BlockDeadlineDecides(L) ==
    /\ Role(L.current_topology, L.peer_id) = "Leader"
    /\ L.voting_block = NoBlock
    /\ L.transaction_cache # {}
    /\ Cardinality(L.transaction_cache) < MaxTxsInBlock

ProcessMessageIndependent(L, vci, deadline) ==
    CASE Role(L.current_topology, L.peer_id) = "Leader" -> LeaderStep(L, vci, deadline)
      [] Role(L.current_topology, L.peer_id) = "ProxyTail" -> ProxyTailStep(L, vci)
      [] OTHER -> L

-----------------------------------------------------------------------------
(* Shutdown *)

\* should_terminate (lines 780-792), checked at the head of the loop (line
\* 844): once the shutdown signal is sent (or its sender dropped), `run`
\* returns before the next iteration.
ShouldTerminate(p) ==
    /\ p \in MayShutdown
    /\ phase[p] = "loop"
    /\ phase' = [phase EXCEPT ![p] = "stopped"]
    /\ UNCHANGED <<wsv, finalized_wsv, kura, current_topology, transaction_cache,
                   public_finalized_wsv, voting_block, voting_signatures,
                   view_change_proof_chain, old_view_change_index,
                   old_latest_block_hash, queue, expired, network, control>>

\* early_return (lines 1020-1032), checked at the head of each pass of
\* init_listen_for_genesis (line 233): the listener returns
\* Err(ShutdownMessageReceived), which `run` only checks against
\* Disconnected (line 815) before it goes on to the loop's set-up, whose
\* latest_block_ref().expect("WSV must have blocks") (lines 832-836)
\* panics on the WSV, which is empty while the peer listens.
EarlyReturnFromListen(p) ==
    /\ p \in MayShutdown
    /\ phase[p] = "listen"
    /\ phase' = [phase EXCEPT ![p] = "panicked"]
    /\ UNCHANGED <<wsv, finalized_wsv, kura, current_topology, transaction_cache,
                   public_finalized_wsv, voting_block, voting_signatures,
                   view_change_proof_chain, old_view_change_index,
                   old_latest_block_hash, queue, expired, network, control>>

\* The process of peer p crashes between two iterations of its loop and
\* never runs again: it sends nothing and its channels are not read.
\* Nothing is persisted that a restart could recover from within `run`.
Crash(p) ==
    /\ p \in MayCrash
    /\ phase[p] = "loop"
    /\ phase' = [phase EXCEPT ![p] = "crashed"]
    /\ UNCHANGED <<wsv, finalized_wsv, kura, current_topology, transaction_cache,
                   public_finalized_wsv, voting_block, voting_signatures,
                   view_change_proof_chain, old_view_change_index,
                   old_latest_block_hash, queue, expired, network, control>>

-----------------------------------------------------------------------------
(* Actions *)

\* Block messages a peer may receive: those in flight to it, and the block
\* sync updates of blocks stored in other peers' Kura.  A sync update that
\* handle_block_sync neither commits nor uses to replace the top block
\* leaves the peer as if no message had arrived, and is left out.
Inbox(p) ==
    {m \in network : m.to = p} \cup
    {m \in {[kind |-> "BlockSyncUpdate", to |-> p, block |-> e.block, sigs |-> e.sigs] :
              e \in UNION {Range(kura[q]) : q \in Peers \ {p}}} :
        HandleBlockSync(m.block, m.sigs, wsv[p], finalized_wsv[p]) \in {"CommitBlock", "ReplaceTopBlock"}}

\* The peer's fields take their values from the locals L.
WriteLocal(p, L) ==
    /\ wsv' = [wsv EXCEPT ![p] = L.wsv]
    /\ finalized_wsv' = [finalized_wsv EXCEPT ![p] = L.finalized_wsv]
    /\ kura' = [kura EXCEPT ![p] = L.kura]
    /\ current_topology' = [current_topology EXCEPT ![p] = L.current_topology]
    /\ transaction_cache' = [transaction_cache EXCEPT ![p] = L.transaction_cache]
    /\ public_finalized_wsv' = [public_finalized_wsv EXCEPT ![p] = L.public_finalized_wsv]
    /\ voting_block' = [voting_block EXCEPT ![p] = L.voting_block]
    /\ voting_signatures' = [voting_signatures EXCEPT ![p] = L.voting_signatures]
    /\ view_change_proof_chain' = [view_change_proof_chain EXCEPT ![p] = L.proofs]
    /\ old_view_change_index' = [old_view_change_index EXCEPT ![p] = L.old_vci]
    /\ old_latest_block_hash' = [old_latest_block_hash EXCEPT ![p] = L.old_hash]

\* The outcomes of a deadline test: either, where the timer has not just
\* been restarted and the outcome changes what the step does; otherwise
\* FALSE stands for both.
Outcomes(matters) == IF matters THEN BOOLEAN ELSE {FALSE}

\* One iteration of the loop of `run` (lines 844-974) that receives m (or
\* NoMsg) and whose deadline tests have outcomes in vcs and bds.  The queue
\* fills the cache up to max_txs_in_block from transactions it holds that
\* are neither committed nor expired, and drops the expired and committed
\* ones.  The deadline tests are false in the iteration that restarted
\* their timer.  The locals after each call of the loop body are bound in
\* code order; a singleton \E has TLC evaluate each of them once.
IterateOn(p, m, vcs, bds) ==
    phase[p] = "loop" /\
    \E L0 \in {Local(p)} :
    LET committed == Committed(L0.wsv)
        kept == L0.transaction_cache \cap expired
        available == queue[p] \ (kept \cup committed \cup expired)
        room == IF MaxTxsInBlock > Cardinality(kept) THEN MaxTxsInBlock - Cardinality(kept) ELSE 0
        pullCount == IF room < Cardinality(available) THEN room ELSE Cardinality(available)
    IN \E pulled \in {S \in SUBSET available : Cardinality(S) = pullCount} :
       \E L1 \in {PruneProofs(RetainCache(L0, pulled))} :
       \E vci1 \in {CurrentIndex(L1)} :
       \E L3 \in {MergeControl(ResetState(L1, vci1), control[p])} :
       \E L5 \in {PruneProofs(IF m = NoMsg THEN L3 ELSE HandleMessage(L3, m, vci1))} :
       \E vci2 \in {CurrentIndex(L5)} :
       \E viewChangeDeadline \in vcs \cap Outcomes(ViewChangeDue(L5, vci2)
                                                   /\ ~L5.view_change_restarted /\ vci2 < MaxView) :
       \E L7 \in {ResetState(SuggestViewChange(L5, vci2, viewChangeDeadline), vci2)} :
       \E blockDeadline \in bds \cap Outcomes(BlockDeadlineDecides(L7) /\ ~L7.round_restarted) :
       \E L8 \in {ProcessMessageIndependent(L7, vci2, blockDeadline)} :
          /\ WriteLocal(p, L8)
          /\ queue' = [queue EXCEPT ![p] = @ \ (expired \cup committed)]
          /\ network' = (network \ {m}) \cup L8.sent
          /\ control' = [q \in Peers |-> IF q = p THEN {} ELSE control[q] \cup L8.broadcast]
          /\ UNCHANGED <<expired, phase>>

\* One iteration, whatever it receives and whatever the clocks say.
Iterate(p) == \E m \in Inbox(p) \cup {NoMsg} : IterateOn(p, m, BOOLEAN, BOOLEAN)

PeerVars == <<wsv, finalized_wsv, kura, current_topology, transaction_cache,
              public_finalized_wsv, voting_block, voting_signatures,
              view_change_proof_chain, old_view_change_index, old_latest_block_hash,
              phase>>

-----------------------------------------------------------------------------
(* The genesis round (lines 801-836) *)

\* BlockBuilder::new(genesis transactions, current topology).chain(0, ..):
\* the block on top of the empty WSV.  Transactions are abstracted away.
GenesisBlock(L) ==
    [height |-> L.wsv.height + 1, vci |-> 0, txs |-> {},
     topo |-> L.current_topology, prev |-> L.wsv]

\* sumeragi_init_commit_genesis (lines 279-320), then the locals of `run`
\* (line 832): the genesis peer signs and commits the genesis block and
\* broadcasts it as BlockCreated.
SumeragiInitCommitGenesis(p) ==
    /\ phase[p] = "genesis"
    /\ wsv[p].height = 0
    /\ \E L0 \in {Local(p)} :
       \E b \in {GenesisBlock(L0)} :
          /\ WriteLocal(p, [UpdateState(L0, b, {p}, "NewBlock") EXCEPT !.old_hash = b])
          /\ network' = network \cup
                {[kind |-> "BlockCreated", to |-> q, block |-> b, sigs |-> {p}] : q \in Peers \ {p}}
    /\ phase' = [phase EXCEPT ![p] = "loop"]
    /\ UNCHANGED <<queue, expired, control>>

\* What a peer waiting for genesis may receive: the messages in flight to
\* it, and block sync updates of stored blocks it can validate (any other
\* sync update leaves it as it was).
ListenInbox(p) ==
    {m \in network : m.to = p} \cup
    {m \in {[kind |-> "BlockSyncUpdate", to |-> p, block |-> e.block, sigs |-> e.sigs] :
              e \in UNION {Range(kura[q]) : q \in Peers \ {p}}} :
        ValidateBlock(m.block, current_topology[p], wsv[p])}

\* Faulty variant of the listener: the genesis block must carry a quorum
\* of signatures, as a block of a consensus round does.
ListenForGenesisQuorum(p, m) ==
    /\ phase[p] = "listen"
    /\ IF m.kind \in {"BlockCreated", "BlockSyncUpdate"}
          /\ ValidateBlock(m.block, current_topology[p], wsv[p]) /\ HasQuorum(m.sigs)
       THEN /\ WriteLocal(p, [UpdateState(Local(p), m.block, m.sigs, "NewBlock")
                                EXCEPT !.old_hash = m.block])
            /\ phase' = [phase EXCEPT ![p] = "loop"]
       ELSE UNCHANGED PeerVars
    /\ network' = network \ {m}
    /\ UNCHANGED <<queue, expired, control>>

\* One pass of init_listen_for_genesis (lines 225-277) that receives m: a
\* BlockCreated or BlockSyncUpdate whose block validates against the
\* trusted-peer topology and the empty WSV is committed (a genesis block
\* commits on its creator's signature), and `run` enters its loop; any
\* other message is dropped.
ListenForGenesis(p, m) ==
    /\ phase[p] = "listen"
    /\ IF m.kind \in {"BlockCreated", "BlockSyncUpdate"}
          /\ ValidateBlock(m.block, current_topology[p], wsv[p])
       THEN /\ WriteLocal(p, [UpdateState(Local(p), m.block, m.sigs, "NewBlock")
                                EXCEPT !.old_hash = m.block])
            /\ phase' = [phase EXCEPT ![p] = "loop"]
       ELSE UNCHANGED PeerVars
    /\ network' = network \ {m}
    /\ UNCHANGED <<queue, expired, control>>

\* A client submits tx to peer p; the queue refuses committed and expired
\* transactions.
SubmitTransaction(p, tx) ==
    /\ tx \notin queue[p] \cup expired \cup Committed(wsv[p])
    /\ queue' = [queue EXCEPT ![p] = @ \cup {tx}]
    /\ UNCHANGED <<PeerVars, expired, network, control>>

\* The queue's time-to-live of tx runs out.
ExpireTransaction(tx) ==
    /\ tx \in ExpiringTxs \ expired
    /\ expired' = expired \cup {tx}
    /\ UNCHANGED <<PeerVars, queue, network, control>>

\* The network loses a block message, or the control messages to a peer.
LoseMessage(m) ==
    /\ LossyNetwork
    /\ network' = network \ {m}
    /\ UNCHANGED <<PeerVars, queue, expired, control>>

LoseControl(p) ==
    /\ LossyControl
    /\ control[p] # {}
    /\ control' = [control EXCEPT ![p] = {}]
    /\ UNCHANGED <<PeerVars, queue, expired, network>>

\* Every peer has committed genesis (the state `run` reaches at line 826).
Init ==
    /\ wsv = [p \in Peers |-> Genesis]
    /\ finalized_wsv = [p \in Peers |-> EmptyWsv]
    /\ kura = [p \in Peers |-> <<[block |-> Genesis, sigs |-> {GenesisPeer}]>>]
    /\ current_topology = [p \in Peers |-> Genesis.topo]
    /\ transaction_cache = [p \in Peers |-> {}]
    /\ public_finalized_wsv = [p \in Peers |-> EmptyWsv]
    /\ voting_block = [p \in Peers |-> NoBlock]
    /\ voting_signatures = [p \in Peers |-> {}]
    /\ view_change_proof_chain = [p \in Peers |-> {}]
    /\ old_view_change_index = [p \in Peers |-> 0]
    /\ old_latest_block_hash = [p \in Peers |-> Genesis]
    /\ queue = [p \in Peers |-> {}]
    /\ expired = {}
    /\ network = {}
    /\ control = [p \in Peers |-> {}]
    /\ phase = [p \in Peers |-> "loop"]

\* Every peer starts with an empty WSV (Sumeragi::new); `run` commits
\* genesis at GenesisPeer and makes every other peer listen for it.
\* old_latest_block_hash is set when the loop is entered.
InitGenesis ==
    /\ wsv = [p \in Peers |-> EmptyWsv]
    /\ finalized_wsv = [p \in Peers |-> EmptyWsv]
    /\ kura = [p \in Peers |-> <<>>]
    /\ current_topology = [p \in Peers |-> Genesis.topo]
    /\ transaction_cache = [p \in Peers |-> {}]
    /\ public_finalized_wsv = [p \in Peers |-> EmptyWsv]
    /\ voting_block = [p \in Peers |-> NoBlock]
    /\ voting_signatures = [p \in Peers |-> {}]
    /\ view_change_proof_chain = [p \in Peers |-> {}]
    /\ old_view_change_index = [p \in Peers |-> 0]
    /\ old_latest_block_hash = [p \in Peers |-> EmptyWsv]
    /\ queue = [p \in Peers |-> {}]
    /\ expired = {}
    /\ network = {}
    /\ control = [p \in Peers |-> {}]
    /\ phase = [p \in Peers |-> IF p = GenesisPeer THEN "genesis" ELSE "listen"]

Next ==
    \/ \E p \in Peers : Iterate(p)
    \/ \E p \in Peers : SumeragiInitCommitGenesis(p)
    \/ \E p \in Peers : \E m \in ListenInbox(p) : ListenForGenesis(p, m)
    \/ \E p \in Peers : ShouldTerminate(p)
    \/ \E p \in Peers : EarlyReturnFromListen(p)
    \/ \E p \in Peers : Crash(p)
    \/ \E s \in Submissions : SubmitTransaction(s[1], s[2])
    \/ \E tx \in Txs : ExpireTransaction(tx)
    \/ \E m \in network : LoseMessage(m)
    \/ \E p \in Peers : LoseControl(p)

Spec == Init /\ [][Next]_vars

\* The fairness the code justifies.  The loop of `run` never blocks (it
\* sleeps only when an iteration found no work), so each peer keeps
\* iterating; a message in its channel, or a block that block sync keeps
\* gossiping, is eventually received; and a timer that is not restarted
\* eventually passes its deadline (Instant::now() grows).  Weak fairness
\* suffices: each of these steps stays enabled until it is taken.
Fairness ==
    \A p \in Peers :
        /\ WF_vars(Iterate(p))
        /\ WF_vars(\E m \in Inbox(p) : IterateOn(p, m, BOOLEAN, BOOLEAN))
        /\ WF_vars(\E m \in Inbox(p) \cup {NoMsg} : IterateOn(p, m, {TRUE}, BOOLEAN))
        /\ WF_vars(\E m \in Inbox(p) \cup {NoMsg} : IterateOn(p, m, BOOLEAN, {TRUE}))
        /\ WF_vars(SumeragiInitCommitGenesis(p))
        /\ WF_vars(\E m \in ListenInbox(p) : ListenForGenesis(p, m))

FairSpec == Spec /\ Fairness

\* `run` from its start: the genesis round, then the loop.
GenesisSpec == InitGenesis /\ [][Next]_vars /\ Fairness

-----------------------------------------------------------------------------
(* Properties *)

Proofs == [signer : Peers, hash : {NoBlock}, vci : Nat]

BlockShape(b) ==
    /\ b.height \in Nat /\ b.vci \in Nat /\ b.txs \subseteq Txs
    /\ b.topo \in 0..(N - 1)

TypeOK ==
    /\ \A p \in Peers :
        /\ BlockShape(wsv[p]) /\ BlockShape(finalized_wsv[p])
        /\ BlockShape(public_finalized_wsv[p])
        /\ current_topology[p] \in 0..(N - 1)
        /\ transaction_cache[p] \subseteq Txs /\ queue[p] \subseteq Txs
        /\ voting_block[p] = NoBlock \/ voting_block[p].sigs \subseteq Peers
        /\ {s.signer : s \in voting_signatures[p]} \subseteq Peers
        /\ \A pr \in view_change_proof_chain[p] \cup control[p] :
              pr.signer \in Peers /\ pr.vci \in 0..(MaxView - 1)
        /\ old_view_change_index[p] \in 0..MaxView
        /\ phase[p] \in {"genesis", "listen", "loop", "stopped", "panicked", "crashed"}
    /\ expired \subseteq Txs
    /\ \A m \in network :
        /\ m.kind \in {"BlockCreated", "BlockSigned", "BlockCommitted"}
        /\ m.to \in Peers /\ m.sigs \subseteq Peers /\ BlockShape(m.block)

\* finalized_wsv is exactly one committed block behind wsv: the block under
\* the tip (update_state's swap for a new block, its absence for a top
\* block replacement, and the voting block's WSV all keep this), so that a
\* soft fork (handle_block_sync, lines 1128-1161) rolls back one block.
\* Replacements need a block at a higher view-change index: the viewchange
\* run reaches them, the genesis run checks it under message loss.
FinalizedIsParent == \A p \in Peers : wsv[p].height > 0 => wsv[p].prev = finalized_wsv[p]

\* A block any peer holds below its tip is on the chain of every peer that
\* is at least as tall: peers may disagree on their top block only, which
\* the soft fork of handle_block_sync repairs.
FinalizedBlocksAgree ==
    \A p, q \in Peers :
        finalized_wsv[p].height <= wsv[q].height => IsAncestor(finalized_wsv[p], wsv[q])

\* The block at height h on the chain ending in b.
RECURSIVE BlockAt(_, _)
BlockAt(b, h) == IF b.height = h THEN b ELSE BlockAt(b.prev, h)

\* Kura holds exactly the chain of the WSV: update_state stores a block
\* (or replaces the top one) only together with applying it, so after a
\* soft fork or a commit from any of its four paths the store and the
\* state never disagree on any height.
KuraMatchesWsv ==
    \A p \in Peers :
        /\ Len(kura[p]) = wsv[p].height
        /\ \A h \in 1..Len(kura[p]) : kura[p][h].block = BlockAt(wsv[p], h)

\* A voting block is always a block on top of the peer's current latest
\* block: reset_state drops it whenever the latest block changes, so a
\* vote or a commit never uses a WSV cloned before another block was
\* committed (VotingBlock::new_wsv in vote_for_block and process_message_
\* independent).
VotingBlockOnTip ==
    \A p \in Peers : voting_block[p] # NoBlock => voting_block[p].block.prev = wsv[p]

\* Each peer's latest block and published finalized WSV move as the
\* ledger allows: append, or a soft-fork replacement of the top block by
\* a higher view-change index; the published WSV only grows.
Abstract == INSTANCE Ledger WITH tip <- wsv, published <- public_finalized_wsv

LedgerRefinement == Abstract!Spec

\* A transaction that reaches the queues of the leaders of every round up
\* to the bound on view changes is eventually in the chain of every peer:
\* the leader proposes it once the block deadline passes, the voters sign
\* it, the proxy tail commits it, and peers that miss BlockCommitted (the
\* observing peer, or a peer behind after a view change) catch up by
\* block sync.  The round must survive deadlines that pass in any order.
\* A transaction the queue expires first is excused.
TxCommittedEverywhere ==
    \A tx \in Txs :
        (\A v \in 0..MaxView : tx \in queue[Leader(Recreate(Genesis.topo, v))])
            ~> (tx \in expired \/ \A p \in Peers : tx \in Committed(wsv[p]))

\* "View change must be periodically suggested until it is accepted"
\* (comment at line 944).  Once every live peer that clients reached holds
\* tx, each live peer eventually has committed tx or has moved past view
\* 0: if the leader crashed, the peers that expect a block time out and
\* sign, their proof chains are rebroadcast at every deadline, and every
\* live peer, the observing one included, merges them and reaches index
\* 1.  Peers whose `run` has ended (crashed, panicked or stopped) are
\* excused; ending takes no fairness.
ViewChangeAccepted ==
    \A tx \in Txs :
        (\A q \in {q \in Peers \ MayCrash : <<q, tx>> \in Submissions} : tx \in queue[q])
            ~> \A p \in Peers : \/ phase[p] \in {"crashed", "panicked", "stopped"}
                               \/ tx \in Committed(wsv[p])
                               \/ old_view_change_index[p] >= 1

\* Every peer eventually leaves the genesis round: it commits the genesis
\* block and enters the loop unless it is shut down first.  The genesis
\* peer's BlockCreated, or block sync of its Kura, reaches each listener,
\* and the listener accepts a genesis block signed by its creator alone;
\* a peer shut down while listening does not hold the others back.
GenesisReachesEveryPeer == \A p \in Peers : <>(phase[p] \notin {"genesis", "listen"})

\* Shutdown is cooperative (spec 5 and 7: it is not an error, and only a
\* failed block application or a disconnected channel is fatal): a peer
\* told to shut down, in the genesis round or in the loop, returns from
\* `run` without panicking.
NoPanicOnShutdown == \A p \in Peers : phase[p] # "panicked"

\* A proposal of the view a validating peer is in once the control
\* messages of the same iteration are merged is voted on (spec 4.5, steps
\* 3-5: only a BlockCreated older than the just-updated index is
\* discarded).  The consumed BlockCreated extends the peer's tip, carries
\* the topology of its view, and that view is the one the peer is in after
\* the step; a BlockSigned for it must then be sent.  handle_message (line
\* 898) is given the index and topology of line 873, from before
\* receive_network_packet merged the proofs.
ProposalOfCurrentViewVoted ==
    [][\A m \in network \ network' :
          LET p == m.to IN
          /\ m.kind = "BlockCreated"
          /\ phase[p] = "loop"
          /\ wsv'[p] = wsv[p] /\ m.block.prev = wsv[p]
          /\ m.block.vci = old_view_change_index'[p]
          /\ m.block.topo = Recreate(wsv[p].topo, m.block.vci)
          /\ Role(m.block.topo, p) = "ValidatingPeer"
          => \E s \in network' \ network : s.kind = "BlockSigned" /\ s.block = m.block]_vars

\* A block the leader proposes holds no transaction the queue reports
\* expired (spec, main loop step 1: expired transactions are dropped from
\* the cache before the leader pulls a batch).
NoExpiredTxProposed ==
    [][\A m \in network' \ network :
          m.kind = "BlockCreated" => m.block.txs \cap expired = {}]_vars
=============================================================================
