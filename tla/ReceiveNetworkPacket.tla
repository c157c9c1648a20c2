------------------------- MODULE ReceiveNetworkPacket -------------------------
(***************************************************************************)
(* Sumeragi::receive_network_packet (core/src/sumeragi/main_loop.rs,       *)
(* lines 148-223): one call drains up to MAX_CONTROL_MSG_IN_A_ROW control  *)
(* messages, merging each into the view-change proof chain, and returns at *)
(* most one block message.  The network actor fills both channels          *)
(* concurrently with the call.                                             *)
(*                                                                         *)
(* One action is one pass of the `for` loop.  A pass is atomic with       *)
(* respect to the senders without loss: a message sent between its two    *)
(* try_recv calls is received in the same pass if it is a control message *)
(* (as if sent before the pass) and in a later pass if it is a block       *)
(* message (as if sent after it).                                          *)
(***************************************************************************)
EXTENDS Naturals, Sequences, FiniteSets, Topology, ProofChain

CONSTANTS
    Latest,        \* the latest block hash of the WSV during the call
    BlockMsgs,     \* block messages the network may deliver: [kind, vci]
    ControlMsgs,   \* control messages: sets of proofs [signer, hash, vci]
    MaxInARow,     \* MAX_CONTROL_MSG_IN_A_ROW
    MaxSends,      \* bound: messages the network delivers in a behaviour
    NoMsg          \* model value: Option::None

VARIABLES
    blockChan,     \* message_receiver: block messages in the channel
    controlChan,   \* control_message_receiver
    chain,         \* view_change_proof_chain (persists across calls)
    inCall,        \* a call is running
    iter,          \* passes of the `for` loop done in this call
    block_msg,     \* the local `block_msg`
    should_sleep,
    result,        \* what the last finished call returned
    sends,         \* messages delivered so far (bounded)
    received,      \* ghost: block messages taken from the channel this call
    staleHeld      \* ghost: a merge in this call made the held BlockCreated stale

vars == <<blockChan, controlChan, chain, inCall, iter, block_msg, should_sleep,
          result, sends, received, staleHeld>>

\* A BlockCreated message below the view-change index (lines 196-205).
StaleCreated(msg, index) == msg # NoMsg /\ msg.kind = "BlockCreated" /\ msg.vci < index

Init ==
    /\ blockChan = <<>> /\ controlChan = <<>>
    /\ chain = {}
    /\ inCall = FALSE /\ iter = 0
    /\ block_msg = NoMsg /\ should_sleep = TRUE
    /\ result = NoMsg /\ sends = 0
    /\ received = 0 /\ staleHeld = FALSE

\* The network actor delivers a block or a control message.
SendBlock(m) ==
    /\ sends < MaxSends
    /\ blockChan' = Append(blockChan, m)
    /\ sends' = sends + 1
    /\ UNCHANGED <<controlChan, chain, inCall, iter, block_msg, should_sleep,
                   result, received, staleHeld>>

SendControl(c) ==
    /\ sends < MaxSends
    /\ controlChan' = Append(controlChan, c)
    /\ sends' = sends + 1
    /\ UNCHANGED <<blockChan, chain, inCall, iter, block_msg, should_sleep,
                   result, received, staleHeld>>

\* The loop of `run` calls receive_network_packet (lines 148-155).
Call ==
    /\ ~inCall
    /\ inCall' = TRUE /\ iter' = 0
    /\ block_msg' = NoMsg /\ should_sleep' = TRUE
    /\ received' = 0 /\ staleHeld' = FALSE
    /\ UNCHANGED <<blockChan, controlChan, chain, result, sends>>

TakeBlock(held, chan) ==
    IF held # NoMsg \/ chan = <<>> THEN [msg |-> held, rest |-> chan]
    ELSE [msg |-> Head(chan), rest |-> Tail(chan)]

\* Faulty variant: the loop runs 0..=MAX_CONTROL_MSG_IN_A_ROW.
PassInclusive ==
    /\ inCall /\ iter <= MaxInARow
    /\ LET take == TakeBlock(block_msg, blockChan)
           maybe_block == take.msg
           afterTake == NoMsg
       IN /\ blockChan' = take.rest
          /\ received' = received + (Len(blockChan) - Len(take.rest))
          /\ IF controlChan # <<>>
             THEN LET merged == Merge(chain, Head(controlChan), Members)
                      index == VerifyWithState(merged, Members, MaxFaults, Latest)
                      should_prune == StaleCreated(afterTake, index)
                      kept == IF should_prune THEN NoMsg ELSE maybe_block
                  IN /\ controlChan' = Tail(controlChan)
                     /\ chain' = merged
                     /\ should_sleep' = FALSE
                     /\ block_msg' = kept
                     /\ staleHeld' = ((staleHeld /\ kept # NoMsg) \/ StaleCreated(kept, index))
                     /\ iter' = iter + 1
                     /\ inCall' = (iter + 1 <= MaxInARow)
                     /\ result' = IF iter + 1 <= MaxInARow THEN result ELSE kept
             ELSE /\ block_msg' = maybe_block
                  /\ should_sleep' = (should_sleep /\ maybe_block = NoMsg)
                  /\ inCall' = FALSE
                  /\ result' = maybe_block
                  /\ UNCHANGED <<controlChan, chain, iter, staleHeld>>
    /\ UNCHANGED sends

\* One pass of the `for` loop (lines 156-217).  Pruning tests `block_msg`
\* after it was taken, which is always None.
Pass ==
    /\ inCall /\ iter < MaxInARow
    /\ LET take == TakeBlock(block_msg, blockChan)
           maybe_block == take.msg
           afterTake == NoMsg
       IN /\ blockChan' = take.rest
          /\ received' = received + (Len(blockChan) - Len(take.rest))
          /\ IF controlChan # <<>>
             THEN LET merged == Merge(chain, Head(controlChan), Members)
                      index == VerifyWithState(merged, Members, MaxFaults, Latest)
                      should_prune == StaleCreated(afterTake, index)
                      kept == IF should_prune THEN NoMsg ELSE maybe_block
                  IN /\ controlChan' = Tail(controlChan)
                     /\ chain' = merged
                     /\ should_sleep' = FALSE
                     /\ block_msg' = kept
                     /\ staleHeld' = ((staleHeld /\ kept # NoMsg) \/ StaleCreated(kept, index))
                     /\ iter' = iter + 1
                     /\ inCall' = (iter + 1 < MaxInARow)
                     /\ result' = IF iter + 1 < MaxInARow THEN result ELSE kept
             ELSE /\ block_msg' = maybe_block
                  /\ should_sleep' = (should_sleep /\ maybe_block = NoMsg)
                  /\ inCall' = FALSE
                  /\ result' = maybe_block
                  /\ UNCHANGED <<controlChan, chain, iter, staleHeld>>
    /\ UNCHANGED sends

Next ==
    \/ \E m \in BlockMsgs : SendBlock(m)
    \/ \E c \in ControlMsgs : SendControl(c)
    \/ Call
    \/ Pass

Spec == Init /\ [][Next]_vars

-----------------------------------------------------------------------------
(* Properties *)

TypeOK ==
    /\ blockChan \in Seq(BlockMsgs) /\ controlChan \in Seq(ControlMsgs)
    /\ inCall \in BOOLEAN /\ iter \in 0..MaxInARow
    /\ block_msg \in BlockMsgs \cup {NoMsg} /\ result \in BlockMsgs \cup {NoMsg}
    /\ should_sleep \in BOOLEAN /\ sends \in 0..MaxSends

StaleBlockCreatedPruned == ~inCall => ~staleHeld
=============================================================================
