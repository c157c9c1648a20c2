----------------------- MODULE MCReceiveNetworkPacket -----------------------
(* Four peers (max_faults = 1: two proofs raise the index to 1), one latest *)
(* block hash, a BlockCreated and a BlockSigned message at index 0, and    *)
(* two control messages each carrying one peer's proof.                    *)
EXTENDS ReceiveNetworkPacket, TLC

CONSTANTS p1, p2, p3, p4, h

MCInitialOrder == <<p1, p2, p3, p4>>

MCBlockMsgs == {[kind |-> "BlockCreated", vci |-> 0], [kind |-> "BlockSigned", vci |-> 0]}

MCControlMsgs == {{[signer |-> p1, hash |-> h, vci |-> 0]},
                  {[signer |-> p2, hash |-> h, vci |-> 0]}}
=============================================================================
