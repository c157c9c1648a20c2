-------------------------- MODULE MCSumeragiFork --------------------------
(* A directed scenario of Sumeragi: the order in which peers act is fixed *)
(* by Schedule, every other choice (message received, deadlines, queue    *)
(* pulls) is left to the model.  Every behaviour of ForkSpec is one of    *)
(* Spec.                                                                  *)
(*                                                                        *)
(* The schedule: p1 proposes X at index 0 and p3 commits it; p2 and p4,   *)
(* still on genesis, move to index 1, where p2 proposes Y and p4 commits  *)
(* it with p1's vote; p1 and p2 then sync X, and p1, p2, p3 commit X' on   *)
(* top of X.                                                               *)
EXTENDS MCSumeragi

VARIABLE step

Submit(p, tx) == [kind |-> "submit", peer |-> p, tx |-> tx]
Run(p) == [kind |-> "iterate", peer |-> p, tx |-> NoMsg]

Schedule ==
    << Submit(p1, t1), Submit(p2, t1), Submit(p4, t1),
       Run(p1), Run(p2), Run(p3), Run(p3),
       Run(p2), Run(p4), Run(p2), Run(p4), Run(p1),
       Run(p4), Run(p1), Run(p4),
       Run(p1), Run(p2),
       Submit(p1, t2), Run(p1), Run(p2), Run(p3), Run(p3) >>

ForkInit == Init /\ step = 0

ForkNext ==
    /\ step < Len(Schedule)
    /\ LET a == Schedule[step + 1]
       IN IF a.kind = "submit" THEN SubmitTransaction(a.peer, a.tx)
          ELSE Iterate(a.peer)
    /\ step' = step + 1

ForkSpec == ForkInit /\ [][ForkNext]_<<vars, step>>
=============================================================================
