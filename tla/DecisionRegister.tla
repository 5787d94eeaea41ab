-------------------------- MODULE DecisionRegister --------------------------
(***************************************************************************)
(* What the candidate review ledger promises its readers: for every        *)
(* reviewed candidate a short list of verdicts that only grows.  It is     *)
(* opened by "pending" or by an immediate approval, a pending candidate is *)
(* decided once, and a decided candidate is never decided again.           *)
(***************************************************************************)
EXTENDS Sequences

CONSTANT Candidates     \* one per candidate content under review

VARIABLE verdicts       \* the verdicts given on each candidate, oldest first

Verdicts == {"approved", "rejected", "needs_changes"}

Init == verdicts = [t \in Candidates |-> <<>>]

Give(t, v) == verdicts' = [verdicts EXCEPT ![t] = Append(@, v)]

Open(t) == verdicts[t] = <<>> /\ Give(t, "pending")

ApproveAtOnce(t) == verdicts[t] = <<>> /\ Give(t, "approved")

Decide(t, v) == verdicts[t] = <<"pending">> /\ Give(t, v)

Next ==
    \E t \in Candidates :
        \/ Open(t)
        \/ ApproveAtOnce(t)
        \/ \E v \in Verdicts : Decide(t, v)

Spec == Init /\ [][Next]_verdicts
=============================================================================
