----------------------- MODULE MCCandidatePublication -----------------------
(***************************************************************************)
(* CandidatePublication for TLC, on one of two instances, chosen in the    *)
(* initial state, that share the constants:                                *)
(*   - "contest": two callers, owners and envelopes, one job, no reader;   *)
(*   - "list": a reader pages, either at once (three candidates finalized  *)
(*     at one moment, a review that cannot be read) or over time (two      *)
(*     candidates and two callers, whose clock values may be stale).       *)
(* Every conjunct of a scope names a bound; none touches the program.      *)
(***************************************************************************)
EXTENDS CandidatePublication

CONSTANTS c1, c2, o1, o2, e1, e2, r1

VARIABLE instance

Contest ==
    /\ \A p \in Callers : caller[p].job \in {1, None}
    /\ \A r \in Readers : reader[r].pc = "idle"
    /\ reviewed = {}

\* Who publishes matters little to a reader: a call is for one of the jobs, with one
\* owner and one envelope.
Plain(p, jobs) ==
    caller[p] # NoCall => /\ caller[p].job \in jobs
                          /\ caller[p].evidence = e1 /\ caller[p].owner = o1

AtOnce == clock = 0 /\ Plain(c1, Jobs) /\ caller[c2] = NoCall

OverTime ==
    /\ clock <= 1
    /\ Plain(c1, {1}) /\ Plain(c2, {2}) /\ pubs[3] = NoRow /\ <<3, e1>> \notin reviewed
    /\ \A r \in Readers : reader[r].hidden = {}

List == (AtOnce \/ OverTime) /\ reviewed \subseteq Jobs \X {e1}

Scope == IF instance = "contest" THEN Contest ELSE List

Here == UNCHANGED instance /\ Scope'

MCInit == Init /\ instance \in {"contest", "list"}

MCNext ==
    \/ Tick /\ Here
    \/ Review /\ Here
    \/ \E p \in Callers :
        \/ Publish(p) /\ Here
        \/ ReserveNew(p) /\ Here
        \/ ReserveAgain(p) /\ Here
        \/ ReserveExpired(p) /\ Here
        \/ Replay(p) /\ Here
        \/ Finalize(p) /\ Here
        \/ FinalizeCommit(p) /\ Here
        \/ Fail(p) /\ Here
    \/ \E r \in Readers :
        \/ StartListing(r) /\ Here
        \/ Scan(r) /\ Here
        \/ Check(r) /\ Here
        \/ Recheck(r) /\ Here
        \/ NextPage(r) /\ Here
        \/ EndListing(r) /\ Here
        \/ AbortListing(r) /\ Here

\* No scope forbids a reader's next step, so the fairness is FairSpec's.
MCSpec ==
    MCInit /\ [][MCNext]_<<vars, instance>> /\ \A r \in Readers : WF_vars(Paging(r))
=============================================================================
