----------------------------- MODULE FencedJobs -----------------------------
(***************************************************************************)
(* What the job-leasing half of the control plane promises, without        *)
(* clocks, requests, heartbeats or audit: a job is granted to one worker   *)
(* after another, every grant has a larger fencing token than the last,    *)
(* and at most one result is ever published, by the latest grant, after    *)
(* which the job is never granted again.                                   *)
(***************************************************************************)
EXTENDS Naturals

CONSTANTS Jobs, Workers, Digests, None

VARIABLES
    token,      \* token[j]: fencing token of the latest grant of job j, 0 before any
    holder,     \* holder[j]: the worker of the latest grant
    published   \* published[j]: None, or who published which result under which token

fencedVars == <<token, holder, published>>

Init ==
    /\ token = [j \in Jobs |-> 0]
    /\ holder = [j \in Jobs |-> None]
    /\ published = [j \in Jobs |-> None]

Grant(j, w) ==
    /\ published[j] = None
    /\ token' = [token EXCEPT ![j] = @ + 1]
    /\ holder' = [holder EXCEPT ![j] = w]
    /\ UNCHANGED published

Publish(j, d) ==
    /\ published[j] = None
    /\ token[j] > 0
    /\ published' = [published EXCEPT
            ![j] = [owner |-> holder[j], token |-> token[j], result |-> d]]
    /\ UNCHANGED <<token, holder>>

Next ==
    \/ \E j \in Jobs, w \in Workers : Grant(j, w)
    \/ \E j \in Jobs, d \in Digests : Publish(j, d)

Spec == Init /\ [][Next]_fencedVars
=============================================================================
