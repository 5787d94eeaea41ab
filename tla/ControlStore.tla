---------------------------- MODULE ControlStore ----------------------------
(***************************************************************************)
(* The job-leasing half of SQLiteControlStore                              *)
(* (apps/api/src/workflow_api/control_store.py), entered through           *)
(* ControlService (control_service.py), which fixes the lease owner to the *)
(* authenticated subject and passes the accepted audit record along.       *)
(*                                                                         *)
(* Every operation reads the wall clock first and opens its BEGIN          *)
(* IMMEDIATE transaction afterwards, possibly after waiting for the        *)
(* database lock.  An operation is therefore two steps here: a request     *)
(* enters "pending" carrying the time it read, and later one transaction   *)
(* either commits it whole or rolls it back.  Everything between BEGIN and *)
(* COMMIT is one step, because SQLite serialises writers.                  *)
(***************************************************************************)
EXTENDS Integers, FiniteSets, Sequences

CONSTANTS
    Jobs,           \* scope-qualified job ids
    Workers,        \* subjects with the deterministic_worker role
    Digests,        \* payload and result SHA-256 digests
    Keys,           \* scope-qualified completion idempotency keys
    None,           \* SQL null
    MaxActive,      \* max_active_leases
    Ttls,           \* lease durations callers ask for, in clock units
    MaxDelay,       \* how old the clock value of a pending request may get
    MaxClock,       \* bound: last clock value explored
    MaxPending,     \* bound: requests in flight at once
    MaxAudit        \* bound: accepted requests per job and operation

ASSUME BoundsAssumption ==
    /\ MaxActive \in Nat \ {0}
    /\ Ttls \subseteq Nat \ {0}
    /\ MaxDelay \in Nat /\ MaxClock \in Nat
    /\ MaxPending \in Nat /\ MaxAudit \in Nat

ASSUME NoneAssumption ==
    None \notin Workers \cup Digests \cup Keys

ASSUME JobsAssumption == IsFiniteSet(Jobs)

VARIABLES
    clock,      \* wall-clock time
    pending,    \* requests that have read the clock and not yet run their transaction
    jobs,       \* table control_jobs: one row per job id ("absent" = no row)
    events,     \* table lease_events, per job, in sequence order
    audit       \* accepted rows of audit_events, counted per job and action

vars == <<clock, pending, jobs, events, audit>>
tables == <<jobs, events, audit>>

-----------------------------------------------------------------------------
(***************************************************************************)
(* Rows, requests and events                                               *)
(***************************************************************************)

Ops == {"job.register", "job.acquire", "job.heartbeat", "job.complete"}

Row ==
    [state: {"absent", "queued", "leased", "completed"},
     payload: Digests \cup {None},
     owner: Workers \cup {None},
     token: Nat,
     attempt: Nat,
     expires: Nat,
     key: Keys \cup {None},
     result: Digests \cup {None}]

NoRow ==
    [state |-> "absent", payload |-> None, owner |-> None, token |-> 0,
     attempt |-> 0, expires |-> 0, key |-> None, result |-> None]

\* The lease a caller presents.  Registration and acquisition present none: token 0.
Lease == [job: Jobs, owner: Workers, token: Nat, attempt: Nat]

\* Registrations and completions carry a digest, the other requests none.
Request ==
    {r \in [op: Ops, lease: Lease, ttl: Nat, key: Keys \cup {None},
            digest: Digests \cup {None}, now: Nat] :
        r.op \in {"job.register", "job.complete"} => r.digest \in Digests}

EventTypes == {"acquired", "reacquired", "heartbeat", "completed"}

LeaseEvent ==
    [type: EventTypes, owner: Workers, token: Nat, attempt: Nat,
     at: Nat, expires: Nat, result: Digests \cup {None}]

Grants == {"acquired", "reacquired"}

\* The leases of job j that some earlier response carried, however old.
LeasesOf(j) ==
    {[job |-> j, owner |-> events[j][i].owner,
      token |-> events[j][i].token, attempt |-> events[j][i].attempt] :
        i \in {k \in DOMAIN events[j] : events[j][k].type \in Grants}}

-----------------------------------------------------------------------------
(***************************************************************************)
(* The conditions the transactions test                                    *)
(***************************************************************************)

HeldOneUnitEarly(row, now) == row.state = "leased" /\ row.expires > now + 1

\* "state = 'leased' and lease_expires_at > now": the row blocks other owners.
Held(row, now) == row.state = "leased" /\ row.expires > now

\* The rows `select count(*) ... where state = 'leased' and lease_expires_at > ?' counts.
ActiveAt(now) == {j \in Jobs : jobs[j].state = "leased" /\ jobs[j].expires > now}

CapacityFree(now) == Cardinality(ActiveAt(now)) < MaxActive

LeaseWithoutToken(row, lease, now) ==
    /\ row.state = "leased"
    /\ row.owner = lease.owner
    /\ row.expires > now

RequireCurrentLease(row, lease, now) ==
    /\ row.state = "leased"
    /\ row.owner = lease.owner
    /\ row.token = lease.token
    /\ row.attempt = lease.attempt
    /\ row.expires > now

-----------------------------------------------------------------------------
(***************************************************************************)
(* Requests: ControlService authorises, then the store reads the clock     *)
(***************************************************************************)

Submit(op, lease, ttl, key, digest) ==
    /\ Cardinality(pending) < MaxPending
    /\ pending' = pending \cup
         {[op |-> op, lease |-> lease, ttl |-> ttl, key |-> key,
           digest |-> digest, now |-> clock]}
    /\ UNCHANGED <<clock, tables>>

Unleased(j, w) == [job |-> j, owner |-> w, token |-> 0, attempt |-> 0]

RequestRegister(j, w) ==
    \E d \in Digests : Submit("job.register", Unleased(j, w), 0, None, d)

RequestAcquire(j, w) ==
    \E t \in Ttls : Submit("job.acquire", Unleased(j, w), t, None, None)

\* _owned_lease overwrites the presented owner with the caller's subject, so a
\* worker may present the token of somebody else's grant, under its own name.
OwnedLease(lease, w) == [lease EXCEPT !.owner = w]

RequestHeartbeat(j, w) ==
    \E l \in LeasesOf(j), t \in Ttls :
        Submit("job.heartbeat", OwnedLease(l, w), t, None, None)

RequestComplete(j, w) ==
    \E l \in LeasesOf(j), k \in Keys, d \in Digests :
        Submit("job.complete", OwnedLease(l, w), 0, k, d)

-----------------------------------------------------------------------------
(***************************************************************************)
(* Transactions                                                            *)
(***************************************************************************)

\* _append_audit_event, in the transaction of the change it records.
Audited(r) ==
    /\ audit[r.lease.job][r.op] < MaxAudit
    /\ audit' = [audit EXCEPT ![r.lease.job][r.op] = @ + 1]

AppendLeaseEvent(r, type, token, attempt, expires, result) ==
    events' = [events EXCEPT ![r.lease.job] = Append(@,
        [type |-> type, owner |-> r.lease.owner, token |-> token,
         attempt |-> attempt, at |-> r.now, expires |-> expires,
         result |-> result])]

Begin(r, op) ==
    /\ r \in pending
    /\ r.op = op
    /\ pending' = pending \ {r}
    /\ UNCHANGED clock

Register(r) ==
    /\ Begin(r, "job.register")
    /\ LET j == r.lease.job IN
       \/ /\ jobs[j].state = "absent"
          /\ jobs' = [jobs EXCEPT ![j] =
                        [NoRow EXCEPT !.state = "queued", !.payload = r.digest]]
       \/ /\ jobs[j].state # "absent"          \* replay of the same registration
          /\ jobs[j].payload = r.digest
          /\ UNCHANGED jobs
    /\ Audited(r)
    /\ UNCHANGED events

\* The holder asks again: the stored lease is returned, nothing but audit changes.
ReplayAcquire(r) ==
    /\ Begin(r, "job.acquire")
    /\ Held(jobs[r.lease.job], r.now)
    /\ jobs[r.lease.job].owner = r.lease.owner
    /\ Audited(r)
    /\ UNCHANGED <<jobs, events>>

TokenReused(row) == IF row.token = 0 THEN 1 ELSE row.token

NextToken(row) == row.token + 1

GrantedSameAttempt(row, r) ==
    [row EXCEPT !.state = "leased", !.owner = r.lease.owner, !.token = NextToken(row),
                !.expires = r.now + r.ttl]

GrantedBackwards(row, r) ==
    [row EXCEPT !.state = "leased", !.owner = r.lease.owner, !.token = NextToken(row),
                !.attempt = row.attempt + 1, !.expires = r.now - r.ttl]

Granted(row, r) ==
    [row EXCEPT !.state = "leased", !.owner = r.lease.owner, !.token = NextToken(row),
                !.attempt = row.attempt + 1, !.expires = r.now + r.ttl]

Acquire(r) ==
    LET j == r.lease.job
        row == jobs[j]
    IN /\ Begin(r, "job.acquire")
       /\ row.state \in {"queued", "leased"}
       /\ ~Held(row, r.now)
       /\ CapacityFree(r.now)
       /\ jobs' = [jobs EXCEPT ![j] = Granted(row, r)]
       /\ AppendLeaseEvent(r, IF NextToken(row) = 1 THEN "acquired" ELSE "reacquired",
                           NextToken(row), row.attempt + 1, r.now + r.ttl, None)
       /\ Audited(r)

Heartbeat(r) ==
    LET j == r.lease.job
        row == jobs[j]
    IN /\ Begin(r, "job.heartbeat")
       /\ RequireCurrentLease(row, r.lease, r.now)
       /\ jobs' = [jobs EXCEPT ![j] = [row EXCEPT !.expires = r.now + r.ttl]]
       /\ AppendLeaseEvent(r, "heartbeat", r.lease.token, r.lease.attempt, r.now + r.ttl,
                           None)
       /\ Audited(r)

\* The completing lease repeats the exact completion: it is told the stored one.
ReplayComplete(r) ==
    LET row == jobs[r.lease.job]
    IN /\ Begin(r, "job.complete")
       /\ row.state = "completed"
       /\ row.owner = r.lease.owner
       /\ row.token = r.lease.token
       /\ row.attempt = r.lease.attempt
       /\ row.key = r.key
       /\ row.result = r.digest
       /\ Audited(r)
       /\ UNCHANGED <<jobs, events>>

Complete(r) ==
    LET j == r.lease.job
        row == jobs[j]
    IN /\ Begin(r, "job.complete")
       /\ row.state # "completed"
       /\ RequireCurrentLease(row, r.lease, r.now)
       /\ jobs' = [jobs EXCEPT ![j] =
                     [row EXCEPT !.state = "completed", !.key = r.key,
                                 !.result = r.digest]]
       /\ AppendLeaseEvent(r, "completed", r.lease.token, r.lease.attempt, 0, r.digest)
       /\ Audited(r)

\* Any exception (a refused request, a lock timeout, a killed process) rolls the
\* whole transaction back.
Rollback(r) ==
    /\ r \in pending
    /\ pending' = pending \ {r}
    /\ UNCHANGED <<clock, tables>>

\* Between its clock read and its transaction a request waits for the database lock
\* (busy_timeout) and for its thread; MaxDelay bounds that wait.
Tick ==
    /\ clock < MaxClock
    /\ \A r \in pending : clock + 1 <= r.now + MaxDelay
    /\ clock' = clock + 1
    /\ UNCHANGED <<pending, tables>>

-----------------------------------------------------------------------------
Init ==
    /\ clock = 0
    /\ pending = {}
    /\ jobs = [j \in Jobs |-> NoRow]
    /\ events = [j \in Jobs |-> <<>>]
    /\ audit = [j \in Jobs |-> [op \in Ops |-> 0]]

Requests ==
    \E j \in Jobs, w \in Workers :
        \/ RequestRegister(j, w)
        \/ RequestAcquire(j, w)
        \/ RequestHeartbeat(j, w)
        \/ RequestComplete(j, w)

Transactions ==
    \E r \in pending :
        \/ Register(r)
        \/ ReplayAcquire(r)
        \/ Acquire(r)
        \/ Heartbeat(r)
        \/ ReplayComplete(r)
        \/ Complete(r)
        \/ Rollback(r)

Next == Tick \/ Requests \/ Transactions

Spec == Init /\ [][Next]_vars

-----------------------------------------------------------------------------
(***************************************************************************)
(* Properties                                                              *)
(***************************************************************************)

\* Every variable stays in the set its table or Python type admits.
TypeOK ==
    /\ clock \in Nat
    /\ pending \in SUBSET Request
    /\ jobs \in [Jobs -> Row]
    /\ events \in [Jobs -> Seq(LeaseEvent)]
    /\ audit \in [Jobs -> [Ops -> Nat]]

\* The mutable row is only a cache of the append-only log: a job with no lease event
\* has never been leased, and otherwise the row repeats the newest event's owner,
\* token, attempt, expiry and result.
LogMatchesRow ==
    \A j \in Jobs :
        LET log == events[j]
            n == Len(log)
            row == jobs[j]
        IN /\ row.state \in {"absent", "queued"} <=> n = 0
           /\ n = 0 => row.token = 0 /\ row.attempt = 0 /\ row.owner = None
           /\ row.state # "completed" => row.result = None
           /\ n > 0 => /\ row.owner = log[n].owner
                       /\ row.token = log[n].token
                       /\ row.attempt = log[n].attempt
                       /\ row.state = "completed" <=> log[n].type = "completed"
                       /\ row.state = "leased" => row.expires = log[n].expires
                       /\ row.result = log[n].result

\* Fencing as the log records it: the first event is the first grant, every further
\* grant takes the next token, every other event belongs to the grant before it,
\* under that grant's owner and token, and nothing follows the completion.
FencedLog ==
    \A j \in Jobs : \A i \in DOMAIN events[j] :
        LET e == events[j][i]
            before == events[j][i - 1]
        IN /\ e.attempt = e.token /\ e.token > 0
           /\ i = 1 => e.type = "acquired" /\ e.token = 1
           /\ i > 1 => /\ before.type # "completed"
                       /\ IF e.type \in Grants
                          THEN e.type = "reacquired" /\ e.token = before.token + 1
                          ELSE e.token = before.token /\ e.owner = before.owner

\* By the times it records, the log never shows two overlapping leases of a job: a
\* job is granted again only at or after the recorded expiry, and extended or
\* completed only before it, however stale the clocks the requests carried.
LogShowsNoOverlap ==
    \A j \in Jobs : \A i \in 2..Len(events[j]) :
        LET before == events[j][i - 1]
            e == events[j][i]
        IN IF e.type \in Grants THEN before.expires <= e.at ELSE e.at < before.expires

\* The append-only log is a sound account of who held a job when: grants are fenced by
\* their tokens, and the leases it records never overlap.
LogOrdersLeases == FencedLog /\ LogShowsNoOverlap

\* ADR 0003: "At most three unexpired active leases may exist."  Measured at the
\* real time, not at the time some request read.
ActiveLeaseCap == Cardinality(ActiveAt(clock)) <= MaxActive

\* The lease that held job j, over by less than the wait of a request, runs again.
Revived(j) ==
    /\ jobs[j].state = "leased" /\ jobs[j].expires <= clock
    /\ jobs'[j].state = "leased" /\ jobs'[j].expires > clock
    /\ jobs'[j].token = jobs[j].token
    /\ clock < jobs[j].expires + MaxDelay

\* What is left of that bound: the capacity test of an acquisition is never deceived by
\* its own clock value or by others'; the number of unexpired leases grows past the cap
\* only in a step that revives a lease which had just expired.
CapExceededOnlyByRevival ==
    [][Cardinality(ActiveAt(clock)') <= MaxActive
       \/ Cardinality(ActiveAt(clock)') <= Cardinality(ActiveAt(clock))
       \/ \E j \in Jobs : Revived(j)]_vars

\* The places of a log that hold an event of the given types.
OfType(log, types) == {i \in DOMAIN log : log[i].type \in types}

\* Accepted mutations and their audit events are atomic: every registration and
\* every lease event has an accepted audit row of its own.
AuditCoversEvents ==
    \A j \in Jobs :
        /\ jobs[j].state # "absent" => audit[j]["job.register"] > 0
        /\ Cardinality(OfType(events[j], Grants)) <= audit[j]["job.acquire"]
        /\ Cardinality(OfType(events[j], {"heartbeat"})) = audit[j]["job.heartbeat"]
        /\ Cardinality(OfType(events[j], {"completed"})) <= audit[j]["job.complete"]

\* The three tables a mutation writes agree, because it writes them in one transaction:
\* the row with the log, and both with the audit trail.
TablesAgree == LogMatchesRow /\ AuditCoversEvents

\* A completed job is immutable: no later request, whatever lease and clock value
\* it carries, changes the row or the log.
CompletionImmutable ==
    [][\A j \in Jobs : jobs[j].state = "completed" =>
            jobs'[j] = jobs[j] /\ events'[j] = events[j]]_vars

\* A lease is taken over only once it has really expired: requests that carry an
\* old clock value err on the side of the holder.
SupersedeOnlyExpired ==
    [][\A j \in Jobs : (jobs'[j].token # jobs[j].token /\ jobs[j].state = "leased") =>
            jobs[j].expires <= clock]_vars

LastEvent(j) == events[j][Len(events[j])]

\* docs/ARCHITECTURE.md: "Expired or superseded leases cannot publish results."
\* Measured, like ActiveLeaseCap, at the real time.
ExpiredCannotPublish ==
    [][\A j \in Jobs : (jobs'[j].state = "completed" /\ jobs[j].state # "completed") =>
            /\ clock < jobs[j].expires
            /\ LastEvent(j)'.token = jobs[j].token]_vars

\* What complete keeps of that sentence: a superseded lease publishes nothing, and an
\* expired one only as long after its expiry as a request waits for the lock.
CompletionWithinDelay ==
    [][\A j \in Jobs : (jobs'[j].state = "completed" /\ jobs[j].state # "completed") =>
            /\ clock < jobs[j].expires + MaxDelay
            /\ events'[j][Len(events'[j])].token = jobs[j].token]_vars

\* What a lease's expiry means although requests judge it by clock values they read
\* before they got the database lock: nobody loses a job early, and nobody publishes
\* under a lease that is over by more than that wait.
LeaseTimesRespected == SupersedeOnlyExpired /\ CompletionWithinDelay

\* The result a job has published, as its log shows it.
PublishedBy(j) ==
    IF events[j] # <<>> /\ LastEvent(j).type = "completed"
    THEN [owner |-> LastEvent(j).owner, token |-> LastEvent(j).token,
          result |-> LastEvent(j).result]
    ELSE None

Fenced == INSTANCE FencedJobs WITH
    token <- [j \in Jobs |-> jobs[j].token],
    holder <- [j \in Jobs |-> jobs[j].owner],
    published <- [j \in Jobs |-> PublishedBy(j)]

\* The store implements the fenced-job contract: tokens only grow, and the one
\* result a job publishes comes from its latest grant.
ImplementsFencedJobs == Fenced!Spec
=============================================================================
