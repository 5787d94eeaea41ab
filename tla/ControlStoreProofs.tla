------------------------- MODULE ControlStoreProofs -------------------------
(***************************************************************************)
(* What ControlStore guarantees for every set of jobs and workers, every   *)
(* lease duration and every bound.                                         *)
(***************************************************************************)
EXTENDS ControlStore, FiniteSetTheorems, TLAPS

(***************************************************************************)
(* Type correctness                                                        *)
(***************************************************************************)

\* A request enters with the clock value of that moment and nothing else changes.
LEMMA RequestsType ==
    ASSUME TypeOK, Requests
    PROVE  /\ TypeOK'
           /\ UNCHANGED <<clock, tables>>
           /\ \A r \in pending' : r \in pending \/ r.now = clock
<1>1. PICK j \in Jobs, w \in Workers :
        \/ RequestRegister(j, w) \/ RequestAcquire(j, w)
        \/ RequestHeartbeat(j, w) \/ RequestComplete(j, w)
    BY DEF Requests
<1>2. PICK op \in Ops, l \in Lease, t \in Nat, k \in Keys \cup {None}, d \in Digests \cup {None} :
        /\ Submit(op, l, t, k, d)
        /\ op \in {"job.register", "job.complete"} => d \in Digests
    <2>1. Unleased(j, w) \in Lease
        BY DEF Unleased, Lease
    <2>2. \A l \in LeasesOf(j) : OwnedLease(l, w) \in Lease
        <3> SUFFICES ASSUME NEW l \in LeasesOf(j) PROVE OwnedLease(l, w) \in Lease
            OBVIOUS
        <3>1. PICK i \in DOMAIN events[j] :
                l = [job |-> j, owner |-> events[j][i].owner,
                     token |-> events[j][i].token, attempt |-> events[j][i].attempt]
            BY DEF LeasesOf
        <3>2. events[j][i] \in LeaseEvent
            BY <3>1 DEF TypeOK
        <3> QED BY <3>1, <3>2 DEF OwnedLease, Lease, LeaseEvent
    <2>3. CASE RequestRegister(j, w)
        BY <2>1, <2>3 DEF RequestRegister, Ops
    <2>4. CASE RequestAcquire(j, w)
        BY <2>1, <2>4, BoundsAssumption DEF RequestAcquire, Ops
    <2>5. CASE RequestHeartbeat(j, w)
        BY <2>2, <2>5, BoundsAssumption DEF RequestHeartbeat, Ops
    <2>6. CASE RequestComplete(j, w)
        BY <2>2, <2>6 DEF RequestComplete, Ops
    <2> QED BY <1>1, <2>3, <2>4, <2>5, <2>6
<1> QED BY <1>2 DEF Submit, TypeOK, Request, tables

\* Every transaction keeps the tables in their types and only consumes its request.
LEMMA TransactionsType ==
    ASSUME TypeOK, NEW r \in pending,
           \/ Register(r) \/ ReplayAcquire(r) \/ Acquire(r) \/ Heartbeat(r)
           \/ ReplayComplete(r) \/ Complete(r) \/ Rollback(r)
    PROVE  /\ TypeOK'
           /\ pending' = pending \ {r}
           /\ clock' = clock
<1>1. /\ r \in Request /\ r.lease \in Lease /\ r.lease.job \in Jobs
      /\ r.lease.owner \in Workers /\ r.op \in Ops /\ r.now \in Nat /\ r.ttl \in Nat
      /\ r.key \in Keys \cup {None} /\ r.digest \in Digests \cup {None}
      /\ r.lease.token \in Nat /\ r.lease.attempt \in Nat
    BY DEF TypeOK, Request, Lease
<1>2. /\ jobs[r.lease.job] \in Row
      /\ jobs[r.lease.job].token \in Nat
      /\ jobs[r.lease.job].attempt \in Nat
    BY <1>1 DEF TypeOK, Row
<1>3. Audited(r) => audit' \in [Jobs -> [Ops -> Nat]]
    BY <1>1 DEF Audited, TypeOK
<1>4. ASSUME NEW type \in EventTypes, NEW t \in Nat, NEW a \in Nat, NEW e \in Nat,
             NEW d \in Digests \cup {None}, AppendLeaseEvent(r, type, t, a, e, d)
      PROVE  events' \in [Jobs -> Seq(LeaseEvent)]
    <2> DEFINE x == [type |-> type, owner |-> r.lease.owner, token |-> t, attempt |-> a,
                     at |-> r.now, expires |-> e, result |-> d]
    <2>1. x \in LeaseEvent
        BY <1>1 DEF LeaseEvent
    <2>2. Append(events[r.lease.job], x) \in Seq(LeaseEvent)
        BY <1>1, <2>1 DEF TypeOK
    <2> QED BY <1>1, <1>4, <2>2 DEF AppendLeaseEvent, TypeOK
<1>5. CASE Register(r)
    <2>1. [NoRow EXCEPT !.state = "queued", !.payload = r.digest] \in Row
        BY <1>1 DEF NoRow, Row
    <2>2. jobs' \in [Jobs -> Row]
        BY <1>1, <1>5, <2>1 DEF Register, TypeOK
    <2> QED BY <1>3, <1>5, <2>2 DEF Register, Begin, TypeOK
<1>6. CASE ReplayAcquire(r)
    BY <1>3, <1>6 DEF ReplayAcquire, Begin, TypeOK
<1>7. CASE Acquire(r)
    <2> DEFINE row == jobs[r.lease.job]
    <2>0. NextToken(row) \in Nat /\ row.attempt + 1 \in Nat /\ r.now + r.ttl \in Nat
        BY <1>1, <1>2 DEF NextToken
    <2>1. Granted(row, r) \in Row
        BY <1>1, <1>2, <2>0 DEF Granted, Row
    <2>2. jobs' \in [Jobs -> Row]
        BY <1>1, <1>7, <2>1 DEF Acquire, TypeOK
    <2>3. (IF NextToken(row) = 1 THEN "acquired" ELSE "reacquired") \in EventTypes
        BY DEF EventTypes
    <2>4. events' \in [Jobs -> Seq(LeaseEvent)]
        BY <1>4, <1>7, <2>0, <2>3 DEF Acquire
    <2> QED BY <1>3, <1>7, <2>2, <2>4 DEF Acquire, Begin, TypeOK
<1>8. CASE Heartbeat(r)
    <2>1. [jobs[r.lease.job] EXCEPT !.expires = r.now + r.ttl] \in Row
        BY <1>1, <1>2 DEF Row
    <2>2. jobs' \in [Jobs -> Row]
        BY <1>1, <1>8, <2>1 DEF Heartbeat, TypeOK
    <2>3. events' \in [Jobs -> Seq(LeaseEvent)]
        <3>1. r.now + r.ttl \in Nat /\ "heartbeat" \in EventTypes
            BY <1>1 DEF EventTypes
        <3> QED BY <1>1, <1>4, <1>8, <3>1 DEF Heartbeat
    <2> QED BY <1>3, <1>8, <2>2, <2>3 DEF Heartbeat, Begin, TypeOK
<1>9. CASE ReplayComplete(r)
    BY <1>3, <1>9 DEF ReplayComplete, Begin, TypeOK
<1>10. CASE Complete(r)
    <2>1. jobs' \in [Jobs -> Row]
        BY <1>1, <1>2, <1>10 DEF Complete, TypeOK, Row
    <2>3. events' \in [Jobs -> Seq(LeaseEvent)]
        BY <1>1, <1>2, <1>4, <1>10 DEF Complete, EventTypes
    <2> QED BY <1>3, <1>10, <2>1, <2>3 DEF Complete, Begin, TypeOK
<1>11. CASE Rollback(r)
    BY <1>11 DEF Rollback, TypeOK, tables
<1> QED BY <1>5, <1>6, <1>7, <1>8, <1>9, <1>10, <1>11
        DEF Register, ReplayAcquire, Acquire, Heartbeat, ReplayComplete, Complete, Rollback, Begin, tables

\* Every step, a stuttering step too, preserves the types of all rows, requests and events.
LEMMA TypeStep ==
    ASSUME TypeOK, [Next]_vars
    PROVE  TypeOK'
<1>1. CASE Tick
    BY <1>1 DEF Tick, TypeOK, tables
<1>2. CASE Requests
    BY <1>2, RequestsType
<1>3. CASE Transactions
    BY <1>3, TransactionsType DEF Transactions
<1>4. CASE UNCHANGED vars
    BY <1>4 DEF vars, TypeOK
<1> QED BY <1>1, <1>2, <1>3, <1>4 DEF Next

\* Every reachable state is well typed.
THEOREM TypeCorrect == Spec => []TypeOK
<1>1. Init => TypeOK
    <2>1. NoRow \in Row
        BY DEF NoRow, Row
    <2> QED BY <2>1 DEF Init, TypeOK, Ops
<1> QED BY <1>1, TypeStep, PTL DEF Spec

(***************************************************************************)
(* The clock values in flight                                              *)
(***************************************************************************)

\* A pending clock value is not in the future, and no older than MaxDelay.
ClockInv == \A r \in pending : r.now <= clock /\ clock <= r.now + MaxDelay

\* A request is due before its clock value is older than MaxDelay: time does not pass it by.
LEMMA ClockStep ==
    ASSUME TypeOK, ClockInv, [Next]_vars
    PROVE  ClockInv'
<1>0. MaxDelay \in Nat /\ \A r \in Request : r.now \in Nat
    BY BoundsAssumption DEF Request
<1>1. CASE Tick
    <2> SUFFICES ASSUME NEW r \in pending
                 PROVE  r.now <= clock + 1 /\ clock + 1 <= r.now + MaxDelay
        BY <1>1 DEF Tick, ClockInv
    <2> QED BY <1>0, <1>1 DEF Tick, ClockInv, TypeOK
<1>2. CASE Requests
    <2>1. /\ clock' = clock /\ pending' \in SUBSET Request
          /\ \A r \in pending' : r \in pending \/ r.now = clock
        BY <1>2, RequestsType DEF TypeOK
    <2> QED BY <1>0, <2>1 DEF ClockInv, TypeOK
<1>3. CASE Transactions
    <2>1. clock' = clock /\ pending' \subseteq pending
        BY <1>3, TransactionsType DEF Transactions
    <2> QED BY <2>1 DEF ClockInv
<1>4. CASE UNCHANGED vars
    BY <1>4 DEF vars, ClockInv
<1> QED BY <1>1, <1>2, <1>3, <1>4 DEF Next

\* In every reachable state the clock values carried into transactions are bounded by MaxDelay.
LEMMA ClockInvariant == Spec => [](TypeOK /\ ClockInv)
<1>1. Init => ClockInv
    BY DEF Init, ClockInv
<1> QED BY <1>1, TypeCorrect, ClockStep, PTL DEF Spec

(***************************************************************************)
(* The cap on active leases                                                *)
(***************************************************************************)

\* An acquisition counts at least the leases that are unexpired now, because its clock
\* value is not in the future: with the one it grants they fit under the cap.
LEMMA AcquireRespectsCap ==
    ASSUME TypeOK, ClockInv, NEW r \in pending, Acquire(r)
    PROVE  Cardinality(ActiveAt(clock)') <= MaxActive
<1> DEFINE j == r.lease.job
           A == ActiveAt(r.now)
<1>1. IsFiniteSet(A) /\ Cardinality(A) \in Nat
    BY JobsAssumption, FS_Subset, FS_CardinalityType DEF ActiveAt
<1>2. /\ r.now \in Nat /\ clock \in Nat /\ j \in Jobs /\ r.now <= clock
      /\ \A i \in Jobs : jobs[i].expires \in Nat
    BY DEF TypeOK, Request, Lease, ClockInv, Row
<1>3. \A i \in Jobs : i # j => jobs'[i] = jobs[i]
    BY <1>2 DEF Acquire, TypeOK
<1>4. ActiveAt(clock)' \subseteq A \cup {j}
    BY <1>2, <1>3 DEF ActiveAt, Acquire, Begin
<1>5. Cardinality(A) < MaxActive
    BY DEF Acquire, CapacityFree
<1> HIDE DEF A, j
<1>6. /\ IsFiniteSet(A \cup {j})
      /\ Cardinality(A \cup {j}) = IF j \in A THEN Cardinality(A) ELSE Cardinality(A) + 1
    BY <1>1, FS_AddElement
<1>7. Cardinality(A \cup {j}) <= MaxActive /\ Cardinality(A \cup {j}) \in Nat
    BY <1>1, <1>5, <1>6, BoundsAssumption
<1>8. /\ Cardinality(ActiveAt(clock)') <= Cardinality(A \cup {j})
      /\ Cardinality(ActiveAt(clock)') \in Nat
    BY <1>4, <1>6, FS_Subset, FS_CardinalityType
<1> QED BY <1>7, <1>8, BoundsAssumption

\* A heartbeat whose lease is unexpired now makes nothing active that was not.
LEMMA HeartbeatActivates ==
    ASSUME TypeOK, ClockInv, NEW r \in pending, Heartbeat(r)
    PROVE  ActiveAt(clock)' \subseteq ActiveAt(clock) \/ Revived(r.lease.job)
<1> DEFINE j == r.lease.job
<1>1. /\ r.now \in Nat /\ r.ttl \in Nat /\ clock \in Nat /\ j \in Jobs
      /\ clock <= r.now + MaxDelay /\ MaxDelay \in Nat
      /\ \A i \in Jobs : jobs[i] \in Row /\ jobs[i].expires \in Nat
    BY BoundsAssumption DEF TypeOK, Request, Lease, ClockInv, Row
<1>2. /\ clock' = clock /\ jobs[j].state = "leased" /\ r.now < jobs[j].expires
      /\ jobs' = [jobs EXCEPT ![j] = [jobs[j] EXCEPT !.expires = r.now + r.ttl]]
    BY <1>1 DEF Heartbeat, RequireCurrentLease, Begin
<1>3. /\ jobs'[j].state = "leased" /\ jobs'[j].token = jobs[j].token
      /\ \A i \in Jobs : i # j => jobs'[i] = jobs[i]
    BY <1>1, <1>2 DEF TypeOK, Row
<1>4. CASE jobs[j].expires > clock \/ ~(jobs'[j].expires > clock)
    BY <1>1, <1>2, <1>3, <1>4 DEF ActiveAt
<1>5. CASE jobs[j].expires <= clock /\ jobs'[j].expires > clock
    <2>1. clock < jobs[j].expires + MaxDelay
        BY <1>1, <1>2
    <2> QED BY <1>2, <1>3, <1>5, <2>1 DEF Revived
<1> QED BY <1>1, <1>4, <1>5

\* The four kinds of step: an acquisition, a revival, or one that activates nothing.
LEMMA StepActivates ==
    ASSUME TypeOK, ClockInv, [Next]_vars
    PROVE  \/ Cardinality(ActiveAt(clock)') <= MaxActive
           \/ ActiveAt(clock)' \subseteq ActiveAt(clock)
           \/ \E j \in Jobs : Revived(j)
<1>1. CASE Tick
    <2>1. \A i \in Jobs : jobs[i].expires \in Nat
        BY DEF TypeOK, Row
    <2> QED BY <1>1, <2>1 DEF Tick, ActiveAt, TypeOK, tables
<1>2. CASE Requests
    BY <1>2, RequestsType DEF ActiveAt, tables
<1>3. CASE Transactions
    <2>1. PICK r \in pending :
            \/ Register(r) \/ ReplayAcquire(r) \/ Acquire(r) \/ Heartbeat(r)
            \/ ReplayComplete(r) \/ Complete(r) \/ Rollback(r)
        BY <1>3 DEF Transactions
    <2>2. /\ r.lease.job \in Jobs /\ r.now \in Nat /\ clock' = clock /\ clock \in Nat
          /\ \A i \in Jobs : jobs[i].expires \in Nat
        BY <2>1, TransactionsType DEF TypeOK, Request, Lease, Row
    <2>3. CASE Register(r)
        BY <2>2, <2>3 DEF Register, ActiveAt, TypeOK, NoRow
    <2>4. CASE Heartbeat(r)
        BY <2>2, <2>4, HeartbeatActivates
    <2>5. CASE Complete(r)
        BY <2>2, <2>5 DEF Complete, ActiveAt, TypeOK
    <2>6. CASE ReplayAcquire(r) \/ ReplayComplete(r) \/ Rollback(r)
        BY <2>2, <2>6 DEF ReplayAcquire, ReplayComplete, Rollback, ActiveAt, tables
    <2>7. CASE Acquire(r)
        BY <2>7, AcquireRespectsCap
    <2> QED BY <2>1, <2>3, <2>4, <2>5, <2>6, <2>7
<1>4. CASE UNCHANGED vars
    BY <1>4 DEF vars, ActiveAt
<1> QED BY <1>1, <1>2, <1>3, <1>4 DEF Next

\* For any delay of any request, the number of unexpired leases grows past MaxActive
\* only when a heartbeat with an old clock value revives a lease that expired less than
\* MaxDelay ago: acquisitions alone keep the cap, and no other step endangers it.
THEOREM CapExceededOnlyByHeartbeat == Spec => CapExceededOnlyByRevival
<1>1. ASSUME TypeOK, ClockInv, [Next]_vars
      PROVE  \/ Cardinality(ActiveAt(clock)') <= MaxActive
             \/ Cardinality(ActiveAt(clock)') <= Cardinality(ActiveAt(clock))
             \/ \E j \in Jobs : Revived(j)
    <2>1. CASE ActiveAt(clock)' \subseteq ActiveAt(clock)
        <3>1. IsFiniteSet(ActiveAt(clock))
            BY JobsAssumption, FS_Subset DEF ActiveAt
        <3> QED BY <2>1, <3>1, FS_Subset
    <2> QED BY <1>1, <2>1, StepActivates
<1>2. TypeOK /\ ClockInv /\ [Next]_vars =>
        [\/ Cardinality(ActiveAt(clock)') <= MaxActive
         \/ Cardinality(ActiveAt(clock)') <= Cardinality(ActiveAt(clock))
         \/ \E j \in Jobs : Revived(j)]_vars
    BY <1>1
<1> QED BY <1>2, ClockInvariant, PTL DEF Spec, CapExceededOnlyByRevival

(***************************************************************************)
(* The log                                                                 *)
(***************************************************************************)

LogInv == LogMatchesRow /\ FencedLog /\ LogShowsNoOverlap

\* Appending an event that fits the last one, together with the row it describes,
\* preserves everything the log invariants say.
LEMMA AppendFits ==
    ASSUME TypeOK, LogInv, NEW j \in Jobs, NEW e \in LeaseEvent, NEW row \in Row,
           events' = [events EXCEPT ![j] = Append(@, e)],
           jobs' = [jobs EXCEPT ![j] = row],
           row.state \in {"leased", "completed"},
           row.owner = e.owner, row.token = e.token, row.attempt = e.attempt,
           row.state = "completed" <=> e.type = "completed",
           row.state = "leased" => row.expires = e.expires /\ row.result = None,
           row.result = e.result,
           e.attempt = e.token, e.token > 0,
           events[j] = <<>> => e.type = "acquired" /\ e.token = 1,
           events[j] # <<>> =>
              /\ LastEvent(j).type # "completed"
              /\ IF e.type \in Grants
                 THEN /\ e.type = "reacquired" /\ e.token = LastEvent(j).token + 1
                      /\ LastEvent(j).expires <= e.at
                 ELSE /\ e.token = LastEvent(j).token /\ e.owner = LastEvent(j).owner
                      /\ e.at < LastEvent(j).expires
    PROVE  LogInv'
<1> DEFINE log == events[j]
           n == Len(events[j])
<1>1. /\ log \in Seq(LeaseEvent) /\ n \in Nat
      /\ events'[j] = Append(log, e)
      /\ Len(events'[j]) = n + 1
      /\ events'[j][n + 1] = e
      /\ \A i \in 1..n : events'[j][i] = log[i]
      /\ \A i \in Jobs : i # j => events'[i] = events[i] /\ jobs'[i] = jobs[i]
      /\ jobs'[j] = row
      /\ log = <<>> <=> n = 0
    BY DEF TypeOK
<1>2. LogMatchesRow'
    <2> SUFFICES ASSUME NEW i \in Jobs PROVE LogMatchesRow!(i)'
        BY DEF LogMatchesRow
    <2>1. CASE i = j
        BY <1>1, <2>1 DEF LogMatchesRow
    <2>2. CASE i # j
        BY <1>1, <2>2 DEF LogInv, LogMatchesRow
    <2> QED BY <2>1, <2>2
<1>3. FencedLog'
    <2> SUFFICES ASSUME NEW i \in Jobs, NEW k \in DOMAIN events'[i]
                 PROVE  FencedLog!(i)!(k)'
        BY DEF FencedLog
    <2>1. CASE i # j
        BY <1>1, <2>1 DEF LogInv, FencedLog
    <2>2. CASE i = j /\ k \in 1..n
        BY <1>1, <2>2 DEF LogInv, FencedLog
    <2>3. CASE i = j /\ k = n + 1
        BY <1>1, <2>3 DEF LastEvent, Grants
    <2> QED BY <1>1, <2>1, <2>2, <2>3
<1>4. LogShowsNoOverlap'
    <2> SUFFICES ASSUME NEW i \in Jobs, NEW k \in 2..Len(events'[i])
                 PROVE  LogShowsNoOverlap!(i)!(k)'
        BY DEF LogShowsNoOverlap
    <2>1. CASE i # j
        BY <1>1, <2>1 DEF LogInv, LogShowsNoOverlap
    <2>2. CASE i = j /\ k \in 2..n
        BY <1>1, <2>2 DEF LogInv, LogShowsNoOverlap
    <2>3. CASE i = j /\ k = n + 1
        BY <1>1, <2>3 DEF LastEvent
    <2> QED BY <1>1, <2>1, <2>2, <2>3
<1> QED BY <1>2, <1>3, <1>4 DEF LogInv

\* Each transaction that appends an event appends one that fits.
LEMMA LogStep ==
    ASSUME TypeOK, LogInv, [Next]_vars
    PROVE  LogInv'
<1>1. CASE UNCHANGED <<jobs, events>>
    BY <1>1 DEF LogInv, LogMatchesRow, FencedLog, LogShowsNoOverlap
<1>2. ASSUME NEW r \in pending
      PROVE  /\ r.lease.job \in Jobs /\ r.lease.owner \in Workers
             /\ r.now \in Nat /\ r.ttl \in Nat /\ r.lease.token \in Nat
             /\ r.lease.attempt \in Nat /\ r.digest \in Digests \cup {None}
             /\ r.key \in Keys \cup {None}
    BY DEF TypeOK, Request, Lease
<1>3. ASSUME NEW j \in Jobs
      PROVE  /\ jobs[j] \in Row /\ jobs[j].token \in Nat /\ jobs[j].attempt \in Nat
             /\ events[j] \in Seq(LeaseEvent) /\ Len(events[j]) \in Nat
             /\ events[j] = <<>> <=> Len(events[j]) = 0
    BY DEF TypeOK, Row
\* What the invariants say of a row and the last event of its log.
<1>4. ASSUME NEW j \in Jobs
      PROVE  /\ events[j] = <<>> => jobs[j].token = 0 /\ jobs[j].attempt = 0
             /\ events[j] = <<>> <=> jobs[j].state \in {"absent", "queued"}
             /\ jobs[j].state # "completed" => jobs[j].result = None
             /\ events[j] # <<>> =>
                   /\ LastEvent(j) \in LeaseEvent
                   /\ jobs[j].owner = LastEvent(j).owner
                   /\ jobs[j].token = LastEvent(j).token
                   /\ jobs[j].attempt = LastEvent(j).attempt
                   /\ jobs[j].state = "completed" <=> LastEvent(j).type = "completed"
                   /\ jobs[j].state = "leased" => jobs[j].expires = LastEvent(j).expires
                   /\ LastEvent(j).attempt = LastEvent(j).token
                   /\ LastEvent(j).token > 0
    <2>1. /\ events[j] = <<>> => jobs[j].token = 0 /\ jobs[j].attempt = 0
          /\ events[j] = <<>> <=> jobs[j].state \in {"absent", "queued"}
          /\ jobs[j].state # "completed" => jobs[j].result = None
        BY <1>3 DEF LogInv, LogMatchesRow
    <2>2. ASSUME events[j] # <<>>
          PROVE  /\ LastEvent(j) \in LeaseEvent
                 /\ jobs[j].owner = LastEvent(j).owner
                 /\ jobs[j].token = LastEvent(j).token
                 /\ jobs[j].attempt = LastEvent(j).attempt
                 /\ jobs[j].state = "completed" <=> LastEvent(j).type = "completed"
                 /\ jobs[j].state = "leased" => jobs[j].expires = LastEvent(j).expires
                 /\ LastEvent(j).attempt = LastEvent(j).token
                 /\ LastEvent(j).token > 0
        <3>1. Len(events[j]) \in DOMAIN events[j] /\ Len(events[j]) > 0
            BY <1>3, <2>2
        <3> QED BY <1>3, <3>1 DEF LogInv, LogMatchesRow, FencedLog, LastEvent
    <2> QED BY <2>1, <2>2
<1>5. ASSUME NEW r \in pending, Register(r)
      PROVE  LogInv'
    <2>1. CASE UNCHANGED jobs
        BY <1>1, <1>5, <2>1 DEF Register
    <2>2. CASE jobs[r.lease.job].state = "absent"
        <3> DEFINE row == [NoRow EXCEPT !.state = "queued", !.payload = r.digest]
        <3>1. /\ UNCHANGED events
              /\ jobs' = [jobs EXCEPT ![r.lease.job] = row]
            BY <1>5, <2>2 DEF Register
        <3>2. row.state = "queued" /\ row.token = 0 /\ row.attempt = 0 /\ row.owner = None
              /\ row.result = None
            BY DEF NoRow
        <3>3. events[r.lease.job] = <<>>
            BY <1>2, <1>4, <2>2
        <3> HIDE DEF row
        <3>4. LogMatchesRow'
            BY <1>2, <1>3, <3>1, <3>2, <3>3 DEF LogInv, LogMatchesRow, TypeOK
        <3> QED BY <3>1, <3>4 DEF LogInv, FencedLog, LogShowsNoOverlap
    <2> QED BY <1>5, <2>1, <2>2 DEF Register
<1>6. ASSUME NEW r \in pending, Acquire(r)
      PROVE  LogInv'
    <2> DEFINE j == r.lease.job
               row == jobs[j]
               e == [type |-> IF NextToken(row) = 1 THEN "acquired" ELSE "reacquired",
                     owner |-> r.lease.owner, token |-> NextToken(row),
                     attempt |-> row.attempt + 1, at |-> r.now,
                     expires |-> r.now + r.ttl, result |-> None]
    <2>1. /\ j \in Jobs /\ NextToken(row) = row.token + 1 /\ NextToken(row) \in Nat
          /\ row.attempt + 1 \in Nat /\ r.now + r.ttl \in Nat
          /\ row.state \in {"queued", "leased"} /\ row \in Row /\ r.lease.owner \in Workers
        <3>1. j \in Jobs /\ r.now \in Nat /\ r.ttl \in Nat /\ r.lease.owner \in Workers
            BY <1>2
        <3>2. row \in Row /\ row.token \in Nat /\ row.attempt \in Nat
            BY <1>3, <3>1
        <3>3. row.state \in {"queued", "leased"}
            BY <1>6 DEF Acquire
        <3> QED BY <3>1, <3>2, <3>3 DEF NextToken
    <2>2. e \in LeaseEvent
        BY <1>2, <2>1 DEF LeaseEvent, EventTypes
    <2>3. Granted(row, r) \in Row
        <3> HIDE DEF row
        <3> QED BY <2>1 DEF Granted, Row
    <2>4. events' = [events EXCEPT ![j] = Append(@, e)]
          /\ jobs' = [jobs EXCEPT ![j] = Granted(row, r)]
        BY <1>6 DEF Acquire, AppendLeaseEvent
    <2>5. /\ Granted(row, r).state = "leased" /\ Granted(row, r).owner = e.owner
          /\ Granted(row, r).token = e.token /\ Granted(row, r).attempt = e.attempt
          /\ Granted(row, r).expires = e.expires /\ Granted(row, r).result = row.result
        BY <1>3, <2>1 DEF Granted, Row
    <2>6. row.result = None /\ e.result = None /\ e.at = r.now /\ e.token = row.token + 1
          /\ e.type # "completed" /\ e.type \in Grants /\ e.attempt = row.attempt + 1
        BY <1>4, <2>1 DEF Grants
    <2>7. row.token = row.attempt
        BY <1>3, <1>4, <2>1
    <2>8. events[j] = <<>> => e.type = "acquired" /\ e.token = 1
        BY <1>4, <2>1
    <2>9. ASSUME events[j] # <<>>
          PROVE  /\ LastEvent(j).type # "completed" /\ e.type = "reacquired"
                 /\ e.token = LastEvent(j).token + 1 /\ LastEvent(j).expires <= e.at
        <3>1. row.state = "leased" /\ row.token > 0 /\ row.expires = LastEvent(j).expires
            BY <1>4, <2>1, <2>9
        <3>2. row.expires \in Nat /\ ~(row.expires > r.now)
            BY <1>3, <1>6, <2>1, <3>1 DEF Acquire, Held, Row
        <3> QED BY <1>2, <1>3, <1>4, <2>1, <2>6, <2>9, <3>1, <3>2
    <2>10. e.attempt = e.token /\ e.token > 0
        BY <1>3, <2>1, <2>6, <2>7
    <2> HIDE DEF e, row
    <2> QED BY <2>1, <2>2, <2>3, <2>4, <2>5, <2>6, <2>8, <2>9, <2>10, AppendFits
<1>7. ASSUME NEW r \in pending, Heartbeat(r)
      PROVE  LogInv'
    <2> DEFINE j == r.lease.job
               row == jobs[j]
               new == [row EXCEPT !.expires = r.now + r.ttl]
               e == [type |-> "heartbeat", owner |-> r.lease.owner, token |-> r.lease.token,
                     attempt |-> r.lease.attempt, at |-> r.now,
                     expires |-> r.now + r.ttl, result |-> None]
    <2>1. /\ j \in Jobs /\ row.state = "leased" /\ row.owner = r.lease.owner
          /\ row.token = r.lease.token /\ row.attempt = r.lease.attempt
          /\ row.expires > r.now /\ r.now + r.ttl \in Nat /\ row \in Row
        BY <1>2, <1>3, <1>7 DEF Heartbeat, RequireCurrentLease
    <2>2. e \in LeaseEvent
        BY <1>2, <2>1 DEF LeaseEvent, EventTypes
    <2>3. /\ new \in Row /\ new.state = "leased" /\ new.owner = e.owner /\ new.token = e.token
          /\ new.attempt = e.attempt /\ new.expires = e.expires /\ new.result = row.result
        BY <2>1 DEF Row
    <2>4. /\ events' = [events EXCEPT ![j] = Append(@, e)]
          /\ jobs' = [jobs EXCEPT ![j] = new]
        BY <1>7 DEF Heartbeat, AppendLeaseEvent
    <2>5. /\ events[j] # <<>> /\ row.result = None /\ e.result = None
          /\ LastEvent(j).type # "completed" /\ e.token = LastEvent(j).token
          /\ e.owner = LastEvent(j).owner /\ e.at < LastEvent(j).expires
          /\ e.attempt = e.token /\ e.token > 0
          /\ e.type \notin Grants /\ e.type # "completed"
        BY <1>4, <2>1 DEF Grants
    <2> HIDE DEF e, new, row
    <2> QED BY <2>1, <2>2, <2>3, <2>4, <2>5, AppendFits
<1>8. ASSUME NEW r \in pending, Complete(r)
      PROVE  LogInv'
    <2> DEFINE j == r.lease.job
               row == jobs[j]
               new == [row EXCEPT !.state = "completed", !.key = r.key, !.result = r.digest]
               e == [type |-> "completed", owner |-> r.lease.owner, token |-> r.lease.token,
                     attempt |-> r.lease.attempt, at |-> r.now,
                     expires |-> 0, result |-> r.digest]
    <2>1. /\ j \in Jobs /\ row.state = "leased" /\ row.owner = r.lease.owner
          /\ row.token = r.lease.token /\ row.attempt = r.lease.attempt
          /\ row.expires > r.now /\ row \in Row
        BY <1>2, <1>3, <1>8 DEF Complete, RequireCurrentLease
    <2>2. e \in LeaseEvent
        BY <1>2 DEF LeaseEvent, EventTypes
    <2>3. /\ new \in Row /\ new.state = "completed" /\ new.owner = e.owner /\ new.token = e.token
          /\ new.attempt = e.attempt /\ new.result = e.result
        BY <1>2, <2>1 DEF Row
    <2>4. /\ events' = [events EXCEPT ![j] = Append(@, e)]
          /\ jobs' = [jobs EXCEPT ![j] = new]
        BY <1>8 DEF Complete, AppendLeaseEvent
    <2>5. /\ events[j] # <<>>
          /\ LastEvent(j).type # "completed" /\ e.token = LastEvent(j).token
          /\ e.owner = LastEvent(j).owner /\ e.at < LastEvent(j).expires
          /\ e.attempt = e.token /\ e.token > 0
          /\ e.type \notin Grants /\ e.type = "completed"
        BY <1>4, <2>1 DEF Grants
    <2> HIDE DEF e, new, row
    <2> QED BY <2>1, <2>2, <2>3, <2>4, <2>5, AppendFits
<1>9. CASE Tick \/ Requests \/ UNCHANGED vars
    BY <1>1, <1>9, RequestsType DEF Tick, vars, tables
<1>10. CASE \E r \in pending : ReplayAcquire(r) \/ ReplayComplete(r) \/ Rollback(r)
    BY <1>1, <1>10 DEF ReplayAcquire, ReplayComplete, Rollback, tables
<1> QED BY <1>5, <1>6, <1>7, <1>8, <1>9, <1>10 DEF Next, Transactions

\* The log invariants hold in every reachable state: the rows cache the log, tokens
\* fence, and the recorded leases of a job never overlap.
THEOREM LogCorrect == Spec => [](LogMatchesRow /\ LogOrdersLeases)
<1>1. Init => LogInv
    BY DEF Init, LogInv, LogMatchesRow, FencedLog, LogShowsNoOverlap, NoRow
<1>2. TypeOK /\ LogInv /\ [Next]_vars => LogInv'
    BY LogStep
<1>3. LogInv => LogMatchesRow /\ LogOrdersLeases
    BY DEF LogInv, LogOrdersLeases
<1> QED BY <1>1, <1>2, <1>3, TypeCorrect, PTL DEF Spec

(***************************************************************************)
(* The audit trail                                                         *)
(***************************************************************************)

\* The positions of a log are finitely many.
LEMMA PositionsFinite ==
    ASSUME NEW k \in Nat
    PROVE  IsFiniteSet(1..k)
<1>1. 1 \in Int /\ k \in Int
    OBVIOUS
<1> QED BY <1>1, FS_Interval

\* Appending an event to a log adds one to the count of its type and nothing to the
\* counts of the others.
LEMMA CountAppend ==
    ASSUME NEW log \in Seq(LeaseEvent), NEW e \in LeaseEvent, NEW types
    PROVE  /\ Cardinality(OfType(log, types)) \in Nat
           /\ Cardinality(OfType(Append(log, e), types)) =
                IF e.type \in types THEN Cardinality(OfType(log, types)) + 1
                                    ELSE Cardinality(OfType(log, types))
<1> DEFINE n == Len(log) + 1
<1>1. /\ Append(log, e) \in Seq(LeaseEvent) /\ DOMAIN Append(log, e) = 1..n
      /\ Append(log, e)[n] = e /\ DOMAIN log = 1..Len(log) /\ Len(log) \in Nat
      /\ \A i \in 1..Len(log) : Append(log, e)[i] = log[i]
    OBVIOUS
<1>2. IsFiniteSet(OfType(log, types)) /\ n \notin OfType(log, types)
    <2>a. Len(log) \in Nat
        BY <1>1
    <2>1. IsFiniteSet(1..Len(log))
        BY <2>a, PositionsFinite
    <2>2. OfType(log, types) \subseteq 1..Len(log)
        BY <1>1 DEF OfType
    <2> QED BY <1>1, <2>1, <2>2, FS_Subset
<1>3. OfType(Append(log, e), types) =
        IF e.type \in types THEN OfType(log, types) \cup {n} ELSE OfType(log, types)
    BY <1>1 DEF OfType
<1>4. Cardinality(OfType(log, types)) \in Nat
    BY <1>2, FS_CardinalityType
<1>5. Cardinality(OfType(log, types) \cup {n}) = Cardinality(OfType(log, types)) + 1
    <2> HIDE DEF n
    <2> QED BY <1>2, FS_AddElement
<1> QED BY <1>3, <1>4, <1>5

\* A transaction that logs an event of some type audits the operation that logs it.
LEMMA AuditedEvent ==
    ASSUME TypeOK, AuditCoversEvents, NEW r \in pending, NEW e \in LeaseEvent,
           Audited(r), jobs[r.lease.job].state # "absent",
           \A j \in Jobs : j # r.lease.job => jobs'[j] = jobs[j],
           events' = [events EXCEPT ![r.lease.job] = Append(@, e)],
           e.type \in Grants <=> r.op = "job.acquire",
           e.type = "heartbeat" <=> r.op = "job.heartbeat",
           e.type = "completed" <=> r.op = "job.complete"
    PROVE  AuditCoversEvents'
<1> DEFINE j == r.lease.job
<1>1. /\ j \in Jobs /\ r.op \in Ops /\ events[j] \in Seq(LeaseEvent)
      /\ audit \in [Jobs -> [Ops -> Nat]]
    BY DEF TypeOK, Request, Lease
<1>2. audit'[j] = [audit[j] EXCEPT ![r.op] = @ + 1] /\ events'[j] = Append(events[j], e)
    BY <1>1 DEF Audited, TypeOK
<1>3. /\ audit[j] \in [Ops -> Nat] /\ audit[j]["job.register"] > 0
      /\ Cardinality(OfType(events[j], Grants)) <= audit[j]["job.acquire"]
      /\ Cardinality(OfType(events[j], {"heartbeat"})) = audit[j]["job.heartbeat"]
      /\ Cardinality(OfType(events[j], {"completed"})) <= audit[j]["job.complete"]
    BY <1>1 DEF AuditCoversEvents
<1>4. \A op \in Ops : audit'[j][op] = IF op = r.op THEN audit[j][op] + 1 ELSE audit[j][op]
    BY <1>2, <1>3
<1>5. "job.register" \in Ops /\ "job.acquire" \in Ops /\ "job.heartbeat" \in Ops
      /\ "job.complete" \in Ops
    BY DEF Ops
<1>6. audit'[j]["job.register"] > 0
    BY <1>3, <1>4, <1>5
<1> DEFINE Count(types) == Cardinality(OfType(events[j], types))
           NewCount(types) == Cardinality(OfType(events'[j], types))
<1>7. ASSUME NEW types
      PROVE  /\ Count(types) \in Nat
             /\ NewCount(types) = IF e.type \in types THEN Count(types) + 1 ELSE Count(types)
    BY <1>1, <1>2, CountAppend
<1>8. NewCount(Grants) <= audit'[j]["job.acquire"]
    <2>1. /\ Count(Grants) \in Nat
          /\ NewCount(Grants) = IF e.type \in Grants THEN Count(Grants) + 1 ELSE Count(Grants)
        BY <1>7
    <2> HIDE DEF Count, NewCount
    <2>2. Count(Grants) <= audit[j]["job.acquire"] /\ audit[j]["job.acquire"] \in Nat
        BY <1>3, <1>5 DEF Count
    <2> QED BY <1>4, <1>5, <2>1, <2>2
<1>9. NewCount({"heartbeat"}) = audit'[j]["job.heartbeat"]
    <2>1. /\ Count({"heartbeat"}) \in Nat
          /\ NewCount({"heartbeat"}) = IF e.type = "heartbeat" THEN Count({"heartbeat"}) + 1
                                                              ELSE Count({"heartbeat"})
        BY <1>7
    <2> HIDE DEF Count, NewCount
    <2>2. Count({"heartbeat"}) = audit[j]["job.heartbeat"]
        BY <1>3 DEF Count
    <2> QED BY <1>4, <1>5, <2>1, <2>2
<1>10. NewCount({"completed"}) <= audit'[j]["job.complete"]
    <2>1. /\ Count({"completed"}) \in Nat
          /\ NewCount({"completed"}) = IF e.type = "completed" THEN Count({"completed"}) + 1
                                                              ELSE Count({"completed"})
        BY <1>7
    <2> HIDE DEF Count, NewCount
    <2>2. Count({"completed"}) <= audit[j]["job.complete"] /\ audit[j]["job.complete"] \in Nat
        BY <1>3, <1>5 DEF Count
    <2> QED BY <1>4, <1>5, <2>1, <2>2
<1>11. \A k \in Jobs : k # j => audit'[k] = audit[k] /\ events'[k] = events[k]
    BY <1>1 DEF Audited, TypeOK
<1> QED BY <1>1, <1>6, <1>8, <1>9, <1>10, <1>11 DEF AuditCoversEvents

\* A transaction that logs nothing only adds to the audit trail, and never a heartbeat.
LEMMA AuditedOnly ==
    ASSUME TypeOK, AuditCoversEvents, NEW r \in pending, Audited(r), UNCHANGED events,
           r.op # "job.heartbeat",
           \A j \in Jobs : j # r.lease.job => jobs'[j] = jobs[j],
           \/ r.op = "job.register"
           \/ jobs'[r.lease.job] = jobs[r.lease.job]
    PROVE  AuditCoversEvents'
<1> SUFFICES ASSUME NEW j \in Jobs
             PROVE  /\ jobs'[j].state # "absent" => audit'[j]["job.register"] > 0
                    /\ Cardinality(OfType(events[j], Grants)) <= audit'[j]["job.acquire"]
                    /\ Cardinality(OfType(events[j], {"heartbeat"})) =
                          audit'[j]["job.heartbeat"]
                    /\ Cardinality(OfType(events[j], {"completed"})) <=
                          audit'[j]["job.complete"]
    BY DEF AuditCoversEvents
<1>1. r.lease.job \in Jobs /\ r.op \in Ops /\ audit \in [Jobs -> [Ops -> Nat]]
    BY DEF TypeOK, Request, Lease
<1>2. audit[j] \in [Ops -> Nat]
    BY <1>1
<1>3. \A op \in Ops : audit'[j][op] =
        IF j = r.lease.job /\ op = r.op THEN audit[j][op] + 1 ELSE audit[j][op]
    BY <1>1, <1>2 DEF Audited
<1>4. /\ jobs[j].state # "absent" => audit[j]["job.register"] > 0
      /\ Cardinality(OfType(events[j], Grants)) <= audit[j]["job.acquire"]
      /\ Cardinality(OfType(events[j], {"heartbeat"})) = audit[j]["job.heartbeat"]
      /\ Cardinality(OfType(events[j], {"completed"})) <= audit[j]["job.complete"]
    BY DEF AuditCoversEvents
<1>5. events[j] \in Seq(LeaseEvent)
    BY DEF TypeOK
<1>6. /\ Cardinality(OfType(events[j], Grants)) \in Nat
      /\ Cardinality(OfType(events[j], {"completed"})) \in Nat
    <2>1. \A types : OfType(events[j], types) \subseteq 1..Len(events[j])
        BY <1>5 DEF OfType
    <2>a. Len(events[j]) \in Nat
        BY <1>5
    <2>2. IsFiniteSet(1..Len(events[j]))
        BY <2>a, PositionsFinite
    <2> QED BY <2>1, <2>2, FS_Subset, FS_CardinalityType
<1>7. "job.register" \in Ops /\ "job.acquire" \in Ops /\ "job.heartbeat" \in Ops
      /\ "job.complete" \in Ops
    BY DEF Ops
<1>8. jobs'[j].state # "absent" => audit'[j]["job.register"] > 0
    BY <1>2, <1>3, <1>4, <1>7
<1> QED BY <1>2, <1>3, <1>4, <1>6, <1>7, <1>8

LEMMA AuditStep == TypeOK /\ AuditCoversEvents /\ [Next]_vars => AuditCoversEvents'
<1> SUFFICES ASSUME TypeOK, AuditCoversEvents, [Next]_vars PROVE AuditCoversEvents'
    OBVIOUS
<1>1. CASE UNCHANGED <<jobs, events, audit>>
    BY <1>1 DEF AuditCoversEvents
<1>2. CASE Transactions
    <2>1. PICK r \in pending :
            \/ Register(r) \/ ReplayAcquire(r) \/ Acquire(r) \/ Heartbeat(r)
            \/ ReplayComplete(r) \/ Complete(r) \/ Rollback(r)
        BY <1>2 DEF Transactions
    <2>2. r \in Request /\ r.lease.job \in Jobs
        BY DEF TypeOK, Request, Lease
    <2>3. \A j \in Jobs : j # r.lease.job => jobs'[j] = jobs[j]
        BY <2>1, <2>2
           DEF Register, ReplayAcquire, Acquire, Heartbeat, ReplayComplete, Complete,
               Rollback, tables, TypeOK
    <2>4. CASE Register(r) \/ ReplayAcquire(r) \/ ReplayComplete(r)
        BY <2>3, <2>4, AuditedOnly DEF Register, ReplayAcquire, ReplayComplete, Begin
    <2>5. CASE Acquire(r)
        <3> DEFINE e == [type |-> IF NextToken(jobs[r.lease.job]) = 1
                                  THEN "acquired" ELSE "reacquired",
                         owner |-> r.lease.owner, token |-> NextToken(jobs[r.lease.job]),
                         attempt |-> jobs[r.lease.job].attempt + 1, at |-> r.now,
                         expires |-> r.now + r.ttl, result |-> None]
        <3>1. e \in LeaseEvent
            BY <2>2 DEF TypeOK, Row, Request, Lease, LeaseEvent, EventTypes, NextToken
        <3>2. e.type \in Grants /\ e.type # "heartbeat" /\ e.type # "completed"
            BY DEF Grants
        <3>3. /\ events' = [events EXCEPT ![r.lease.job] = Append(@, e)]
              /\ Audited(r) /\ jobs[r.lease.job].state # "absent" /\ r.op = "job.acquire"
            BY <2>5 DEF Acquire, AppendLeaseEvent, Begin
        <3> HIDE DEF e
        <3> QED BY <2>3, <3>1, <3>2, <3>3, AuditedEvent
    <2>6. CASE Heartbeat(r)
        <3> DEFINE e == [type |-> "heartbeat", owner |-> r.lease.owner,
                         token |-> r.lease.token, attempt |-> r.lease.attempt,
                         at |-> r.now, expires |-> r.now + r.ttl, result |-> None]
        <3>1. e \in LeaseEvent
            BY <2>2 DEF Request, Lease, LeaseEvent, EventTypes
        <3>2. e.type \notin Grants /\ e.type = "heartbeat" /\ e.type # "completed"
            BY DEF Grants
        <3>3. /\ events' = [events EXCEPT ![r.lease.job] = Append(@, e)]
              /\ Audited(r) /\ jobs[r.lease.job].state # "absent" /\ r.op = "job.heartbeat"
            BY <2>6 DEF Heartbeat, AppendLeaseEvent, Begin, RequireCurrentLease
        <3> HIDE DEF e
        <3> QED BY <2>3, <3>1, <3>2, <3>3, AuditedEvent
    <2>7. CASE Complete(r)
        <3> DEFINE e == [type |-> "completed", owner |-> r.lease.owner,
                         token |-> r.lease.token, attempt |-> r.lease.attempt,
                         at |-> r.now, expires |-> 0, result |-> r.digest]
        <3>1. e \in LeaseEvent
            BY <2>2 DEF Request, Lease, LeaseEvent, EventTypes
        <3>2. e.type \notin Grants /\ e.type # "heartbeat" /\ e.type = "completed"
            BY DEF Grants
        <3>3. /\ events' = [events EXCEPT ![r.lease.job] = Append(@, e)]
              /\ Audited(r) /\ jobs[r.lease.job].state # "absent" /\ r.op = "job.complete"
            BY <2>7 DEF Complete, AppendLeaseEvent, Begin, RequireCurrentLease
        <3> HIDE DEF e
        <3> QED BY <2>3, <3>1, <3>2, <3>3, AuditedEvent
    <2>8. CASE Rollback(r)
        BY <1>1, <2>8 DEF Rollback, tables
    <2> QED BY <2>1, <2>4, <2>5, <2>6, <2>7, <2>8
<1> QED BY <1>1, <1>2, RequestsType DEF Next, Tick, vars, tables

\* Row, log and audit trail of a job agree in every reachable state: no transaction
\* changes one without the others.
THEOREM TablesCorrect == Spec => []TablesAgree
<1>1. Init => AuditCoversEvents
    <2>1. \A types : OfType(<<>>, types) = {}
        BY DEF OfType
    <2>2. \A types : Cardinality(OfType(<<>>, types)) = 0
        BY <2>1, FS_EmptySet
    <2>3. "job.acquire" \in Ops /\ "job.heartbeat" \in Ops /\ "job.complete" \in Ops
        BY DEF Ops
    <2> QED BY <2>2, <2>3 DEF Init, AuditCoversEvents, NoRow
<1> QED BY <1>1, AuditStep, LogCorrect, TypeCorrect, PTL DEF Spec, TablesAgree

(***************************************************************************)
(* What a step may never do                                                *)
(***************************************************************************)

\* A transaction leaves alone every job but its own, and its own too unless it is
\* one of the four that change a row.
LEMMA RowStep ==
    ASSUME TypeOK, [Next]_vars, NEW j \in Jobs, <<jobs, events>>' # <<jobs, events>>,
           jobs'[j] # jobs[j] \/ events'[j] # events[j]
    PROVE  \E r \in pending : r.lease.job = j /\
              (\/ Register(r) /\ jobs[j].state = "absent"
               \/ Acquire(r) \/ Heartbeat(r) \/ Complete(r))
<1>1. Transactions
    BY RequestsType DEF Next, Tick, vars, tables
<1>2. PICK r \in pending :
        \/ Register(r) \/ ReplayAcquire(r) \/ Acquire(r) \/ Heartbeat(r)
        \/ ReplayComplete(r) \/ Complete(r) \/ Rollback(r)
    BY <1>1 DEF Transactions
<1>3. r.lease.job \in Jobs
    BY DEF TypeOK, Request, Lease
<1>4. Acquire(r) \/ Heartbeat(r) \/ Complete(r) \/ (Register(r) /\ jobs' # jobs)
    BY <1>2 DEF Register, ReplayAcquire, ReplayComplete, Rollback, tables
<1>5. j = r.lease.job
    BY <1>3, <1>4 DEF Acquire, Heartbeat, Complete, Register, AppendLeaseEvent, TypeOK
<1> QED BY <1>4, <1>5 DEF Register

\* A completed job never changes again.
THEOREM CompletedForever == Spec => CompletionImmutable
<1>1. ASSUME TypeOK, [Next]_vars, NEW j \in Jobs, jobs[j].state = "completed"
      PROVE  jobs'[j] = jobs[j] /\ events'[j] = events[j]
    BY <1>1, RowStep DEF Acquire, Heartbeat, Complete, RequireCurrentLease
<1>2. TypeOK /\ [Next]_vars =>
        [\A j \in Jobs : jobs[j].state = "completed" =>
            jobs'[j] = jobs[j] /\ events'[j] = events[j]]_vars
    BY <1>1
<1> QED BY <1>2, TypeCorrect, PTL DEF Spec, CompletionImmutable

\* A lease changes hands only after its real expiry.
THEOREM TakeoverAfterExpiry == Spec => SupersedeOnlyExpired
<1>1. ASSUME TypeOK, ClockInv, [Next]_vars, NEW j \in Jobs,
             jobs'[j].token # jobs[j].token, jobs[j].state = "leased"
      PROVE  jobs[j].expires <= clock
    <2>1. PICK r \in pending : r.lease.job = j /\ (Acquire(r) \/ Heartbeat(r) \/ Complete(r))
        BY <1>1, RowStep
    <2>2. ~Heartbeat(r) /\ ~Complete(r)
        <3>1. Heartbeat(r) => jobs'[j] = [jobs[j] EXCEPT !.expires = r.now + r.ttl]
            BY <1>1, <2>1 DEF Heartbeat, TypeOK
        <3>2. Complete(r) => jobs'[j] = [jobs[j] EXCEPT !.state = "completed",
                                            !.key = r.key, !.result = r.digest]
            BY <1>1, <2>1 DEF Complete, TypeOK
        <3>3. jobs[j] \in Row
            BY <1>1 DEF TypeOK
        <3> QED BY <1>1, <3>1, <3>2, <3>3 DEF Row
    <2>3. ~(jobs[j].expires > r.now)
        BY <1>1, <2>1, <2>2 DEF Acquire, Held
    <2> QED BY <1>1, <2>1, <2>3 DEF ClockInv, TypeOK, Row, Request
<1>2. TypeOK /\ ClockInv /\ [Next]_vars =>
        [\A j \in Jobs : (jobs'[j].token # jobs[j].token /\ jobs[j].state = "leased") =>
            jobs[j].expires <= clock]_vars
    BY <1>1
<1> QED BY <1>2, ClockInvariant, PTL DEF Spec, SupersedeOnlyExpired

\* A result is published under the current token, before the lease's expiry plus the
\* age of the publishing request's clock value.
THEOREM PublishedInTime == Spec => CompletionWithinDelay
<1>1. ASSUME TypeOK, ClockInv, [Next]_vars, NEW j \in Jobs,
             jobs'[j].state = "completed", jobs[j].state # "completed"
      PROVE  /\ clock < jobs[j].expires + MaxDelay
             /\ events'[j][Len(events'[j])].token = jobs[j].token
    <2>1. PICK r \in pending : r.lease.job = j /\
              (\/ Register(r) /\ jobs[j].state = "absent"
               \/ Acquire(r) \/ Heartbeat(r) \/ Complete(r))
        BY <1>1, RowStep
    <2>2. Complete(r)
        <3>1. Heartbeat(r) => jobs'[j] = [jobs[j] EXCEPT !.expires = r.now + r.ttl]
            BY <1>1, <2>1 DEF Heartbeat, TypeOK
        <3>2. Acquire(r) => jobs'[j] = Granted(jobs[j], r)
            BY <1>1, <2>1 DEF Acquire, TypeOK
        <3>3. Register(r) /\ jobs[j].state = "absent" =>
                jobs'[j] = [NoRow EXCEPT !.state = "queued", !.payload = r.digest]
            BY <1>1, <2>1 DEF Register, TypeOK
        <3>4. jobs[j] \in Row
            BY <1>1 DEF TypeOK
        <3>5. Granted(jobs[j], r).state = "leased"
            BY <3>4 DEF Granted, Row
        <3>6. [jobs[j] EXCEPT !.expires = r.now + r.ttl].state = jobs[j].state
            BY <3>4 DEF Row
        <3>7. [NoRow EXCEPT !.state = "queued", !.payload = r.digest].state = "queued"
            BY DEF NoRow
        <3> QED BY <1>1, <2>1, <3>1, <3>2, <3>3, <3>5, <3>6, <3>7
    <2>3. /\ jobs[j].expires > r.now /\ jobs[j].token = r.lease.token
          /\ clock <= r.now + MaxDelay
        BY <1>1, <2>1, <2>2 DEF Complete, RequireCurrentLease, ClockInv, Begin
    <2>4. clock < jobs[j].expires + MaxDelay
        BY <1>1, <2>1, <2>3, BoundsAssumption DEF TypeOK, Row, Request
    <2>5. events'[j][Len(events'[j])].token = r.lease.token
        BY <1>1, <2>1, <2>2 DEF Complete, AppendLeaseEvent, TypeOK
    <2> QED BY <2>3, <2>4, <2>5
<1>2. TypeOK /\ ClockInv /\ [Next]_vars =>
        [\A j \in Jobs : (jobs'[j].state = "completed" /\ jobs[j].state # "completed") =>
            /\ clock < jobs[j].expires + MaxDelay
            /\ events'[j][Len(events'[j])].token = jobs[j].token]_vars
    BY <1>1
<1> QED BY <1>2, ClockInvariant, PTL DEF Spec, CompletionWithinDelay

\* Stale clock values neither take a lease early nor stretch it by more than the wait.
THEOREM LeaseTimes == Spec => LeaseTimesRespected
<1> QED BY TakeoverAfterExpiry, PublishedInTime DEF LeaseTimesRespected

(***************************************************************************)
(* The fenced-job contract                                                 *)
(***************************************************************************)

\* Every step of the store is a step of the contract or leaves what the contract
\* speaks of unchanged: only Acquire grants, only Complete publishes.
THEOREM Refinement == Spec => ImplementsFencedJobs
<1>1. Init => Fenced!Init
    BY DEF Init, Fenced!Init, NoRow, PublishedBy
<1>2. ASSUME TypeOK, LogInv, [Next]_vars
      PROVE  [Fenced!Next]_(Fenced!fencedVars)
    <2>1. CASE UNCHANGED <<jobs, events>>
        BY <2>1 DEF Fenced!fencedVars, PublishedBy, LastEvent
    <2>2. CASE \E j \in Jobs : jobs'[j] # jobs[j] \/ events'[j] # events[j]
        <3>1. PICK j \in Jobs : jobs'[j] # jobs[j] \/ events'[j] # events[j]
            BY <2>2
        <3>2. PICK r \in pending : r.lease.job = j /\
                  (\/ Register(r) /\ jobs[j].state = "absent"
                   \/ Acquire(r) \/ Heartbeat(r) \/ Complete(r))
            BY <1>2, <3>1, RowStep
        <3>3. /\ jobs[j] \in Row /\ jobs[j].token \in Nat
              /\ events[j] \in Seq(LeaseEvent) /\ r \in Request /\ r.lease \in Lease
              /\ r.lease.owner \in Workers
            BY <1>2, <3>2 DEF TypeOK, Row, Request, Lease
        <3>4. \A i \in Jobs : i # j => jobs'[i] = jobs[i] /\ PublishedBy(i)' = PublishedBy(i)
            BY <1>2, <3>2 DEF Register, Acquire, Heartbeat, Complete, AppendLeaseEvent,
                              TypeOK, PublishedBy, LastEvent
        <3>5. jobs[j].state # "completed" => PublishedBy(j) = None
            BY <1>2, <3>3 DEF PublishedBy, LastEvent, LogInv, LogMatchesRow
        <3>6. ASSUME NEW e, events'[j] = Append(events[j], e)
              PROVE  events'[j] # <<>> /\ LastEvent(j)' = e
            BY <3>3, <3>6 DEF LastEvent
        <3>7. CASE Register(r) /\ jobs[j].state = "absent"
            <4>1. jobs[j].token = 0 /\ jobs[j].owner = None
                BY <1>2, <3>7 DEF LogInv, LogMatchesRow
            <4>2. jobs'[j].token = 0 /\ jobs'[j].owner = None
                <5>1. jobs'[j] = [NoRow EXCEPT !.state = "queued", !.payload = r.digest]
                    BY <1>2, <3>2, <3>7 DEF Register, TypeOK
                <5> QED BY <5>1 DEF NoRow
            <4>3. PublishedBy(j)' = PublishedBy(j)
                BY <3>7 DEF Register, PublishedBy, LastEvent
            <4> QED BY <3>4, <4>1, <4>2, <4>3 DEF Fenced!fencedVars
        <3>8. CASE Heartbeat(r)
            <4>1. jobs'[j].token = jobs[j].token /\ jobs'[j].owner = jobs[j].owner
                <5>1. jobs'[j] = [jobs[j] EXCEPT !.expires = r.now + r.ttl]
                    BY <1>2, <3>2, <3>8 DEF Heartbeat, TypeOK
                <5> QED BY <3>3, <5>1 DEF Row
            <4>2. PublishedBy(j) = None
                BY <3>2, <3>5, <3>8 DEF Heartbeat, RequireCurrentLease
            <4>3. events'[j] # <<>> /\ LastEvent(j)'.type = "heartbeat"
                BY <1>2, <3>2, <3>3, <3>8 DEF Heartbeat, AppendLeaseEvent, TypeOK, LastEvent
            <4>4. PublishedBy(j)' = None
                BY <4>3 DEF PublishedBy
            <4> QED BY <3>4, <4>1, <4>2, <4>4 DEF Fenced!fencedVars
        <3>9. CASE Acquire(r)
            <4>1. jobs'[j].token = jobs[j].token + 1 /\ jobs'[j].owner = r.lease.owner
                <5>1. jobs'[j] = Granted(jobs[j], r)
                    BY <1>2, <3>2, <3>9 DEF Acquire, TypeOK
                <5> QED BY <3>3, <5>1 DEF Row, Granted, NextToken
            <4>2. PublishedBy(j) = None
                BY <3>2, <3>5, <3>9 DEF Acquire
            <4>3. events'[j] # <<>> /\ LastEvent(j)'.type # "completed"
                <5> DEFINE row == jobs[j]
                           e == [type |-> IF NextToken(row) = 1 THEN "acquired" ELSE "reacquired",
                                 owner |-> r.lease.owner, token |-> NextToken(row),
                                 attempt |-> row.attempt + 1, at |-> r.now,
                                 expires |-> r.now + r.ttl, result |-> None]
                <5>1. events'[j] = Append(events[j], e)
                    BY <1>2, <3>2, <3>9 DEF Acquire, AppendLeaseEvent, TypeOK
                <5>2. e.type # "completed"
                    OBVIOUS
                <5> HIDE DEF e
                <5> QED BY <3>6, <5>1, <5>2
            <4>4. PublishedBy(j)' = None
                BY <4>3 DEF PublishedBy
            <4>5. Fenced!Grant(j, r.lease.owner)
                BY <3>4, <4>1, <4>2, <4>4 DEF Fenced!Grant
            <4> QED BY <3>3, <4>5 DEF Fenced!Next
        <3>10. CASE Complete(r)
            <4>1. jobs'[j].token = jobs[j].token /\ jobs'[j].owner = jobs[j].owner
                <5>1. jobs'[j] = [jobs[j] EXCEPT !.state = "completed",
                                      !.key = r.key, !.result = r.digest]
                    BY <1>2, <3>2, <3>10 DEF Complete, TypeOK
                <5> QED BY <3>3, <5>1 DEF Row
            <4>2. /\ PublishedBy(j) = None /\ jobs[j].owner = r.lease.owner
                  /\ jobs[j].token = r.lease.token /\ jobs[j].state = "leased"
                  /\ r.digest \in Digests
                BY <3>2, <3>3, <3>5, <3>10 DEF Complete, RequireCurrentLease, Begin, Request
            <4>3. /\ events'[j] # <<>> /\ LastEvent(j)'.type = "completed"
                  /\ LastEvent(j)'.owner = r.lease.owner /\ LastEvent(j)'.token = r.lease.token
                  /\ LastEvent(j)'.result = r.digest
                <5> DEFINE e == [type |-> "completed", owner |-> r.lease.owner,
                                 token |-> r.lease.token, attempt |-> r.lease.attempt,
                                 at |-> r.now, expires |-> 0, result |-> r.digest]
                <5>1. events'[j] = Append(events[j], e)
                    BY <1>2, <3>2, <3>10 DEF Complete, AppendLeaseEvent, TypeOK
                <5>2. /\ e.type = "completed" /\ e.owner = r.lease.owner
                      /\ e.token = r.lease.token /\ e.result = r.digest
                    OBVIOUS
                <5> HIDE DEF e
                <5> QED BY <3>6, <5>1, <5>2
            <4>4. PublishedBy(j)' = [owner |-> jobs[j].owner, token |-> jobs[j].token,
                                     result |-> r.digest]
                BY <4>2, <4>3 DEF PublishedBy
            <4>5. jobs[j].token > 0
                <5>1. Len(events[j]) \in DOMAIN events[j] /\ Len(events[j]) > 0
                    BY <1>2, <3>3, <4>2 DEF LogInv, LogMatchesRow
                <5> QED BY <1>2, <5>1 DEF LogInv, LogMatchesRow, FencedLog
            <4>6. Fenced!Publish(j, r.digest)
                BY <3>4, <4>1, <4>2, <4>4, <4>5 DEF Fenced!Publish
            <4> QED BY <4>2, <4>6 DEF Fenced!Next
        <3> QED BY <3>2, <3>7, <3>8, <3>9, <3>10
    <2>3. (\A j \in Jobs : jobs'[j] = jobs[j] /\ events'[j] = events[j])
            => UNCHANGED <<jobs, events>>
        <3>1. TypeOK'
            BY <1>2, TypeStep
        <3> QED BY <1>2, <3>1 DEF TypeOK
    <2> QED BY <2>1, <2>2, <2>3
<1> QED BY <1>1, <1>2, LogCorrect, TypeCorrect, PTL
   DEF Spec, ImplementsFencedJobs, Fenced!Spec, LogInv, LogOrdersLeases
=============================================================================
