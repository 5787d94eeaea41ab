--------------------------- MODULE WorkloadProofs ---------------------------
(***************************************************************************)
(* What WorkloadAccess guarantees for every set of subjects, scopes,       *)
(* sessions, proofs and requests, every lifetime, skew and delay.          *)
(***************************************************************************)
EXTENDS WorkloadAccess, TLAPS

\* A clock value a transaction may hold is a time no later than the present.
LEMMA StampType ==
    ASSUME TypeOK, NEW d \in Nat, NEW t \in Stamps(d)
    PROVE  t \in Nat /\ t <= clock /\ clock <= t + d
BY DEF TypeOK, Stamps

\* A request that is being served is a well-formed record.
LEMMA RequestType ==
    ASSUME TypeOK, NEW q \in Requests, requests[q] # None
    PROVE  /\ requests[q] \in Request
           /\ requests[q].principal \in Key /\ requests[q].session \in Sessions
           /\ requests[q].proof \in Proofs /\ requests[q].op \in Operations
           /\ requests[q].principal.subject \in Subjects
           /\ requests[q].principal.scope \in Scopes
<1>1. requests[q] \in Request
  BY DEF TypeOK
<1>2. requests[q].principal \in Key
  BY <1>1 DEF Request
<1> QED
  BY <1>1, <1>2 DEF Request, Key

\* The event of a write is a well-formed record.
LEMMA EventType ==
    ASSUME NEW r \in Request, NEW row \in Session, NEW from \in States \cup {None}
    PROVE  /\ EventOf(r, row, from) \in Event
           /\ EventOf(r, row, from).session = r.session
           /\ EventOf(r, row, from).scope = r.principal.scope
           /\ EventOf(r, row, from).owner = row.owner
           /\ EventOf(r, row, from).actor = r.principal.subject
           /\ EventOf(r, row, from).from = from /\ EventOf(r, row, from).to = row.status
           /\ EventOf(r, row, from).version = row.version
           /\ EventOf(r, row, from).proof = r.proof
<1>1. r.principal \in Key
  BY DEF Request
<1>2. r.principal.subject \in Subjects /\ r.principal.scope \in Scopes
  BY <1>1 DEF Key
<1>3. r.session \in Sessions /\ r.proof \in Proofs
  BY DEF Request
<1>4. row.owner \in Subjects /\ row.status \in States /\ row.version \in Nat
  BY DEF Session
<1> QED
  BY <1>2, <1>3, <1>4 DEF EventOf, Event

\* A write leaves well-typed tables and ends its request.
LEMMA WriteType ==
    ASSUME TypeOK, NEW q \in Requests, requests[q] # None,
           NEW row \in Session, NEW from \in States \cup {None}, Write(q, row, from)
    PROVE  TypeOK'
<1>1. events' \in SUBSET Event
  BY RequestType, EventType DEF Write, TypeOK
<1>2. sessions' \in [Sessions -> Session \cup {None}]
  BY RequestType DEF Write, TypeOK
<1>3. requests' \in [Requests -> Request \cup {None}]
  BY DEF Write, TypeOK
<1> QED
  BY <1>1, <1>2, <1>3 DEF Write, TypeOK

\* An advance rewrites status and version of the row and nothing else.
LEMMA AdvanceRow ==
    ASSUME NEW row \in Session, NEW to \in States
    PROVE  /\ NextRow(row, to) \in Session
           /\ NextRow(row, to).scope = row.scope /\ NextRow(row, to).owner = row.owner
           /\ NextRow(row, to).status = to /\ NextRow(row, to).version = row.version + 1
<1>1. row.scope \in Scopes /\ row.owner \in Subjects /\ row.version \in Nat
  BY DEF Session
<1>2. PICK n : n = [row EXCEPT !.status = to, !.version = @ + 1]
  OBVIOUS
<1>3. /\ n.scope = row.scope /\ n.owner = row.owner
      /\ n.status = to /\ n.version = row.version + 1
  BY <1>2 DEF Session
<1>4. n \in Session
  <2>1. row = [scope |-> row.scope, owner |-> row.owner, status |-> row.status,
               version |-> row.version]
    BY DEF Session
  <2>2. n = [scope |-> row.scope, owner |-> row.owner, status |-> to,
             version |-> row.version + 1]
    BY <1>2, <2>1
  <2> QED
    BY <1>1, <2>2 DEF Session
<1> QED
  BY <1>2, <1>3, <1>4 DEF NextRow

\* What a claim writes: one row for a proof that had none, of an active principal, and the
\* request that will use it.
Claims(q, p, k, c, r) ==
    /\ requests[q] = None /\ claims[p] = None /\ Current(k)
    /\ c \in Claim /\ c.principal = k /\ c.generation = principals[k].generation
    /\ k.audience = AudienceOf(c.op)
    /\ c.at <= clock /\ clock <= c.at + ClaimDelay /\ c.at < c.expires
    /\ c.expires <= c.at + ClockSkew + Lifetime
    /\ r \in Request /\ r.principal = k /\ r.op = c.op /\ r.session = c.session /\ r.proof = p
    /\ claims' = [claims EXCEPT ![p] = c]
    /\ requests' = [requests EXCEPT ![q] = r]
    /\ UNCHANGED <<clock, principals, sessions, events>>

\* Authorize is such a claim.
LEMMA AuthorizeClaims ==
    ASSUME TypeOK, NEW q \in Requests, Authorize(q)
    PROVE  \E k \in Key, p \in Proofs, c \in Claim, r \in Request : Claims(q, p, k, c, r)
<1>0. PICK k \in Key, g \in 1..MaxGeneration :
        /\ ActivePrincipal(k, g)
        /\ \E op \in Operations, s \in Sessions, p \in Proofs :
              /\ k.audience = AudienceOf(op)
              /\ Unclaimed(p)
              /\ \E now \in Stamps(ClaimDelay),
                    issued \in 0..(clock + ClockSkew),
                    expires \in 0..(clock + ClockSkew + Lifetime) :
                    /\ Fresh(issued, expires, now)
                    /\ claims' = [claims EXCEPT ![p] =
                          [principal |-> k, op |-> op, session |-> s, generation |-> g,
                           expires |-> expires, at |-> now]]
              /\ requests' = [requests EXCEPT ![q] =
                    [step |-> "authorized", principal |-> k, op |-> op, session |-> s,
                     proof |-> p]]
  BY DEF Authorize
<1>1. PICK op \in Operations, s \in Sessions, p \in Proofs, now \in Stamps(ClaimDelay),
           issued \in 0..(clock + ClockSkew), expires \in 0..(clock + ClockSkew + Lifetime) :
        /\ k.audience = AudienceOf(op) /\ Unclaimed(p)
        /\ Fresh(issued, expires, now)
        /\ claims' = [claims EXCEPT ![p] =
              [principal |-> k, op |-> op, session |-> s, generation |-> g,
               expires |-> expires, at |-> now]]
        /\ requests' = [requests EXCEPT ![q] =
              [step |-> "authorized", principal |-> k, op |-> op, session |-> s,
               proof |-> p]]
  BY <1>0
<1> DEFINE c == [principal |-> k, op |-> op, session |-> s, generation |-> g,
                 expires |-> expires, at |-> now]
           r == [step |-> "authorized", principal |-> k, op |-> op, session |-> s,
                 proof |-> p]
<1>2. now \in Nat /\ now <= clock /\ clock <= now + ClaimDelay
  BY StampType, AccessAssumption
<1>3. clock \in Nat /\ issued \in Nat /\ expires \in Nat
  BY AccessAssumption DEF TypeOK
<1>4. expires <= now + ClockSkew + Lifetime /\ now < expires
  BY <1>1, <1>2, <1>3, AccessAssumption DEF Fresh
<1>5. c \in Claim
  BY <1>2, <1>3 DEF Claim
<1>6. r \in Request
  BY DEF Request
<1>7. Claims(q, p, k, c, r)
  <2>1. requests[q] = None /\ UNCHANGED <<clock, principals, sessions, events>>
    BY DEF Authorize
  <2>2. claims[p] = None /\ Current(k) /\ principals[k].generation = g
    BY <1>0, <1>1 DEF Unclaimed, ActivePrincipal
  <2> QED
    BY <1>1, <1>2, <1>4, <1>5, <1>6, <2>1, <2>2 DEF Claims
<1> QED
  BY <1>5, <1>6, <1>7

\* What the registration of a session writes.
Creates(q, row) ==
    /\ requests[q] # None /\ requests[q].op = "register"
    /\ sessions[requests[q].session] = None
    /\ row \in Session /\ row.status = "registered" /\ row.version = 1
    /\ row.scope = requests[q].principal.scope /\ row.owner = requests[q].principal.subject
    /\ Write(q, row, None)

\* Create is such a write.
LEMMA CreateWrites ==
    ASSUME TypeOK, NEW q \in Requests, Create(q)
    PROVE  \E row \in Session : Creates(q, row)
<1> DEFINE row == [scope |-> requests[q].principal.scope,
                   owner |-> requests[q].principal.subject,
                   status |-> "registered", version |-> 1]
<1>1. requests[q] # None
  BY DEF Create, At
<1>2. row \in Session
  BY <1>1, RequestType DEF Session, States
<1>3. Creates(q, row)
  BY <1>1, <1>2 DEF Create, At, Creates
<1> QED
  BY <1>2, <1>3

\* What an upload or a completion writes: the next state of an existing session of the
\* request's scope, an upload only for its owner.
Advances(q, row) ==
    LET old == sessions[requests[q].session] IN
    /\ requests[q] # None /\ requests[q].op = OperationFor(row.status)
    /\ old # None /\ old.scope = requests[q].principal.scope
    /\ row \in Session /\ row.status \in {"uploaded", "processed"}
    /\ row.scope = old.scope /\ row.owner = old.owner /\ row.version = old.version + 1
    /\ row.status = "uploaded" => old.owner = requests[q].principal.subject
    /\ Write(q, row, old.status)

\* mark_uploaded and complete_processing are such writes.
LEMMA AdvanceWrites ==
    ASSUME TypeOK, NEW q \in Requests, MarkUploaded(q) \/ CompleteProcessing(q)
    PROVE  \E row \in Session : Advances(q, row)
<1> DEFINE old == sessions[requests[q].session]
           Row(to) == NextRow(old, to)
<1>1. requests[q] # None /\ InScope(requests[q].session, requests[q].principal.scope)
  BY DEF MarkUploaded, CompleteProcessing, At, Owned
<1>2. old \in Session
  BY <1>1, RequestType DEF TypeOK, InScope
<1>3. CASE MarkUploaded(q)
  <2>1. /\ Row("uploaded") \in Session
        /\ Row("uploaded").scope = old.scope /\ Row("uploaded").owner = old.owner
        /\ Row("uploaded").status = "uploaded" /\ Row("uploaded").version = old.version + 1
    BY <1>2, AdvanceRow DEF States
  <2>2. Write(q, Row("uploaded"), old.status)
    BY <1>3 DEF MarkUploaded, Advance
  <2>3. requests[q].op = OperationFor("uploaded") /\ old.owner = requests[q].principal.subject
    BY <1>3 DEF MarkUploaded, At, Owned, OperationFor
  <2>4. Advances(q, Row("uploaded"))
    BY <1>1, <2>1, <2>2, <2>3 DEF Advances, InScope
  <2> QED
    BY <2>1, <2>4
<1>4. CASE CompleteProcessing(q)
  <2>1. /\ Row("processed") \in Session
        /\ Row("processed").scope = old.scope /\ Row("processed").owner = old.owner
        /\ Row("processed").status = "processed" /\ Row("processed").version = old.version + 1
    BY <1>2, AdvanceRow DEF States
  <2>2. Write(q, Row("processed"), old.status)
    BY <1>4 DEF CompleteProcessing, Advance
  <2>3. requests[q].op = OperationFor("processed")
    BY <1>4 DEF CompleteProcessing, At, OperationFor
  <2>4. Advances(q, Row("processed"))
    BY <1>1, <2>1, <2>2, <2>3 DEF Advances, InScope
  <2> QED
    BY <2>1, <2>4
<1> QED
  BY <1>3, <1>4

\* What the administration of the principals writes: a new row, or a later row of one
\* that was not revoked.
Administers(k, row) ==
    /\ row \in Principal
    /\ \/ principals[k] = None /\ row.revoked = None
       \/ /\ Current(k) /\ principals[k].generation <= row.generation
          /\ row.revoked # None => row.revoked <= clock /\ clock <= row.revoked + AdminDelay
    /\ SetPrincipal(k, row)

\* Registration, rotation and revocation are such changes.
LEMMA AdministrationWrites ==
    ASSUME TypeOK, NEW k \in Key,
           RegisterPrincipal(k) \/ RotateGeneration(k) \/ RevokePrincipal(k)
    PROVE  \E row \in Principal : Administers(k, row)
<1>1. CASE RegisterPrincipal(k)
  <2>1. PICK g \in 1..MaxGeneration : SetPrincipal(k, [generation |-> g, revoked |-> None])
    BY <1>1 DEF RegisterPrincipal
  <2> DEFINE row == [generation |-> g, revoked |-> None]
  <2>2. row \in Principal
    BY DEF Principal
  <2> QED
    BY <1>1, <2>1, <2>2 DEF RegisterPrincipal, Administers
<1>2. ASSUME Current(k)
      PROVE  /\ principals[k] \in Principal
             /\ principals[k].generation \in 1..MaxGeneration
    BY <1>2 DEF Current, TypeOK, Principal
<1>3. CASE RotateGeneration(k)
  <2>1. PICK g \in 1..MaxGeneration :
          g > principals[k].generation /\ SetPrincipal(k, [principals[k] EXCEPT !.generation = g])
    BY <1>3 DEF RotateGeneration
  <2> DEFINE row == [principals[k] EXCEPT !.generation = g]
  <2>2. Current(k)
    BY <1>3 DEF RotateGeneration
  <2>3. row \in Principal /\ row.generation = g /\ row.revoked = None
    BY <1>2, <2>2 DEF Principal, Current
  <2>4. principals[k].generation <= g
    BY <1>2, <2>1, <2>2, AccessAssumption
  <2> QED
    BY <2>1, <2>2, <2>3, <2>4 DEF Administers
<1>4. CASE RevokePrincipal(k)
  <2>1. PICK now \in Stamps(AdminDelay) :
          SetPrincipal(k, [principals[k] EXCEPT !.revoked = now])
    BY <1>4 DEF RevokePrincipal
  <2> DEFINE row == [principals[k] EXCEPT !.revoked = now]
  <2>2. Current(k)
    BY <1>4 DEF RevokePrincipal
  <2>3. now \in Nat /\ now <= clock /\ clock <= now + AdminDelay
    BY StampType, AccessAssumption
  <2>4. row \in Principal /\ row.generation = principals[k].generation /\ row.revoked = now
    BY <1>2, <2>2, <2>3 DEF Principal
  <2>5. principals[k].generation <= row.generation
    BY <1>2, <2>2, <2>4, AccessAssumption
  <2> QED
    BY <2>1, <2>2, <2>3, <2>4, <2>5 DEF Administers
<1> QED
  BY <1>1, <1>3, <1>4

\* Steps that write no table: requests end or move on, time passes.
Quiet ==
    /\ UNCHANGED <<principals, claims, sessions, events>>
    /\ clock' \in Nat /\ clock <= clock'
    /\ requests' \in [Requests -> Request \cup {None}]
    /\ \A q \in Requests : requests'[q] # None =>
          /\ requests[q] # None
          /\ requests'[q].principal = requests[q].principal /\ requests'[q].op = requests[q].op
          /\ requests'[q].session = requests[q].session /\ requests'[q].proof = requests[q].proof

\* Ends, reads and the clock are quiet.
LEMMA QuietSteps ==
    ASSUME TypeOK, \/ \E q \in Requests : EndRequest(q) \/ ReadSession(q)
                   \/ Tick \/ UNCHANGED vars
    PROVE  Quiet
<1>1. ASSUME NEW q \in Requests, EndRequest(q)
      PROVE  Quiet
  BY <1>1 DEF EndRequest, Quiet, TypeOK
<1>2. ASSUME NEW q \in Requests, ReadSession(q)
      PROVE  Quiet
  <2> DEFINE n == [requests[q] EXCEPT !.step = "read"]
  <2>1. requests[q] # None
    BY <1>2 DEF ReadSession, At
  <2>2. /\ n \in Request
        /\ n.principal = requests[q].principal /\ n.op = requests[q].op
        /\ n.session = requests[q].session /\ n.proof = requests[q].proof
    BY <2>1, RequestType DEF Request
  <2>3. requests' = [requests EXCEPT ![q] = n]
    BY <1>2 DEF ReadSession
  <2> HIDE DEF n
  <2> QED
    BY <1>2, <2>1, <2>2, <2>3 DEF ReadSession, Quiet, TypeOK
<1>3. CASE Tick \/ UNCHANGED vars
  BY <1>3 DEF Tick, vars, Quiet, TypeOK
<1> QED
  BY <1>1, <1>2, <1>3

\* Every step is one of these five.
LEMMA StepCases ==
    ASSUME TypeOK, [Next]_vars
    PROVE  \/ \E k \in Key, row \in Principal : Administers(k, row)
           \/ \E q \in Requests, k \in Key, p \in Proofs, c \in Claim, r \in Request :
                 Claims(q, p, k, c, r)
           \/ \E q \in Requests, row \in Session : Creates(q, row)
           \/ \E q \in Requests, row \in Session : Advances(q, row)
           \/ Quiet
<1>1. CASE \E k \in Key : RegisterPrincipal(k) \/ RotateGeneration(k) \/ RevokePrincipal(k)
  BY <1>1, AdministrationWrites
<1>2. CASE \E q \in Requests : Authorize(q)
  BY <1>2, AuthorizeClaims
<1>3. CASE \E q \in Requests : Create(q)
  BY <1>3, CreateWrites
<1>4. CASE \E q \in Requests : MarkUploaded(q) \/ CompleteProcessing(q)
  BY <1>4, AdvanceWrites
<1>5. CASE \/ \E q \in Requests : EndRequest(q) \/ ReadSession(q)
           \/ Tick \/ UNCHANGED vars
  BY <1>5, QuietSteps
<1> QED
  BY <1>1, <1>2, <1>3, <1>4, <1>5 DEF Next

-----------------------------------------------------------------------------
(***************************************************************************)
(* Types                                                                   *)
(***************************************************************************)

\* TypeOK is inductive.
LEMMA TypeStep ==
    ASSUME TypeOK, [Next]_vars
    PROVE  TypeOK'
<1>1. ASSUME NEW k \in Key, NEW row \in Principal, Administers(k, row)
      PROVE  TypeOK'
  BY <1>1 DEF Administers, SetPrincipal, TypeOK
<1>2. ASSUME NEW q \in Requests, NEW k \in Key, NEW p \in Proofs, NEW c \in Claim,
             NEW r \in Request, Claims(q, p, k, c, r)
      PROVE  TypeOK'
  BY <1>2 DEF Claims, TypeOK
<1>3. ASSUME NEW q \in Requests, NEW row \in Session, Creates(q, row)
      PROVE  TypeOK'
  BY <1>3, WriteType DEF Creates
<1>4. ASSUME NEW q \in Requests, NEW row \in Session, Advances(q, row)
      PROVE  TypeOK'
  <2>1. sessions[requests[q].session].status \in States
    BY <1>4, RequestType DEF Advances, TypeOK, Session
  <2> QED
    BY <1>4, <2>1, WriteType DEF Advances
<1>5. CASE Quiet
  BY <1>5 DEF Quiet, TypeOK
<1> QED
  BY <1>1, <1>2, <1>3, <1>4, <1>5, StepCases

\* The tables and the requests stay well typed.
THEOREM TypeCorrect == Spec => []TypeOK
<1>1. Init => TypeOK
  BY DEF Init, TypeOK
<1> QED
  BY <1>1, TypeStep, PTL DEF Spec

-----------------------------------------------------------------------------
(***************************************************************************)
(* Every change rests on a proof of its own                                *)
(***************************************************************************)

\* The requests that carry on keep who they are and which proof they spent.
LEMMA AuthorizedQuiet ==
    ASSUME TypeOK, EveryChangeAuthorized, UNCHANGED <<claims, events>>,
           \A q \in Requests : requests'[q] # None =>
              /\ requests[q] # None
              /\ requests'[q].principal = requests[q].principal
              /\ requests'[q].op = requests[q].op
              /\ requests'[q].session = requests[q].session
              /\ requests'[q].proof = requests[q].proof
    PROVE  EveryChangeAuthorized'
<1>1. EventsClaimed'
  BY DEF EveryChangeAuthorized, EventsClaimed, ClaimedFor
<1>2. RequestsClaimed'
  BY DEF EveryChangeAuthorized, RequestsClaimed, ClaimedFor
<1>3. ProofsUsedOnce'
  BY DEF EveryChangeAuthorized, ProofsUsedOnce
<1> QED
  BY <1>1, <1>2, <1>3 DEF EveryChangeAuthorized

\* A proof nobody has claimed is in no event and in no request: a new claim is fresh.
LEMMA AuthorizedClaim ==
    ASSUME TypeOK, EveryChangeAuthorized,
           NEW q \in Requests, NEW k \in Key, NEW p \in Proofs, NEW c \in Claim,
           NEW r \in Request, Claims(q, p, k, c, r)
    PROVE  EveryChangeAuthorized'
<1>1. \A e \in events : e.proof \in Proofs /\ e.proof # p
  BY DEF Claims, EveryChangeAuthorized, EventsClaimed, ClaimedFor, TypeOK, Event
<1>2. \A o \in Requests : requests[o] # None =>
         requests[o].proof \in Proofs /\ requests[o].proof # p
  BY RequestType DEF Claims, EveryChangeAuthorized, RequestsClaimed, ClaimedFor
<1>3. \A o \in Proofs : o # p => claims'[o] = claims[o]
  BY DEF Claims, TypeOK
<1>4. claims'[p] = c /\ c # None
  BY NoneAssumption DEF Claims, TypeOK
<1>5. requests'[q] = r /\ \A o \in Requests \ {q} : requests'[o] = requests[o]
  BY DEF Claims, TypeOK
<1>6. EventsClaimed'
  BY <1>1, <1>3 DEF Claims, EveryChangeAuthorized, EventsClaimed, ClaimedFor
<1>7. RequestsClaimed'
  <2>1. r.principal = [subject |-> r.principal.subject, scope |-> r.principal.scope,
                       audience |-> AudienceOf(r.op)]
    BY DEF Claims, Key
  <2>2. ClaimedFor(r.proof, r.principal.subject, r.principal.scope, r.op, r.session)'
    BY <1>4, <2>1 DEF Claims, ClaimedFor
  <2>3. ASSUME NEW o \in Requests \ {q}, requests[o] # None
        PROVE  ClaimedFor(requests[o].proof, requests[o].principal.subject,
                          requests[o].principal.scope, requests[o].op, requests[o].session)'
    <3>1. ClaimedFor(requests[o].proof, requests[o].principal.subject,
                     requests[o].principal.scope, requests[o].op, requests[o].session)
      BY <2>3 DEF EveryChangeAuthorized, RequestsClaimed
    <3> QED
      BY <1>2, <1>3, <1>5, <2>3, <3>1 DEF ClaimedFor
  <2> QED
    BY <1>5, <2>2, <2>3 DEF RequestsClaimed
<1>8. ProofsUsedOnce'
  BY <1>1, <1>2, <1>5 DEF Claims, EveryChangeAuthorized, ProofsUsedOnce
<1> QED
  BY <1>6, <1>7, <1>8 DEF EveryChangeAuthorized

\* A write hands the proof of its request over to the event and ends the request.
LEMMA AuthorizedWrite ==
    ASSUME TypeOK, EveryChangeAuthorized, NEW q \in Requests, requests[q] # None,
           NEW row \in Session, NEW from \in States \cup {None}, Write(q, row, from),
           requests[q].op = OperationFor(row.status)
    PROVE  EveryChangeAuthorized'
<1> DEFINE e == EventOf(requests[q], row, from)
<1>1. requests[q] \in Request
  BY RequestType
<1>2. /\ e.session = requests[q].session /\ e.scope = requests[q].principal.scope
      /\ e.actor = requests[q].principal.subject /\ e.to = row.status
      /\ e.proof = requests[q].proof
  BY <1>1, EventType
<1>3. events' = events \cup {e} /\ claims' = claims
  BY DEF Write
<1>4. requests'[q] = None /\ \A o \in Requests \ {q} : requests'[o] = requests[o]
  BY DEF Write, TypeOK
<1> HIDE DEF e
<1>5. EventsClaimed'
  <2>1. ClaimedFor(e.proof, e.actor, e.scope, OperationFor(e.to), e.session)
    BY <1>2 DEF EveryChangeAuthorized, RequestsClaimed
  <2>2. \A f \in events' : ClaimedFor(f.proof, f.actor, f.scope, OperationFor(f.to), f.session)
    BY <1>3, <2>1 DEF EveryChangeAuthorized, EventsClaimed
  <2> QED
    BY <1>3, <2>2 DEF EventsClaimed, ClaimedFor
<1>6. RequestsClaimed'
  BY <1>3, <1>4 DEF EveryChangeAuthorized, RequestsClaimed, ClaimedFor
<1>7. ProofsUsedOnce'
  BY <1>2, <1>3, <1>4 DEF EveryChangeAuthorized, ProofsUsedOnce
<1> QED
  BY <1>5, <1>6, <1>7 DEF EveryChangeAuthorized

\* EveryChangeAuthorized is inductive.
LEMMA AuthorizedStep ==
    ASSUME TypeOK, EveryChangeAuthorized, [Next]_vars
    PROVE  EveryChangeAuthorized'
<1>1. ASSUME NEW k \in Key, NEW row \in Principal, Administers(k, row)
      PROVE  EveryChangeAuthorized'
  BY <1>1, AuthorizedQuiet DEF Administers, SetPrincipal
<1>2. ASSUME NEW q \in Requests, NEW row \in Session, Creates(q, row)
      PROVE  EveryChangeAuthorized'
  BY <1>2, AuthorizedWrite DEF Creates, OperationFor
<1>3. ASSUME NEW q \in Requests, NEW row \in Session, Advances(q, row)
      PROVE  EveryChangeAuthorized'
  <2>1. sessions[requests[q].session].status \in States
    BY <1>3, RequestType DEF Advances, TypeOK, Session
  <2> QED
    BY <1>3, <2>1, AuthorizedWrite DEF Advances
<1>4. CASE Quiet
  BY <1>4, AuthorizedQuiet DEF Quiet
<1> QED
  BY <1>1, <1>2, <1>3, <1>4, AuthorizedClaim, StepCases

\* No session changes, and no handler runs, without a proof claimed once for exactly that.
THEOREM ChangesAuthorized == Spec => []EveryChangeAuthorized
<1>1. Init => TypeOK /\ EveryChangeAuthorized
  BY DEF Init, TypeOK, EveryChangeAuthorized, EventsClaimed, RequestsClaimed, ProofsUsedOnce
<1>2. TypeOK /\ EveryChangeAuthorized /\ [Next]_vars => TypeOK' /\ EveryChangeAuthorized'
  BY TypeStep, AuthorizedStep
<1> QED
  BY <1>1, <1>2, PTL DEF Spec

-----------------------------------------------------------------------------
(***************************************************************************)
(* Revocation, generations and freshness                                   *)
(***************************************************************************)

\* No claim is stamped with a time that has not come.
ClaimsInPast == \A p \in Proofs : claims[p] # None => claims[p].at <= clock

\* A claim is a well-formed record.
LEMMA ClaimType ==
    ASSUME TypeOK, NEW p \in Proofs, claims[p] # None
    PROVE  /\ claims[p] \in Claim /\ claims[p].principal \in Key
           /\ claims[p].generation \in Nat /\ claims[p].at \in Nat /\ claims[p].expires \in Nat
<1>1. claims[p] \in Claim
  BY DEF TypeOK
<1> QED
  BY <1>1 DEF Claim

\* A principal is a well-formed record.
LEMMA PrincipalType ==
    ASSUME TypeOK, NEW k \in Key, principals[k] # None
    PROVE  /\ principals[k] \in Principal
           /\ principals[k].generation \in Nat /\ principals[k].revoked \in Nat \cup {None}
BY DEF TypeOK, Principal

\* RevocationHolds and ClaimsInPast are inductive together.
LEMMA RevocationStep ==
    ASSUME TypeOK, RevocationHolds, ClaimsInPast, [Next]_vars
    PROVE  RevocationHolds' /\ ClaimsInPast'
<1>1. ASSUME NEW k \in Key, NEW row \in Principal, Administers(k, row)
      PROVE  RevocationHolds' /\ ClaimsInPast'
  <2>1. UNCHANGED <<clock, claims>> /\ principals' = [principals EXCEPT ![k] = row]
    BY <1>1 DEF Administers, SetPrincipal
  <2>2. row # None /\ row.generation \in Nat /\ row.revoked \in Nat \cup {None}
    BY NoneAssumption DEF Principal
  <2>3. SUFFICES ASSUME NEW p \in Proofs, claims[p] # None, claims[p].principal = k
                 PROVE  /\ claims[p].generation <= row.generation
                        /\ row.revoked # None => claims[p].at <= row.revoked + AdminDelay
    BY <2>1, <2>2, ClaimType DEF RevocationHolds, ClaimsInPast, TypeOK
  <2>4. /\ principals[k] # None /\ claims[p].generation <= principals[k].generation
        /\ claims[p].at <= clock
    BY <2>3 DEF RevocationHolds, ClaimsInPast
  <2>5. /\ principals[k].generation <= row.generation
        /\ row.revoked # None => clock <= row.revoked + AdminDelay
    BY <1>1, <2>4 DEF Administers
  <2> QED
    BY <2>2, <2>3, <2>4, <2>5, ClaimType, PrincipalType, AccessAssumption DEF TypeOK
<1>2. ASSUME NEW q \in Requests, NEW k \in Key, NEW p \in Proofs, NEW c \in Claim,
             NEW r \in Request, Claims(q, p, k, c, r)
      PROVE  RevocationHolds' /\ ClaimsInPast'
  <2>1. UNCHANGED <<clock, principals>> /\ claims' = [claims EXCEPT ![p] = c]
    BY <1>2 DEF Claims
  <2>2. /\ c.principal = k /\ principals[k] # None /\ principals[k].revoked = None
        /\ c.generation = principals[k].generation
        /\ c.at < c.expires /\ c.expires <= c.at + ClockSkew + Lifetime /\ c.at <= clock
    BY <1>2 DEF Claims, Current
  <2>3. c.generation <= principals[k].generation
    BY <2>2, PrincipalType
  <2> QED
    BY <2>1, <2>2, <2>3 DEF RevocationHolds, ClaimsInPast, TypeOK
<1>3. CASE UNCHANGED <<principals, claims>> /\ clock' \in Nat /\ clock <= clock'
  <2>1. RevocationHolds'
    BY <1>3 DEF RevocationHolds
  <2>2. ClaimsInPast'
    BY <1>3, ClaimType DEF ClaimsInPast, TypeOK
  <2> QED
    BY <2>1, <2>2
<1>4. ASSUME \/ \E q \in Requests, row \in Session : Creates(q, row) \/ Advances(q, row)
             \/ Quiet
      PROVE  UNCHANGED <<principals, claims>> /\ clock' \in Nat /\ clock <= clock'
  BY <1>4 DEF Creates, Advances, Write, Quiet, TypeOK
<1> QED
  BY <1>1, <1>2, <1>3, <1>4, StepCases

\* Revocation, generation and lifetime bound what a principal can authorize, for every
\* lock wait and clock skew.
THEOREM Revocation == Spec => []RevocationHolds
<1>1. Init => TypeOK /\ RevocationHolds /\ ClaimsInPast
  BY DEF Init, TypeOK, RevocationHolds, ClaimsInPast
<1>2. TypeOK /\ RevocationHolds /\ ClaimsInPast /\ [Next]_vars
        => (TypeOK /\ RevocationHolds /\ ClaimsInPast)'
  BY TypeStep, RevocationStep
<1> QED
  BY <1>1, <1>2, PTL DEF Spec

\* A claim is final and made under an unrevoked principal in generation order.
THEOREM Fencing == Spec => ClaimsFenced
<1> DEFINE
      ClaimStep ==
        \A p \in Proofs : claims'[p] # claims[p] =>
             LET c == claims'[p] IN
             /\ claims[p] = None /\ Current(c.principal)
             /\ \A o \in Proofs :
                   claims[o] # None /\ claims[o].principal = c.principal
                     => claims[o].generation <= c.generation
             /\ clock < c.expires + ClaimDelay
      PrincipalStep ==
        \A k \in Key : principals[k] # None =>
             /\ principals'[k] # None
             /\ principals[k].generation <= principals'[k].generation
             /\ principals[k].revoked # None => principals'[k] = principals[k]
<1>1. ASSUME TypeOK, RevocationHolds, [Next]_vars
      PROVE  ClaimStep /\ PrincipalStep
  <2>1. ASSUME NEW k \in Key, NEW row \in Principal, Administers(k, row)
        PROVE  ClaimStep /\ PrincipalStep
    <3>1. row # None
      BY NoneAssumption
    <3>2. claims' = claims /\ principals' = [principals EXCEPT ![k] = row]
      BY <2>1 DEF Administers, SetPrincipal
    <3>3. principals[k] # None =>
            principals[k].revoked = None /\ principals[k].generation <= row.generation
      BY <2>1 DEF Administers, Current
    <3>4. \A j \in Key : principals[j] # None => principals[j].generation \in Nat
      BY <1>1, PrincipalType
    <3> QED
      BY <1>1, <3>1, <3>2, <3>3, <3>4 DEF TypeOK
  <2>2. ASSUME NEW q \in Requests, NEW k \in Key, NEW p \in Proofs, NEW c \in Claim,
               NEW r \in Request, Claims(q, p, k, c, r)
        PROVE  ClaimStep /\ PrincipalStep
    <3>1. principals' = principals /\ claims' = [claims EXCEPT ![p] = c]
      BY <2>2 DEF Claims
    <3>2. claims[p] = None /\ Current(k) /\ c.principal = k
      BY <2>2 DEF Claims
    <3>3. ASSUME NEW o \in Proofs, claims[o] # None, claims[o].principal = k
          PROVE  claims[o].generation <= c.generation
      BY <2>2, <3>3, <1>1 DEF Claims, RevocationHolds
    <3>4. clock < c.expires + ClaimDelay
      <4>1. clock <= c.at + ClaimDelay /\ c.at < c.expires
        BY <2>2 DEF Claims
      <4>2. clock \in Nat /\ c.at \in Nat /\ c.expires \in Nat
        BY <1>1 DEF TypeOK, Claim
      <4> QED
        BY <4>1, <4>2, AccessAssumption
    <3>5. ClaimStep
      BY <1>1, <3>1, <3>2, <3>3, <3>4 DEF TypeOK
    <3>6. PrincipalStep
      BY <1>1, <3>1, PrincipalType
    <3> QED
      BY <3>5, <3>6
  <2>3. CASE UNCHANGED <<principals, claims>>
    BY <1>1, <2>3, PrincipalType
  <2>4. ASSUME \/ \E q \in Requests, row \in Session : Creates(q, row) \/ Advances(q, row)
               \/ Quiet
        PROVE  UNCHANGED <<principals, claims>>
    BY <2>4 DEF Creates, Advances, Write, Quiet
  <2> HIDE DEF ClaimStep, PrincipalStep
  <2> QED
    BY <1>1, <2>1, <2>2, <2>3, <2>4, StepCases
<1>2. TypeOK /\ RevocationHolds /\ [Next]_vars => [ClaimStep /\ PrincipalStep]_vars
  BY <1>1
<1> QED
  BY <1>2, TypeCorrect, Revocation, PTL DEF Spec, ClaimsFenced

-----------------------------------------------------------------------------
(***************************************************************************)
(* The events of a session explain its row                                 *)
(***************************************************************************)

\* The event the capture authority is resolved from.
Registration(row, log) ==
    \E e \in log : e.owner = row.owner /\ e.from = None /\ e.to = "registered" /\ e.version = 1

\* The capture authority resolves exactly when the registration event is there.
LEMMA AuthorityResolves ==
    ASSUME TypeOK, NEW s \in Sessions, sessions[s] # None
    PROVE  CaptureAuthority(s, sessions[s].scope)
             = {[scope |-> sessions[s].scope, owner |-> sessions[s].owner]}
           <=> Registration(sessions[s], ListEvents(s, sessions[s].scope))
<1> DEFINE J == {e \in ListEvents(s, sessions[s].scope) :
                   /\ InScope(s, sessions[s].scope) /\ e.owner = sessions[s].owner
                   /\ e.from = None /\ e.to = "registered" /\ e.version = 1}
           a == [scope |-> sessions[s].scope, owner |-> sessions[s].owner]
<1>1. CaptureAuthority(s, sessions[s].scope) = {a : e \in J}
  BY DEF CaptureAuthority
<1>2. Registration(sessions[s], ListEvents(s, sessions[s].scope)) <=> J # {}
  BY DEF Registration, InScope
<1> HIDE DEF J, a
<1>3. {a : e \in J} = {a} <=> J # {}
  OBVIOUS
<1> QED
  BY <1>1, <1>2, <1>3 DEF a

\* What HistoryExplainsSession says, with the join written out.
HistoryInv ==
    /\ EventsInScope
    /\ \A s \in Sessions : sessions[s] # None =>
          LET log == ListEvents(s, sessions[s].scope) IN
          Explained(sessions[s], log) /\ Registration(sessions[s], log)

\* HistoryInv is HistoryExplainsSession with the authority resolved.
LEMMA HistoryInvEquiv ==
    ASSUME TypeOK
    PROVE  HistoryInv <=> HistoryExplainsSession
BY AuthorityResolves DEF HistoryInv, HistoryExplainsSession

\* A write adds its event to the log of its own session and to no other.
LEMMA LogAfterWrite ==
    ASSUME TypeOK, NEW q \in Requests, requests[q] # None,
           NEW s \in Sessions, s = requests[q].session, NEW row \in Session,
           NEW from \in States \cup {None}, Write(q, row, from),
           row.scope = requests[q].principal.scope, HistoryInv,
           sessions[s] # None => sessions[s].scope = row.scope /\ sessions[s].owner = row.owner,
           NEW e, e = EventOf(requests[q], row, from)
    PROVE  /\ sessions'[s] = row
           /\ ListEvents(s, row.scope)' = ListEvents(s, row.scope) \cup {e}
           /\ \A t \in Sessions \ {s} :
                 /\ sessions'[t] = sessions[t]
                 /\ \A scope : ListEvents(t, scope)' = ListEvents(t, scope)
           /\ EventsInScope'
<1>1. requests[q] \in Request
  BY RequestType
<1>2. e.session = s /\ e.scope = row.scope /\ e.owner = row.owner
  BY <1>1, EventType
<1>3. events' = events \cup {e}
  BY DEF Write
<1>4. sessions'[s] = row
  BY <1>1 DEF Write, TypeOK
<1>5. \A t \in Sessions \ {s} : sessions'[t] = sessions[t]
  BY <1>1 DEF Write, TypeOK
<1>6. ListEvents(s, row.scope)' = ListEvents(s, row.scope) \cup {e}
  BY <1>2, <1>3 DEF ListEvents
<1>7. \A t \in Sessions \ {s} :
         \A scope : ListEvents(t, scope)' = ListEvents(t, scope)
  BY <1>2, <1>3 DEF ListEvents
<1>8. EventsInScope'
  <2>1. row # None
    BY NoneAssumption
  <2>2. ASSUME NEW f \in events
        PROVE  InScope(f.session, f.scope)' /\ f.owner = sessions'[f.session].owner
    <3>1. f.session \in Sessions
      BY DEF TypeOK, Event
    <3>2. InScope(f.session, f.scope) /\ f.owner = sessions[f.session].owner
      BY DEF HistoryInv, EventsInScope
    <3>3. CASE f.session = s
      BY <1>4, <2>1, <3>2, <3>3 DEF InScope
    <3>4. CASE f.session # s
      BY <1>5, <3>1, <3>2, <3>4 DEF InScope
    <3> QED
      BY <3>3, <3>4
  <2>3. InScope(e.session, e.scope)' /\ e.owner = sessions'[e.session].owner
    BY <1>2, <1>4, <2>1 DEF InScope
  <2> QED
    BY <1>3, <2>2, <2>3 DEF EventsInScope
<1> QED
  BY <1>4, <1>5, <1>6, <1>7, <1>8

\* A log that explains a row, with the event of the next version, explains the next row.
LEMMA ExplainedNext ==
    ASSUME NEW log \in SUBSET Event, NEW old \in Session, NEW row \in Session, NEW e \in Event,
           Explained(old, log), row.version = old.version + 1, row.owner = old.owner,
           e.version = row.version, e.to = row.status, e.from = old.status,
           e.to # "processed" => e.actor = row.owner
    PROVE  Explained(row, log \cup {e})
<1> DEFINE new == log \cup {e}
<1>1. old.version \in Nat /\ row.version \in Nat
  BY DEF Session
<1>2. \A f \in log : f.version \in 1..old.version
  BY DEF Explained
<1>3. old.version \in 1..old.version
  BY <1>2 DEF Explained
<1>4. {f.version : f \in new} = 1..row.version
  <2>1. {f.version : f \in log} = 1..old.version
    BY DEF Explained
  <2>2. {f.version : f \in new} = {f.version : f \in log} \cup {e.version}
    OBVIOUS
  <2> QED
    BY <1>1, <2>1, <2>2
<1>5. \A f \in log : f.version # e.version /\ f.version # e.version + 1
  BY <1>1, <1>2
<1>6. ASSUME NEW f \in log, e.version = f.version + 1
      PROVE  e.from = f.to
  <2>1. f.version = old.version
    BY <1>1, <1>2, <1>6
  <2> QED
    BY <2>1 DEF Explained
<1>7. \A f, g \in new :
         /\ f.version = g.version => f = g
         /\ g.version = f.version + 1 => g.from = f.to
  <2>1. ~(e.version = e.version + 1)
    BY <1>1
  <2> QED
    BY <1>5, <1>6, <2>1 DEF Explained
<1>8. \E f \in new : f.version = row.version /\ f.to = row.status
  OBVIOUS
<1>9. \A f \in new : f.to # "processed" => f.actor = row.owner
  BY DEF Explained
<1> QED
  BY <1>4, <1>7, <1>8, <1>9 DEF Explained

\* A new session begins its history.
LEMMA HistoryCreate ==
    ASSUME TypeOK, HistoryInv, NEW q \in Requests, NEW row \in Session, Creates(q, row)
    PROVE  HistoryInv'
<1>0. PICK s, e : s = requests[q].session /\ e = EventOf(requests[q], row, None)
  OBVIOUS
<1>1. requests[q] # None /\ requests[q] \in Request /\ s \in Sessions
  BY <1>0, RequestType DEF Creates
<1>2. /\ e \in Event /\ e.owner = row.owner /\ e.actor = row.owner /\ e.from = None
      /\ e.to = "registered" /\ e.version = 1
  BY <1>0, <1>1, EventType DEF Creates
<1>3. /\ sessions'[s] = row
      /\ ListEvents(s, row.scope)' = ListEvents(s, row.scope) \cup {e}
      /\ \A t \in Sessions \ {s} :
            /\ sessions'[t] = sessions[t]
            /\ \A scope : ListEvents(t, scope)' = ListEvents(t, scope)
      /\ EventsInScope'
  BY <1>0, <1>1, LogAfterWrite DEF Creates
<1>4. ListEvents(s, row.scope) = {}
  BY <1>0 DEF Creates, HistoryInv, EventsInScope, InScope, ListEvents
<1>5. Explained(row, {e}) /\ Registration(row, {e})
  <2>1. row.version = 1 /\ row.status = "registered"
    BY DEF Creates
  <2>2. {f.version : f \in {e}} = 1..row.version
    BY <1>2, <2>1
  <2>3. \A f, g \in {e} : /\ f.version = g.version => f = g
                          /\ g.version = f.version + 1 => g.from = f.to
    BY <1>2
  <2>4. /\ \E f \in {e} : f.version = row.version /\ f.to = row.status
        /\ \A f \in {e} : f.to # "processed" => f.actor = row.owner
    BY <1>2, <2>1
  <2> QED
    BY <1>2, <2>2, <2>3, <2>4 DEF Explained, Registration
<1>6. ListEvents(s, row.scope)' = {e}
  BY <1>3, <1>4
<1>7. ASSUME NEW t \in Sessions, sessions'[t] # None
      PROVE  /\ Explained(sessions'[t], ListEvents(t, sessions[t].scope)')
             /\ Registration(sessions'[t], ListEvents(t, sessions[t].scope)')
  <2>1. CASE t = s
    <3>1. ListEvents(t, sessions[t].scope)' = {e}
      BY <1>3, <1>6, <2>1 DEF ListEvents
    <3> QED
      BY <1>3, <1>5, <2>1, <3>1
  <2>2. CASE t # s
    <3>1. sessions'[t] = sessions[t]
      BY <1>3, <2>2
    <3>2. ListEvents(t, sessions[t].scope)' = ListEvents(t, sessions[t].scope)
      BY <1>3, <2>2, <3>1 DEF ListEvents
    <3> QED
      BY <1>7, <3>1, <3>2 DEF HistoryInv
  <2> QED
    BY <2>1, <2>2
<1> QED
  BY <1>3, <1>7 DEF HistoryInv, Explained, Registration

\* An advance adds the next version.
LEMMA HistoryAdvance ==
    ASSUME TypeOK, HistoryInv, NEW q \in Requests, NEW row \in Session, Advances(q, row)
    PROVE  HistoryInv'
<1>0. PICK s, old, e, log :
        /\ s = requests[q].session /\ old = sessions[s]
        /\ e = EventOf(requests[q], row, old.status) /\ log = ListEvents(s, row.scope)
  OBVIOUS
<1>1. requests[q] # None /\ requests[q] \in Request /\ s \in Sessions
  BY <1>0, RequestType DEF Advances
<1>2. /\ old # None /\ old \in Session /\ old.status \in States
      /\ old.scope = row.scope /\ old.owner = row.owner /\ row.version = old.version + 1
      /\ row.scope = requests[q].principal.scope
  BY <1>0, <1>1 DEF Advances, TypeOK, Session
<1>3. /\ e \in Event /\ e.from = old.status /\ e.to = row.status /\ e.version = row.version
      /\ e.actor = requests[q].principal.subject
  BY <1>0, <1>1, <1>2, EventType
<1>4. e.to # "processed" => e.actor = row.owner
  BY <1>0, <1>2, <1>3 DEF Advances
<1>5. /\ sessions'[s] = row
      /\ ListEvents(s, row.scope)' = log \cup {e}
      /\ \A t \in Sessions \ {s} :
            /\ sessions'[t] = sessions[t]
            /\ \A scope : ListEvents(t, scope)' = ListEvents(t, scope)
      /\ EventsInScope'
  <2>1. Write(q, row, old.status)
    BY <1>0 DEF Advances
  <2>2. /\ old.status \in States \cup {None}
        /\ sessions[s].scope = row.scope /\ sessions[s].owner = row.owner
    BY <1>0, <1>2
  <2>3. s = requests[q].session /\ e = EventOf(requests[q], row, old.status)
    BY <1>0
  <2>4. ListEvents(s, row.scope)' = ListEvents(s, row.scope) \cup {e}
    <3>1. events' = events \cup {e} /\ e.session = s /\ e.scope = row.scope
      BY <1>1, <1>2, <2>1, <2>2, <2>3, EventType DEF Write
    <3> QED
      BY <3>1 DEF ListEvents
  <2>5. /\ sessions'[s] = row
        /\ \A t \in Sessions \ {s} :
              /\ sessions'[t] = sessions[t]
              /\ \A scope : ListEvents(t, scope)' = ListEvents(t, scope)
        /\ EventsInScope'
    BY <1>1, <1>2, <2>1, <2>2, <2>3, LogAfterWrite
  <2> QED
    BY <1>0, <2>4, <2>5
<1>6. log \in SUBSET Event /\ Explained(old, log) /\ Registration(old, log)
  BY <1>0, <1>1, <1>2 DEF HistoryInv, ListEvents, TypeOK
<1>7. Explained(row, log \cup {e})
  BY <1>2, <1>3, <1>4, <1>6, ExplainedNext
<1>8. Registration(row, log \cup {e})
  BY <1>2, <1>6 DEF Registration
<1>9. ASSUME NEW t \in Sessions, sessions'[t] # None
      PROVE  /\ Explained(sessions'[t], ListEvents(t, sessions[t].scope)')
             /\ Registration(sessions'[t], ListEvents(t, sessions[t].scope)')
  <2>1. CASE t = s
    <3>1. ListEvents(t, sessions[t].scope)' = log \cup {e}
      BY <1>5, <2>1 DEF ListEvents
    <3> QED
      BY <1>5, <1>7, <1>8, <2>1, <3>1
  <2>2. CASE t # s
    <3>1. sessions'[t] = sessions[t]
      BY <1>5, <2>2
    <3>2. ListEvents(t, sessions[t].scope)' = ListEvents(t, sessions[t].scope)
      BY <1>5, <2>2, <3>1 DEF ListEvents
    <3> QED
      BY <1>9, <3>1, <3>2 DEF HistoryInv
  <2> QED
    BY <2>1, <2>2
<1> QED
  BY <1>5, <1>9 DEF HistoryInv, Explained, Registration

\* HistoryInv is inductive.
LEMMA HistoryStep ==
    ASSUME TypeOK, HistoryInv, [Next]_vars
    PROVE  HistoryInv'
<1>1. ASSUME UNCHANGED history PROVE HistoryInv'
  BY <1>1 DEF history, HistoryInv, EventsInScope, InScope, ListEvents, Explained, Registration
<1>2. ASSUME \/ \E k \in Key, row \in Principal : Administers(k, row)
             \/ \E q \in Requests, k \in Key, p \in Proofs, c \in Claim, r \in Request :
                   Claims(q, p, k, c, r)
             \/ Quiet
      PROVE  UNCHANGED history
  BY <1>2 DEF Administers, SetPrincipal, Claims, Quiet, history
<1> QED
  BY <1>1, <1>2, HistoryCreate, HistoryAdvance, StepCases

\* The events are a complete account of every session, and its capture authority always
\* resolves to the principal that registered it.
THEOREM HistoryComplete == Spec => []HistoryExplainsSession
<1>1. Init => TypeOK /\ HistoryInv
  BY DEF Init, TypeOK, HistoryInv, EventsInScope
<1>2. TypeOK /\ HistoryInv /\ [Next]_vars => TypeOK' /\ HistoryInv'
  BY TypeStep, HistoryStep
<1>3. TypeOK /\ HistoryInv => HistoryExplainsSession
  BY HistoryInvEquiv
<1> QED
  BY <1>1, <1>2, <1>3, PTL DEF Spec

\* A session keeps its scope and its owner.
LEMMA SessionsKeep ==
    ASSUME TypeOK, [Next]_vars, NEW s \in Sessions, sessions[s] # None
    PROVE  /\ sessions'[s] # None
           /\ sessions'[s].scope = sessions[s].scope /\ sessions'[s].owner = sessions[s].owner
<1>1. ASSUME UNCHANGED sessions
      PROVE  sessions'[s] = sessions[s]
  BY <1>1
<1>2. ASSUME NEW q \in Requests, NEW row \in Session, Creates(q, row)
      PROVE  sessions'[s] = sessions[s]
  <2>1. requests[q].session \in Sessions /\ requests[q].session # s
    BY <1>2, RequestType DEF Creates
  <2> QED
    BY <1>2, <2>1 DEF Creates, Write, TypeOK
<1>3. ASSUME NEW q \in Requests, NEW row \in Session, Advances(q, row)
      PROVE  \/ sessions'[s] = sessions[s]
             \/ /\ sessions'[s] = row /\ row \in Session
                /\ row.scope = sessions[s].scope /\ row.owner = sessions[s].owner
  <2>1. requests[q].session \in Sessions
    BY <1>3, RequestType DEF Advances
  <2> QED
    BY <1>3, <2>1 DEF Advances, Write, TypeOK
<1>4. \A row \in Session : row # None
  BY NoneAssumption
<1>5. \/ UNCHANGED sessions
      \/ \E q \in Requests, row \in Session : Creates(q, row)
      \/ \E q \in Requests, row \in Session : Advances(q, row)
  BY StepCases DEF Administers, SetPrincipal, Claims, Quiet
<1> QED
  BY <1>1, <1>2, <1>3, <1>4, <1>5

\* Once the capture authority of a session resolves, nothing changes it.
THEOREM DurableAuthority == Spec => AuthorityStable
<1>1. TypeOK /\ HistoryExplainsSession /\ HistoryExplainsSession' /\ [Next]_vars =>
        [\A s \in Sessions, scope \in Scopes :
            CaptureAuthority(s, scope) # {} =>
              CaptureAuthority(s, scope)' = CaptureAuthority(s, scope)]_vars
  <2> SUFFICES ASSUME TypeOK, HistoryExplainsSession, HistoryExplainsSession', [Next]_vars,
                      NEW s \in Sessions, NEW scope \in Scopes,
                      CaptureAuthority(s, scope) # {}
               PROVE  CaptureAuthority(s, scope)' = CaptureAuthority(s, scope)
    OBVIOUS
  <2>1. sessions[s] # None /\ sessions[s].scope = scope
    BY DEF CaptureAuthority, InScope
  <2>2. /\ sessions'[s] # None /\ sessions'[s].scope = scope
        /\ sessions'[s].owner = sessions[s].owner
    BY <2>1, SessionsKeep
  <2>3. CaptureAuthority(s, scope) = {[scope |-> scope, owner |-> sessions[s].owner]}
    BY <2>1 DEF HistoryExplainsSession
  <2>4. CaptureAuthority(s, scope)' = {[scope |-> scope, owner |-> sessions'[s].owner]}
    <3>1. CaptureAuthority(s, sessions[s].scope)'
            = {[scope |-> sessions'[s].scope, owner |-> sessions'[s].owner]}
      BY <2>2 DEF HistoryExplainsSession
    <3> QED
      BY <2>2, <3>1 DEF CaptureAuthority, ListEvents, InScope
  <2> QED
    BY <2>2, <2>3, <2>4
<1> QED
  BY <1>1, TypeCorrect, HistoryComplete, PTL DEF Spec, AuthorityStable
=============================================================================
