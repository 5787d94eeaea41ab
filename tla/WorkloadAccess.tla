--------------------------- MODULE WorkloadAccess ---------------------------
(***************************************************************************)
(* Who may change a capture session: the workload principals, the single-  *)
(* use proofs and the session events of SQLiteLegacySessionStore           *)
(* (legacy_session_store.py) with its schema, and the guard every workload *)
(* route runs before its handler (routes/sessions.py,                      *)
(* legacy_session_composition.py, legacy_session_security.py).             *)
(*                                                                         *)
(* A request claims its proof in a transaction of its own, then runs its   *)
(* handler, whose reads and writes are transactions of their own: between  *)
(* them other requests and the administration of the principals run.       *)
(***************************************************************************)
EXTENDS Integers, FiniteSets

CONSTANTS
    Subjects,       \* principal subjects
    Scopes,         \* tenant and workspace pairs
    Sessions,       \* session identifiers
    Proofs,         \* proof identifier digests
    Requests,       \* requests the API may be serving at once
    None,           \* SQL null, or nothing in flight
    Lifetime,       \* _MAX_WORKLOAD_LIFETIME, in clock units
    ClockSkew,      \* _MAX_CLOCK_SKEW
    MaxGeneration,  \* _MAX_GENERATION, 2^31 - 1 in the code
    ClaimDelay,     \* how long a claim may wait for the lock after it read the clock
    AdminDelay,     \* the same for a change of a principal
    MaxClock,       \* bound: last clock value explored
    MaxPrincipals   \* bound: principals registered

ASSUME AccessAssumption ==
    /\ Lifetime \in Nat \ {0} /\ ClockSkew \in Nat /\ MaxGeneration \in Nat \ {0}
    /\ ClaimDelay \in Nat /\ AdminDelay \in Nat /\ MaxClock \in Nat /\ MaxPrincipals \in Nat

VARIABLES
    clock,      \* wall-clock time
    principals, \* table legacy_workload_principals, by its primary key
    claims,     \* table legacy_workload_proof_claims, by proof_identifier_digest
    sessions,   \* table legacy_sessions: the columns authority and progress depend on
    events,     \* table legacy_session_events
    requests    \* workload requests between their guard and their answer

vars == <<clock, principals, claims, sessions, events, requests>>
history == <<sessions, events>>

-----------------------------------------------------------------------------
(***************************************************************************)
(* Rows                                                                    *)
(***************************************************************************)

Audiences == {"capture_upload", "processing_completion"}

Operations == {"register", "presign", "uploaded", "processing_completion"}

\* The guard of each route names one audience; the audience fixes role and transport.
AudienceOf(op) ==
    IF op = "processing_completion" THEN "processing_completion" ELSE "capture_upload"

Key == [subject: Subjects, scope: Scopes, audience: Audiences]

\* state_version is left out: rotation and revocation compare it inside the transaction
\* that read the row, so they start from the row as it is or are refused.
Principal == [generation: 1..MaxGeneration, revoked: Nat \cup {None}]

\* "session" stands for the bound path and body: they name one session.
Claim ==
    [principal: Key, op: Operations, session: Sessions,
     generation: 1..MaxGeneration, expires: Nat, at: Nat]

States == {"registered", "uploaded", "processed"}

Session == [scope: Scopes, owner: Subjects, status: States, version: Nat]

\* "proof" is not a column: it names the proof of the request that wrote the row.
Event ==
    [session: Sessions, scope: Scopes, owner: Subjects, actor: Subjects,
     from: States \cup {None}, to: States, version: Nat, proof: Proofs]

Request ==
    [step: {"authorized", "read"}, principal: Key, op: Operations, session: Sessions,
     proof: Proofs]

ASSUME NoneAssumption ==
    None \notin Nat \cup Principal \cup Claim \cup Session \cup Request \cup States

\* Every row and request stays in its type; no generation passes its limit.
TypeOK ==
    /\ clock \in Nat
    /\ principals \in [Key -> Principal \cup {None}]
    /\ claims \in [Proofs -> Claim \cup {None}]
    /\ sessions \in [Sessions -> Session \cup {None}]
    /\ events \in SUBSET Event
    /\ requests \in [Requests -> Request \cup {None}]

\* The value _now() returned to a transaction that holds the lock now.
Stamps(delay) == {t \in 0..clock : clock <= t + delay}

-----------------------------------------------------------------------------
(***************************************************************************)
(* Administration of the principals                                        *)
(***************************************************************************)

SetPrincipal(k, row) ==
    /\ principals' = [principals EXCEPT ![k] = row]
    /\ UNCHANGED <<clock, claims, sessions, events, requests>>

RegisterPrincipal(k) ==
    /\ principals[k] = None
    /\ Cardinality({j \in Key : principals[j] # None}) < MaxPrincipals
    /\ \E g \in 1..MaxGeneration :
          SetPrincipal(k, [generation |-> g, revoked |-> None])

Current(k) == principals[k] # None /\ principals[k].revoked = None

RotateGeneration(k) ==
    /\ Current(k)
    /\ \E g \in 1..MaxGeneration :
          /\ g > principals[k].generation
          /\ SetPrincipal(k, [principals[k] EXCEPT !.generation = g])

RevokePrincipal(k) ==
    /\ Current(k)
    /\ \E now \in Stamps(AdminDelay) :
          SetPrincipal(k, [principals[k] EXCEPT !.revoked = now])

-----------------------------------------------------------------------------
(***************************************************************************)
(* The guard                                                               *)
(***************************************************************************)

\* Freshness of a proof issued and expiring at these times, evaluated at "now".
Fresh(issued, expires, now) ==
    /\ issued < expires /\ expires <= issued + Lifetime
    /\ issued <= now + ClockSkew
    /\ now < expires

RevokedToo(k, generation) ==
    principals[k] # None /\ principals[k].generation = generation

RetiredToo(k, generation) ==
    Current(k) /\ generation <= principals[k].generation

ActivePrincipal(k, generation) ==
    Current(k) /\ principals[k].generation = generation

ClaimedToo(p) == p \in Proofs

Unclaimed(p) == claims[p] = None

\* The credential verifier may return any well-formed context for the request;
\* what it says of generation, revocation and replay is checked in the tables.
Authorize(q) ==
    /\ requests[q] = None
    /\ \E k \in Key, g \in 1..MaxGeneration :
          /\ ActivePrincipal(k, g)
          /\ \E op \in Operations, s \in Sessions, p \in Proofs :
                /\ k.audience = AudienceOf(op)
                /\ Unclaimed(p)
                /\ \E now \in Stamps(ClaimDelay),
                      issued \in 0..(clock + ClockSkew),
                      expires \in 0..(clock + ClockSkew + Lifetime) :
                      /\ Fresh(issued, expires, now)
                      /\ claims' = [claims EXCEPT ![p] =
                            [principal |-> k, op |-> op, session |-> s, generation |-> g,
                             expires |-> expires, at |-> now]]
                /\ requests' = [requests EXCEPT ![q] =
                      [step |-> "authorized", principal |-> k, op |-> op, session |-> s,
                       proof |-> p]]
    /\ UNCHANGED <<clock, principals, sessions, events>>

-----------------------------------------------------------------------------
(***************************************************************************)
(* The handlers                                                            *)
(***************************************************************************)

At(q, step, op) == requests[q] # None /\ requests[q].step = step /\ requests[q].op = op

\* Every rejection, failure, crash and answer that writes nothing (more).
EndRequest(q) ==
    /\ requests[q] # None
    /\ requests' = [requests EXCEPT ![q] = None]
    /\ UNCHANGED <<clock, principals, claims, sessions, events>>

\* _select_session: scope always, owner only where the handler passes it.
InScope(s, scope) == sessions[s] # None /\ sessions[s].scope = scope

OwnedByAnyone(s, scope, owner) == InScope(s, scope)

Owned(s, scope, owner) == InScope(s, scope) /\ sessions[s].owner = owner

\* The row _append_event inserts.
EventOf(r, row, from) ==
    [session |-> r.session, scope |-> r.principal.scope, owner |-> row.owner,
     actor |-> r.principal.subject, from |-> from, to |-> row.status,
     version |-> row.version, proof |-> r.proof]

\* A session row and the event that records how it got there, in one transaction.
Write(q, row, from) ==
    /\ sessions' = [sessions EXCEPT ![requests[q].session] = row]
    /\ events' = events \cup {EventOf(requests[q], row, from)}
    /\ requests' = [requests EXCEPT ![q] = None]
    /\ UNCHANGED <<clock, principals, claims>>

Create(q) ==
    /\ At(q, "authorized", "register")
    /\ sessions[requests[q].session] = None
    /\ LET k == requests[q].principal IN
       Write(q, [scope |-> k.scope, owner |-> k.subject, status |-> "registered",
                 version |-> 1], None)

\* create_upload_url and complete_upload read the session first; the bucket is asked next.
ReadSession(q) ==
    /\ \E op \in {"presign", "uploaded"} : At(q, "authorized", op)
    /\ LET r == requests[q] IN Owned(r.session, r.principal.scope, r.principal.subject)
    /\ requests' = [requests EXCEPT ![q].step = "read"]
    /\ UNCHANGED <<clock, principals, claims, sessions, events>>

NextRow(row, to) == [row EXCEPT !.status = to, !.version = @ + 1]

Advance(q, from, to) ==
    LET row == sessions[requests[q].session] IN
    row.status = from /\ Write(q, NextRow(row, to), from)

\* A session that is no longer "registered" is answered without a change: EndRequest.
MarkUploaded(q) ==
    /\ At(q, "read", "uploaded")
    /\ LET r == requests[q] IN Owned(r.session, r.principal.scope, r.principal.subject)
    /\ Advance(q, "registered", "uploaded")

CompleteProcessing(q) ==
    /\ At(q, "authorized", "processing_completion")
    /\ InScope(requests[q].session, requests[q].principal.scope)
    /\ Advance(q, "uploaded", "processed")

-----------------------------------------------------------------------------

Tick ==
    /\ clock < MaxClock
    /\ clock' = clock + 1
    /\ UNCHANGED <<principals, claims, sessions, events, requests>>

Init ==
    /\ clock = 0
    /\ principals = [k \in Key |-> None]
    /\ claims = [p \in Proofs |-> None]
    /\ sessions = [s \in Sessions |-> None]
    /\ events = {}
    /\ requests = [q \in Requests |-> None]

Next ==
    \/ \E k \in Key : RegisterPrincipal(k) \/ RotateGeneration(k) \/ RevokePrincipal(k)
    \/ \E q \in Requests :
          \/ Authorize(q) \/ Create(q) \/ ReadSession(q) \/ MarkUploaded(q)
          \/ CompleteProcessing(q) \/ EndRequest(q)
    \/ Tick

Spec == Init /\ [][Next]_vars
-----------------------------------------------------------------------------
(***************************************************************************)
(* What the store answers about a session                                  *)
(***************************************************************************)

\* list_events of a scope: the whole history of the session, by version.
ListEvents(s, scope) == {e \in events : e.session = s /\ e.scope = scope}

\* resolve_session_capture_authority: the row joined with its registration event.
CaptureAuthority(s, scope) ==
    {[scope |-> sessions[s].scope, owner |-> sessions[s].owner] :
        e \in {e \in ListEvents(s, scope) :
                 /\ InScope(s, scope) /\ e.owner = sessions[s].owner
                 /\ e.from = None /\ e.to = "registered" /\ e.version = 1}}

-----------------------------------------------------------------------------
(***************************************************************************)
(* Properties                                                              *)
(***************************************************************************)

OperationFor(to) ==
    CASE to = "registered" -> "register" [] to = "uploaded" -> "uploaded"
      [] OTHER -> "processing_completion"

\* The claim of a proof: who it was made for, and for what.
ClaimedFor(p, subject, scope, op, s) ==
    /\ claims[p] # None
    /\ claims[p].principal = [subject |-> subject, scope |-> scope,
                              audience |-> AudienceOf(op)]
    /\ claims[p].op = op /\ claims[p].session = s

EventsClaimed ==
    \A e \in events : ClaimedFor(e.proof, e.actor, e.scope, OperationFor(e.to), e.session)

RequestsClaimed ==
    \A q \in Requests : requests[q] # None =>
        LET r == requests[q] IN
        ClaimedFor(r.proof, r.principal.subject, r.principal.scope, r.op, r.session)

ProofsUsedOnce ==
    /\ \A e, f \in events : e.proof = f.proof => e = f
    /\ \A q \in Requests : requests[q] # None =>
          /\ \A e \in events : e.proof # requests[q].proof
          /\ \A o \in Requests \ {q} :
                requests[o] # None => requests[o].proof # requests[q].proof

\* Every recorded change of a session, and every request a handler is serving, rests
\* on the claim of one proof made for exactly that principal, scope, operation and
\* session, and no two of them on the same: a proof is good for one request, and a
\* replay changes nothing (claim_workload_proof, _append_event).
EveryChangeAuthorized == EventsClaimed /\ RequestsClaimed /\ ProofsUsedOnce

EventsInScope ==
    \A e \in events : InScope(e.session, e.scope) /\ e.owner = sessions[e.session].owner

\* The log of one session against its row.
Explained(row, log) ==
    /\ {e.version : e \in log} = 1..row.version
    /\ \A e, f \in log :
          /\ e.version = f.version => e = f
          /\ f.version = e.version + 1 => f.from = e.to
    /\ \E e \in log : e.version = row.version /\ e.to = row.status
    /\ \A e \in log : e.to # "processed" => e.actor = row.owner

\* The events of a session explain its row: one per version, each leaving the state the
\* one before it reached, the last one the row's; all in the session's own scope, and
\* only its owner registered or uploaded it.  So resolve_session_capture_authority finds
\* an authority for every session, and it is the principal that registered it.
HistoryExplainsSession ==
    /\ EventsInScope
    /\ \A s \in Sessions : sessions[s] # None =>
          LET row == sessions[s] IN
          /\ Explained(row, ListEvents(s, row.scope))
          /\ CaptureAuthority(s, row.scope) = {[scope |-> row.scope, owner |-> row.owner]}

\* ADR 0018: the capture authority of a session is durable.  Once it resolves in a scope
\* no later upload, completion or administration changes it, or makes it unresolvable.
AuthorityStable ==
    [][\A s \in Sessions, scope \in Scopes :
          CaptureAuthority(s, scope) # {} =>
            CaptureAuthority(s, scope)' = CaptureAuthority(s, scope)]_vars

\* A revoked principal authorizes nothing later than its revocation, but for the time the
\* revocation waited for the lock with a clock value it had read; a claimed proof was not
\* expired by the clock of its claim, had at most its lifetime and the clock skew ahead of
\* it, and was of no generation beyond the one now active.
RevocationHolds ==
    \A p \in Proofs : claims[p] # None =>
        LET c == claims[p]
            row == principals[c.principal]
        IN  /\ row # None /\ c.generation <= row.generation
            /\ c.at < c.expires /\ c.expires <= c.at + ClockSkew + Lifetime
            /\ row.revoked # None => c.at <= row.revoked + AdminDelay

\* A claim, once made, is never changed or made again; a new one is of a principal that
\* is not revoked, of a generation no earlier claim of that principal exceeds, and was
\* less than ClaimDelay past its expiry when it was written (the clock is read before the
\* lock is taken).  A generation never goes back and a revocation is never undone.
ClaimsFenced ==
    [][/\ \A p \in Proofs : claims'[p] # claims[p] =>
             LET c == claims'[p] IN
             /\ claims[p] = None /\ Current(c.principal)
             /\ \A o \in Proofs :
                   claims[o] # None /\ claims[o].principal = c.principal
                     => claims[o].generation <= c.generation
             /\ clock < c.expires + ClaimDelay
       /\ \A k \in Key : principals[k] # None =>
             /\ principals'[k] # None
             /\ principals[k].generation <= principals'[k].generation
             /\ principals[k].revoked # None => principals'[k] = principals[k]]_vars
=============================================================================
