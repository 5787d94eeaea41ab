--------------------------- MODULE BrowserSession ---------------------------
(***************************************************************************)
(* The durable browser sessions of the private control routes:             *)
(* SQLiteBrowserSessionStore (browser_session_store.py) with its schema,   *)
(* and the guard every control route runs before its handler: cookie,      *)
(* resolve_session, validate_session_security.                             *)
(*                                                                         *)
(* A mutation reads the clock, then waits for BEGIN IMMEDIATE: a call in   *)
(* "calls" carries the time it read.  A request resolves the session with  *)
(* one read of its own, keeps the row it saw and validates it later.       *)
(***************************************************************************)
EXTENDS Integers, FiniteSets

CONSTANTS
    Identifiers,        \* SHA-256 digests offered as session identifiers
    Tokens,             \* SHA-256 digests offered as CSRF tokens
    Principals,         \* authenticated principals: subject, roles and scope
    Origins,            \* canonical browser origins
    Callers,            \* concurrent callers of the store's mutations
    Requests,           \* concurrent guarded requests
    None,               \* SQL null, or nothing in flight
    IdleLifetime,       \* _MAX_IDLE_LIFETIME, in clock units
    AbsoluteLifetime,   \* _MAX_ABSOLUTE_LIFETIME
    ClockSkew,          \* _MAX_CLOCK_SKEW
    MaxGeneration,      \* _MAX_GENERATION, 2^31 - 1 in the code
    MaxVersion,         \* bound of a state version, 2^63 - 1 in the code
    MaxAge,             \* bound: how long before its registration a login took place
    MaxDelay,           \* how old the clock value of a waiting call may get
    MaxClock,           \* bound: last clock value explored
    MaxInFlight         \* bound: calls and requests in flight at once

ASSUME LifetimeAssumption ==
    /\ IdleLifetime \in Nat \ {0} /\ AbsoluteLifetime \in Nat \ {0}
    /\ ClockSkew \in Nat /\ MaxAge \in Nat
    /\ MaxGeneration \in Nat \ {0} /\ MaxVersion \in Nat \ {0, 1}
    /\ MaxDelay \in Nat /\ MaxClock \in Nat /\ MaxInFlight \in Nat

VARIABLES
    clock,      \* wall-clock time
    sessions,   \* table browser_sessions, by session_identifier_digest
    digests,    \* table browser_session_digest_allocations: the kind of each spent digest
    calls,      \* mutations that have read the clock and not yet run their transaction
    requests    \* guarded requests between their steps

vars == <<clock, sessions, digests, calls, requests>>
tables == <<sessions, digests>>

-----------------------------------------------------------------------------
(***************************************************************************)
(* Rows and the policy they satisfy                                        *)
(***************************************************************************)

\* "login" is not a column: it names the identifier the session was registered with.
Row ==
    [csrf: Tokens, principal: Principals, origin: Origins,
     generation: 1..MaxGeneration, version: 1..(MaxVersion - 1),
     issued: Nat, authenticated: Nat, seen: Nat, idle: Nat, absolute: Nat,
     revoked: Nat \cup {None}, login: Identifiers]

\* The timestamp part of _validate_context with no clock.
WellOrdered(row) ==
    /\ row.issued <= row.authenticated /\ row.authenticated <= row.seen
    /\ row.seen < row.idle /\ row.idle <= row.absolute
    /\ row.absolute <= row.authenticated + AbsoluteLifetime
    /\ row.idle <= row.seen + IdleLifetime

ReadableUncapped(row) ==
    /\ row.generation <= row.version
    /\ row.revoked # None => row.issued <= row.revoked
    /\ WellOrdered(row)

\* _state_from_row: what a stored row must satisfy to be read at all.
Readable(row) ==
    /\ row.generation \in 1..MaxGeneration
    /\ row.version \in 1..(MaxVersion - 1)
    /\ row.generation <= row.version
    /\ row.revoked # None => row.issued <= row.revoked
    /\ WellOrdered(row)

CurrentUnlessIdle(row, now) ==
    /\ row.revoked = None
    /\ row.issued <= now + ClockSkew
    /\ row.authenticated <= now /\ row.seen <= now
    /\ now < row.absolute

\* _require_current, and the same tests in _validate_context.
RequireCurrent(row, now) ==
    /\ row.revoked = None
    /\ row.issued <= now + ClockSkew
    /\ row.authenticated <= now /\ row.seen <= now
    /\ now < row.idle /\ now < row.absolute

Call ==
    [op: {"register", "touch", "rotate", "revoke"}, digest: Identifiers, version: Nat,
     new: Identifiers, csrf: Tokens \cup {None}, row: Row \cup {None}, now: Nat]

\* A request keeps the row it resolved; "spent" records, for the properties only,
\* that its identifier was already retired or revoked when the request began.
Request ==
    [step: {"begun", "resolved", "authorized"}, digest: Identifiers, now: Nat,
     row: Row \cup {None}, spent: BOOLEAN]

ASSUME NoneAssumption ==
    None \notin Row \cup Call \cup Request \cup Nat \cup Tokens
                   \cup {"session_identifier", "csrf"}

Live(d) == sessions[d] # None /\ sessions[d].revoked = None

RoomForOneMore ==
    Cardinality({c \in Callers : calls[c] # None})
      + Cardinality({q \in Requests : requests[q] # None}) < MaxInFlight

Smaller(a, b) == IF a <= b THEN a ELSE b

-----------------------------------------------------------------------------
(***************************************************************************)
(* Calls: validation of the arguments and the clock read                   *)
(***************************************************************************)

Submit(c, call) ==
    /\ calls[c] = None /\ RoomForOneMore
    /\ calls' = [calls EXCEPT ![c] = call]
    /\ UNCHANGED <<clock, tables, requests>>

\* A login of at most MaxAge ago, with lifetimes the policy admits; the row is
\* validated and required to be current before the transaction starts.
SubmitRegister(c) ==
    \E d \in Identifiers, x \in Tokens, p \in Principals, o \in Origins,
       at \in {t \in 0..clock : clock <= t + MaxAge},
       idle \in (clock + 1)..(clock + IdleLifetime),
       absolute \in (clock + 1)..(clock + AbsoluteLifetime) :
        LET row == [csrf |-> x, principal |-> p, origin |-> o, generation |-> 1,
                    issued |-> at, authenticated |-> at, seen |-> at, idle |-> idle,
                    absolute |-> absolute, revoked |-> None, version |-> 1, login |-> d]
        IN /\ WellOrdered(row) /\ RequireCurrent(row, clock)
           /\ Submit(c, [op |-> "register", digest |-> d, version |-> 1, new |-> d,
                         csrf |-> x, row |-> row, now |-> clock])

\* A caller names an identifier and the state version it last saw.
SubmitChange(c, op) ==
    \E d, new \in Identifiers, x \in Tokens \cup {None} :
        /\ sessions[d] # None
        /\ sessions[d].version \in 1..(MaxVersion - 1)
        /\ IF op = "rotate" THEN new # d /\ x # None ELSE new = d /\ x = None
        /\ Submit(c, [op |-> op, digest |-> d, version |-> sessions[d].version,
                      new |-> new, csrf |-> x, row |-> None, now |-> clock])

-----------------------------------------------------------------------------
(***************************************************************************)
(* Transactions                                                            *)
(***************************************************************************)

Begin(c, op) ==
    /\ calls[c] # None
    /\ calls[c].op = op
    /\ calls' = [calls EXCEPT ![c] = None]
    /\ UNCHANGED <<clock, requests>>

ClaimStored(d, x) ==
    /\ d # x /\ sessions[d] = None
    /\ \A e \in Identifiers : sessions[e] # None => sessions[e].csrf # x
    /\ digests' = [digests EXCEPT ![d] = "session_identifier", ![x] = "csrf"]

\* _claim_digest_pair: the primary key refuses a digest that was ever allocated.
ClaimDigestPair(d, x) ==
    /\ d # x /\ digests[d] = None /\ digests[x] = None
    /\ digests' = [digests EXCEPT ![d] = "session_identifier", ![x] = "csrf"]

RegisterSession(c) ==
    LET call == calls[c]
    IN /\ Begin(c, "register")
       /\ ClaimDigestPair(call.digest, call.csrf)
       /\ sessions[call.digest] = None
       /\ sessions' = [sessions EXCEPT ![call.digest] = call.row]

\* The row of a call still has the version the caller saw, and can be read.
Expected(call) ==
    /\ sessions[call.digest] # None
    /\ Readable(sessions[call.digest])
    /\ sessions[call.digest].version = call.version

\* _active_for_mutation.
ActiveForMutation(call) ==
    Expected(call) /\ RequireCurrent(sessions[call.digest], call.now)

Touched(row, now) ==
    [row EXCEPT !.seen = now, !.version = @ + 1,
                !.idle = Smaller(now + IdleLifetime, row.absolute)]

\* The updated row is read back before the transaction commits.
TouchSession(c) ==
    LET call == calls[c]
        updated == Touched(sessions[call.digest], call.now)
    IN /\ Begin(c, "touch")
       /\ ActiveForMutation(call)
       /\ call.now < updated.idle
       /\ Readable(updated)
       /\ sessions' = [sessions EXCEPT ![call.digest] = updated]
       /\ UNCHANGED digests

RotatedKeepingOld(call, row) == [sessions EXCEPT ![call.new] = row]

Rotated(call, row) == [sessions EXCEPT ![call.digest] = None, ![call.new] = row]

RotateSession(c) ==
    LET call == calls[c]
        row == sessions[call.digest]
        updated == [row EXCEPT !.csrf = call.csrf, !.generation = @ + 1, !.version = @ + 1]
    IN /\ Begin(c, "rotate")
       /\ ActiveForMutation(call)
       /\ call.csrf # row.csrf
       /\ row.generation < MaxGeneration
       /\ ClaimDigestPair(call.new, call.csrf)
       /\ Readable(updated)
       /\ sessions' = Rotated(call, updated)

RevocableWhileCurrent(call) == ActiveForMutation(call)

\* Expiry is not tested: an expired session can still be revoked.
Revocable(call) ==
    /\ Expected(call)
    /\ sessions[call.digest].revoked = None
    /\ sessions[call.digest].seen <= call.now

RevokeSession(c) ==
    LET call == calls[c]
        updated == [sessions[call.digest] EXCEPT !.revoked = call.now, !.version = @ + 1]
    IN /\ Begin(c, "revoke")
       /\ Revocable(call)
       /\ Readable(updated)
       /\ sessions' = [sessions EXCEPT ![call.digest] = updated]
       /\ UNCHANGED digests

\* A refusal, a busy database or a failed statement rolls everything back.
Rollback(c) ==
    /\ calls[c] # None
    /\ calls' = [calls EXCEPT ![c] = None]
    /\ UNCHANGED <<clock, tables, requests>>

-----------------------------------------------------------------------------
(***************************************************************************)
(* The guard of a control route                                            *)
(***************************************************************************)

\* The cookie is parsed and hashed and resolve_session reads the clock.
BeginRequest(q) ==
    /\ requests[q] = None /\ RoomForOneMore
    /\ \E d \in Identifiers :
         requests' = [requests EXCEPT ![q] =
            [step |-> "begun", digest |-> d, now |-> clock, row |-> None,
             spent |-> digests[d] # None /\ ~Live(d)]]
    /\ UNCHANGED <<clock, tables, calls>>

\* resolve_session: one select, then the policy against the clock read before it.
ResolveSession(q) ==
    LET r == requests[q]
        row == sessions[r.digest]
    IN /\ r # None /\ r.step = "begun"
       /\ row # None
       /\ Readable(row) /\ RequireCurrent(row, r.now)
       /\ requests' = [requests EXCEPT ![q] = [r EXCEPT !.step = "resolved", !.row = row]]
       /\ UNCHANGED <<clock, tables, calls>>

\* validate_session_security: the exact principal, and for an unsafe method one exact
\* origin and the CSRF token of the resolved row.
EvidenceMatches(row, principal, unsafe, origin, csrf) ==
    /\ principal = row.principal
    /\ unsafe => origin = row.origin /\ csrf = row.csrf

\* require_control_session_security: identity and headers of the request, and the
\* resolved row against the clock now.
ValidateSessionSecurity(q) ==
    LET r == requests[q]
    IN /\ r # None /\ r.step = "resolved"
       /\ WellOrdered(r.row) /\ RequireCurrent(r.row, clock)
       /\ \E p \in Principals, o \in Origins, x \in Tokens, unsafe \in BOOLEAN :
            EvidenceMatches(r.row, p, unsafe, o, x)
       /\ requests' = [requests EXCEPT ![q].step = "authorized"]
       /\ UNCHANGED <<clock, tables, calls>>

\* 401 or 503 at any step, or the handler's answer.
EndRequest(q) ==
    /\ requests[q] # None
    /\ requests' = [requests EXCEPT ![q] = None]
    /\ UNCHANGED <<clock, tables, calls>>

Tick ==
    /\ clock < MaxClock
    /\ \A c \in Callers : calls[c] # None => clock + 1 <= calls[c].now + MaxDelay
    /\ clock' = clock + 1
    /\ UNCHANGED <<tables, calls, requests>>

-----------------------------------------------------------------------------
Init ==
    /\ clock = 0
    /\ sessions = [d \in Identifiers |-> None]
    /\ digests = [d \in Identifiers \cup Tokens |-> None]
    /\ calls = [c \in Callers |-> None]
    /\ requests = [q \in Requests |-> None]

Next ==
    \/ Tick
    \/ \E c \in Callers :
         \/ SubmitRegister(c)
         \/ \E op \in {"touch", "rotate", "revoke"} : SubmitChange(c, op)
         \/ RegisterSession(c) \/ TouchSession(c) \/ RotateSession(c) \/ RevokeSession(c)
         \/ Rollback(c)
    \/ \E q \in Requests :
         BeginRequest(q) \/ ResolveSession(q) \/ ValidateSessionSecurity(q) \/ EndRequest(q)

Spec == Init /\ [][Next]_vars

-----------------------------------------------------------------------------
(***************************************************************************)
(* Properties                                                              *)
(***************************************************************************)

\* Every variable stays in the set its table or its call admits.
TypeOK ==
    /\ clock \in Nat
    /\ sessions \in [Identifiers -> Row \cup {None}]
    /\ digests \in [Identifiers \cup Tokens -> {"session_identifier", "csrf", None}]
    /\ calls \in [Callers -> Call \cup {None}]
    /\ requests \in [Requests -> Request \cup {None}]

\* Rotation hands a session over: however rotations, touches and re-registrations
\* race, one login never has two stored identifiers, and no two sessions share a
\* CSRF token.
OneIdentifierPerLogin ==
    \A d, e \in Identifiers :
        (sessions[d] # None /\ sessions[e] # None /\ d # e) =>
            /\ sessions[d].login # sessions[e].login
            /\ sessions[d].csrf # sessions[e].csrf

\* A request that arrives after its identifier was rotated away or revoked never
\* reaches a handler, although the guard reads the row and validates it later.
LateRequestRefused ==
    \A q \in Requests :
        requests[q] # None /\ requests[q].step # "begun" => ~requests[q].spent

\* Changes a session's own stay under its identifier admits: touches and a revocation,
\* each with a new state version.
OnlyAged(old, new) ==
    /\ old.revoked = None /\ old.version <= new.version
    /\ old.version = new.version => new = old
    /\ new = [old EXCEPT !.version = new.version, !.seen = new.seen, !.idle = new.idle,
                         !.revoked = new.revoked]

\* The row a request keeps between the guard's select, its validation and its handler
\* goes stale in one direction only.  Touched or revoked since, the stored row has a
\* later version, so the select came before the revocation; rotated away, the
\* identifier names nothing: what it names is never another login, or another token.
ResolvedRowOnlyAges ==
    \A q \in Requests :
        LET r == requests[q]
        IN (r # None /\ r.step # "begun" /\ sessions[r.digest] # None) =>
               OnlyAged(r.row, sessions[r.digest])

\* What a handler behind the guard may rely on: its session was alive after the request
\* began, and is still the one the guard read, if it is there at all.
GuardSound == LateRequestRefused /\ ResolvedRowOnlyAges

\* Whatever the order of touches, rotations and stale clocks, a session its user has
\* not lost can be revoked at once: a revocation that reads the clock now is accepted.
RevocationNeverBlocked ==
    \A d \in Identifiers :
        Live(d) /\ sessions[d].version < MaxVersion - 1 =>
            Revocable([digest |-> d, version |-> sessions[d].version, now |-> clock])

\* A spent digest never opens a session again: not by re-registration, not by a
\* rotation back to it, and no late touch or rotation undoes a revocation.
DeadForever ==
    [][\A d \in Identifiers : digests[d] # None /\ ~Live(d) => ~Live(d)']_vars

\* A session that ran out is renewed by a late touch or rotation only if that call
\* had read the clock in time: once MaxDelay has passed it can only be revoked.
ExpiryFinal ==
    [][\A d \in Identifiers :
         sessions[d] # None /\ sessions[d].idle + MaxDelay <= clock =>
            /\ sessions'[d] # None
            /\ sessions'[d] # sessions[d] => sessions'[d].revoked # None]_vars
=============================================================================
