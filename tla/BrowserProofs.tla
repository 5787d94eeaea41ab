--------------------------- MODULE BrowserProofs ---------------------------
(***************************************************************************)
(* Proofs about BrowserSession for every set of digests, callers and       *)
(* requests, every lifetime and every delay of a waiting call.             *)
(***************************************************************************)
EXTENDS BrowserSession, TLAPS

-----------------------------------------------------------------------------
(***************************************************************************)
(* The inductive invariant                                                 *)
(***************************************************************************)

\* A waiting call read the clock at most MaxDelay ago; a registration carries a row
\* the policy admits; a rotation brings a new pair.
CallOK(call) ==
    /\ call.now <= clock /\ clock <= call.now + MaxDelay
    /\ call.op = "register" =>
         /\ call.row \in Row /\ Readable(call.row) /\ call.row.seen <= call.now
         /\ call.row.login = call.digest /\ call.row.csrf = call.csrf
         /\ call.csrf \in Tokens
    /\ call.op = "rotate" => call.csrf \in Tokens /\ call.new # call.digest

CallsOK == \A c \in Callers : calls[c] # None => CallOK(calls[c])

\* Every stored row can be read back and was last seen in the past.
RowsOK ==
    \A d \in Identifiers :
        sessions[d] # None => Readable(sessions[d]) /\ sessions[d].seen <= clock

\* Whatever a row names has been allocated.
Allocated ==
    \A d \in Identifiers :
        sessions[d] # None => /\ digests[d] # None
                              /\ digests[sessions[d].csrf] # None
                              /\ digests[sessions[d].login] # None

\* A request for a spent identifier has not been resolved.
RequestsOK ==
    \A q \in Requests :
        requests[q] # None /\ requests[q].spent =>
            /\ requests[q].step = "begun"
            /\ digests[requests[q].digest] # None /\ ~Live(requests[q].digest)

IInv == TypeOK /\ CallsOK /\ RowsOK /\ Allocated /\ OneIdentifierPerLogin /\ RequestsOK

-----------------------------------------------------------------------------
(***************************************************************************)
(* Rows                                                                    *)
(***************************************************************************)

\* What the fields of a row are.
LEMMA RowFields ==
    ASSUME NEW row \in Row
    PROVE  /\ row.generation \in Nat /\ row.version \in Nat
           /\ row.issued \in Nat /\ row.authenticated \in Nat /\ row.seen \in Nat
           /\ row.idle \in Nat /\ row.absolute \in Nat /\ row.revoked \in Nat \cup {None}
           /\ row.csrf \in Tokens /\ row.login \in Identifiers
BY LifetimeAssumption DEF Row

LEMMA CallFields ==
    ASSUME NEW call \in Call
    PROVE  /\ call.op \in {"register", "touch", "rotate", "revoke"}
           /\ call.digest \in Identifiers /\ call.new \in Identifiers
           /\ call.version \in Nat /\ call.now \in Nat /\ call.csrf \in Tokens \cup {None}
           /\ call.row \in Row \cup {None}
BY DEF Call

\* A renewed row that can be read back is a row.
LEMMA TouchedRow ==
    ASSUME NEW row \in Row, NEW t \in Nat, Readable(Touched(row, t))
    PROVE  /\ Touched(row, t) \in Row /\ Touched(row, t).seen = t
           /\ Touched(row, t).login = row.login /\ Touched(row, t).csrf = row.csrf
<1>1. Smaller(t + IdleLifetime, row.absolute) \in Nat
  BY RowFields, LifetimeAssumption DEF Smaller
<1>2. row.version + 1 \in Nat
  BY RowFields
<1>3. QED
  BY <1>1, <1>2 DEF Touched, Readable, Row

\* A rotated row that can be read back is a row.
LEMMA RotatedRow ==
    ASSUME NEW row \in Row, NEW x \in Tokens,
           Readable([row EXCEPT !.csrf = x, !.generation = @ + 1, !.version = @ + 1])
    PROVE  [row EXCEPT !.csrf = x, !.generation = @ + 1, !.version = @ + 1] \in Row
BY DEF Readable, Row

\* A revoked row that can be read back is a row.
LEMMA RevokedRow ==
    ASSUME NEW row \in Row, NEW t \in Nat,
           Readable([row EXCEPT !.revoked = t, !.version = @ + 1])
    PROVE  [row EXCEPT !.revoked = t, !.version = @ + 1] \in Row
BY DEF Readable, Row

\* A touch and a revocation age a live row.
LEMMA TouchAges ==
    ASSUME NEW row \in Row, NEW t, row.revoked = None
    PROVE  OnlyAged(row, Touched(row, t))
<1> DEFINE new == Touched(row, t)
<1>1. new.version = row.version + 1 /\ new.revoked = row.revoked
  BY DEF Touched, Row
<1>2. new = [row EXCEPT !.version = new.version, !.seen = new.seen, !.idle = new.idle,
                        !.revoked = new.revoked]
  BY DEF Touched, Row
<1>3. row.version \in Nat
  BY RowFields
<1> HIDE DEF new
<1>4. OnlyAged(row, new)
  BY <1>1, <1>2, <1>3 DEF OnlyAged
<1>5. QED
  BY <1>4 DEF new

LEMMA RevokeAges ==
    ASSUME NEW row \in Row, NEW t, row.revoked = None
    PROVE  OnlyAged(row, [row EXCEPT !.revoked = t, !.version = @ + 1])
<1> DEFINE new == [row EXCEPT !.revoked = t, !.version = @ + 1]
<1>1. new.version = row.version + 1
  BY DEF Row
<1>2. new = [row EXCEPT !.version = new.version, !.seen = new.seen, !.idle = new.idle,
                        !.revoked = new.revoked]
  BY DEF Row
<1>3. row.version \in Nat
  BY RowFields
<1> HIDE DEF new
<1>4. OnlyAged(row, new)
  BY <1>1, <1>2, <1>3 DEF OnlyAged
<1>5. QED
  BY <1>4 DEF new

-----------------------------------------------------------------------------
(***************************************************************************)
(* What a step does to the tables                                          *)
(***************************************************************************)

\* No table changes.
Quiet == UNCHANGED tables

\* A call, and only that call, is taken and its transaction commits.
Taken(c) ==
    /\ c \in Callers /\ calls[c] # None /\ calls[c] \in Call /\ CallOK(calls[c])
    /\ calls' = [calls EXCEPT ![c] = None]
    /\ UNCHANGED <<clock, requests>>

\* A pair of unused digests is allocated and one of them gets a row.
Opened(d, x, row) ==
    /\ d \in Identifiers /\ x \in Tokens /\ row \in Row /\ Readable(row)
    /\ row.seen <= clock /\ row.csrf = x
    /\ digests[d] = None /\ digests[x] = None
    /\ digests' = [digests EXCEPT ![d] = "session_identifier", ![x] = "csrf"]

Registers(d, x, row) ==
    /\ Opened(d, x, row) /\ row.login = d
    /\ sessions' = [sessions EXCEPT ![d] = row]

\* A row that was current at most MaxDelay ago moves to a new identifier.
Rotates(d, e, x, row) ==
    /\ Opened(e, x, row) /\ d \in Identifiers /\ d # e
    /\ sessions[d] # None /\ Live(d) /\ row.login = sessions[d].login
    /\ clock < sessions[d].idle + MaxDelay
    /\ sessions' = [sessions EXCEPT ![d] = None, ![e] = row]

\* A live row is renewed or revoked in its place; it is renewed only if it was current
\* at most MaxDelay ago.
Updates(d, row) ==
    /\ d \in Identifiers /\ sessions[d] # None /\ Live(d)
    /\ row \in Row /\ Readable(row) /\ row.seen <= clock
    /\ row.login = sessions[d].login /\ row.csrf = sessions[d].csrf
    /\ row.revoked # None \/ clock < sessions[d].idle + MaxDelay
    /\ OnlyAged(sessions[d], row)
    /\ sessions' = [sessions EXCEPT ![d] = row] /\ UNCHANGED digests

LEMMA TakenStep ==
    ASSUME IInv, NEW c \in Callers, NEW op, Begin(c, op)
    PROVE  Taken(c) /\ calls[c].op = op
BY DEF IInv, TypeOK, CallsOK, Begin, Taken

LEMMA RegisterStep ==
    ASSUME IInv, NEW c \in Callers, RegisterSession(c)
    PROVE  Taken(c) /\ Registers(calls[c].digest, calls[c].csrf, calls[c].row)
<1>1. Taken(c) /\ calls[c].op = "register"
  BY TakenStep DEF RegisterSession
<1>2. /\ calls[c].digest \in Identifiers /\ calls[c].csrf \in Tokens
      /\ calls[c].row \in Row /\ Readable(calls[c].row)
      /\ calls[c].row.seen <= calls[c].now /\ calls[c].now <= clock
      /\ calls[c].row.csrf = calls[c].csrf /\ calls[c].row.login = calls[c].digest
  BY <1>1, CallFields DEF Taken, CallOK
<1>3. calls[c].row.seen \in Nat /\ calls[c].now \in Nat /\ clock \in Nat
  BY <1>1, <1>2, CallFields, RowFields DEF Taken, IInv, TypeOK
<1>4. calls[c].row.seen <= clock
  BY <1>2, <1>3
<1>5. QED
  BY <1>1, <1>2, <1>4 DEF RegisterSession, ClaimDigestPair, Registers, Opened

\* A call in flight finds a row that was current when it read the clock.
LEMMA ActiveRow ==
    ASSUME IInv, NEW c \in Callers, Taken(c), ActiveForMutation(calls[c])
    PROVE  LET d == calls[c].digest
           IN  /\ d \in Identifiers /\ sessions[d] \in Row /\ sessions[d] # None /\ Live(d)
               /\ sessions[d].seen <= calls[c].now /\ calls[c].now \in Nat
               /\ calls[c].now <= clock /\ clock < sessions[d].idle + MaxDelay
<1> DEFINE d == calls[c].digest
<1>1. d \in Identifiers /\ calls[c].now \in Nat /\ clock \in Nat
  BY CallFields DEF Taken, IInv, TypeOK
<1>2. sessions[d] # None /\ sessions[d] \in Row
  BY <1>1 DEF ActiveForMutation, Expected, IInv, TypeOK
<1>3. /\ sessions[d].revoked = None /\ sessions[d].seen <= calls[c].now
      /\ calls[c].now < sessions[d].idle
  BY DEF ActiveForMutation, RequireCurrent
<1>4. calls[c].now <= clock /\ clock <= calls[c].now + MaxDelay
  BY DEF Taken, CallOK
<1>5. clock < sessions[d].idle + MaxDelay
  BY <1>1, <1>2, <1>3, <1>4, RowFields, LifetimeAssumption
<1>6. QED
  BY <1>1, <1>2, <1>3, <1>4, <1>5 DEF Live

LEMMA TouchStep ==
    ASSUME IInv, NEW c \in Callers, TouchSession(c)
    PROVE  Taken(c) /\ Updates(calls[c].digest,
                               Touched(sessions[calls[c].digest], calls[c].now))
<1> DEFINE d == calls[c].digest
<1> DEFINE row == Touched(sessions[d], calls[c].now)
<1>1. Taken(c) /\ ActiveForMutation(calls[c])
  BY TakenStep DEF TouchSession
<1>2. /\ d \in Identifiers /\ sessions[d] \in Row /\ sessions[d] # None /\ Live(d)
      /\ calls[c].now \in Nat /\ calls[c].now <= clock
      /\ clock < sessions[d].idle + MaxDelay
  BY <1>1, ActiveRow
<1>3. Readable(row) /\ sessions' = [sessions EXCEPT ![d] = row] /\ UNCHANGED digests
  BY DEF TouchSession
<1>4. /\ row \in Row /\ row.seen = calls[c].now
      /\ row.login = sessions[d].login /\ row.csrf = sessions[d].csrf
  BY <1>2, <1>3, TouchedRow
<1>5. OnlyAged(sessions[d], row)
  BY <1>2, TouchAges DEF Live
<1>6. QED
  BY <1>1, <1>2, <1>3, <1>4, <1>5 DEF Updates

LEMMA RotateStep ==
    ASSUME IInv, NEW c \in Callers, RotateSession(c)
    PROVE  Taken(c) /\ \E row : Rotates(calls[c].digest, calls[c].new, calls[c].csrf, row)
<1> DEFINE d == calls[c].digest
<1> DEFINE old == sessions[d]
<1> DEFINE row == [old EXCEPT !.csrf = calls[c].csrf, !.generation = @ + 1,
                              !.version = @ + 1]
<1>1. Taken(c) /\ calls[c].op = "rotate" /\ ActiveForMutation(calls[c])
  BY TakenStep DEF RotateSession
<1>2. /\ d \in Identifiers /\ old \in Row /\ old # None /\ Live(d)
      /\ calls[c].now \in Nat /\ old.seen <= calls[c].now /\ calls[c].now <= clock
      /\ clock < old.idle + MaxDelay
  BY <1>1, ActiveRow
<1>3. /\ Readable(row) /\ ClaimDigestPair(calls[c].new, calls[c].csrf)
      /\ sessions' = [sessions EXCEPT ![d] = None, ![calls[c].new] = row]
  BY DEF RotateSession, Rotated
<1>4. calls[c].csrf \in Tokens /\ calls[c].new \in Identifiers /\ calls[c].new # d
  BY <1>1, CallFields DEF Taken, CallOK
<1>5. row \in Row
  BY <1>2, <1>3, <1>4, RotatedRow
<1>6. row.csrf = calls[c].csrf /\ row.login = old.login /\ row.seen = old.seen
  BY <1>2 DEF Row
<1>7. row.seen <= clock
  BY <1>2, <1>6, RowFields DEF IInv, TypeOK
<1>8. Rotates(d, calls[c].new, calls[c].csrf, row)
  BY <1>2, <1>3, <1>4, <1>5, <1>6, <1>7 DEF Rotates, Opened, ClaimDigestPair
<1>9. QED
  BY <1>1, <1>8

LEMMA RevokeStep ==
    ASSUME IInv, NEW c \in Callers, RevokeSession(c)
    PROVE  Taken(c) /\ \E row : Updates(calls[c].digest, row) /\ row.revoked # None
<1> DEFINE d == calls[c].digest
<1> DEFINE row == [sessions[d] EXCEPT !.revoked = calls[c].now, !.version = @ + 1]
<1>1. Taken(c) /\ Revocable(calls[c])
  BY TakenStep DEF RevokeSession
<1>2. d \in Identifiers /\ calls[c].now \in Nat /\ clock \in Nat
  BY <1>1, CallFields DEF Taken, IInv, TypeOK
<1>3. sessions[d] \in Row /\ sessions[d] # None /\ Live(d) /\ sessions[d].seen <= clock
  BY <1>1, <1>2 DEF Revocable, Expected, Live, IInv, TypeOK, RowsOK
<1>4. Readable(row) /\ sessions' = [sessions EXCEPT ![d] = row] /\ UNCHANGED digests
  BY DEF RevokeSession
<1>5. row \in Row
  BY <1>2, <1>3, <1>4, RevokedRow
<1>6. /\ row.seen = sessions[d].seen /\ row.login = sessions[d].login
      /\ row.csrf = sessions[d].csrf /\ row.revoked = calls[c].now
  BY <1>3 DEF Row
<1>7. row.revoked # None
  BY <1>2, <1>6, NoneAssumption
<1>8. OnlyAged(sessions[d], row)
  BY <1>3, RevokeAges DEF Live
<1>9. QED
  BY <1>1, <1>2, <1>3, <1>4, <1>5, <1>6, <1>7, <1>8 DEF Updates

\* The three ways in which a transaction changes the tables.
Commits ==
    \E c \in Callers :
        /\ Taken(c)
        /\ \/ \E d, x, row : Registers(d, x, row)
           \/ \E d, e, x, row : Rotates(d, e, x, row)
           \/ \E d, row : Updates(d, row)

LEMMA StepCases ==
    ASSUME IInv, [Next]_vars
    PROVE  Quiet \/ Commits
<1>1. CASE UNCHANGED vars
  BY <1>1 DEF vars, tables, Quiet
<1>2. CASE Tick
  BY <1>2 DEF Tick, tables, Quiet
<1>3. ASSUME NEW c \in Callers, SubmitRegister(c) PROVE Quiet
  BY <1>3 DEF SubmitRegister, Submit, tables, Quiet
<1>4. ASSUME NEW c \in Callers, NEW op, SubmitChange(c, op) PROVE Quiet
  BY <1>4 DEF SubmitChange, Submit, tables, Quiet
<1>5. ASSUME NEW c \in Callers,
             RegisterSession(c) \/ TouchSession(c) \/ RotateSession(c) \/ RevokeSession(c)
      PROVE  Commits
  BY <1>5, RegisterStep, TouchStep, RotateStep, RevokeStep DEF Commits
<1>6. ASSUME NEW c \in Callers, Rollback(c) PROVE Quiet
  BY <1>6 DEF Rollback, tables, Quiet
<1>7. ASSUME NEW q \in Requests,
             BeginRequest(q) \/ ResolveSession(q) \/ ValidateSessionSecurity(q) \/ EndRequest(q)
      PROVE  Quiet
  BY <1>7 DEF BeginRequest, ResolveSession, ValidateSessionSecurity, EndRequest, tables, Quiet
<1>8. QED
  BY <1>1, <1>2, <1>3, <1>4, <1>5, <1>6, <1>7 DEF Next

-----------------------------------------------------------------------------
(***************************************************************************)
(* The tables keep their invariants                                        *)
(***************************************************************************)

\* A submitted registration carries a readable row.
LEMMA SubmittedRow ==
    ASSUME NEW row \in Row, row.generation = 1, row.version = 1, row.revoked = None,
           WellOrdered(row)
    PROVE  Readable(row)
BY LifetimeAssumption DEF Readable

LEMMA SubmitRegisterCall ==
    ASSUME IInv, NEW c \in Callers, SubmitRegister(c)
    PROVE  \E call \in Call : Submit(c, call) /\ CallOK(call)
<1>1. PICK d \in Identifiers, x \in Tokens, p \in Principals, o \in Origins,
           at \in {t \in 0..clock : clock <= t + MaxAge},
           idle \in (clock + 1)..(clock + IdleLifetime),
           absolute \in (clock + 1)..(clock + AbsoluteLifetime) :
        LET row == [csrf |-> x, principal |-> p, origin |-> o, generation |-> 1,
                    issued |-> at, authenticated |-> at, seen |-> at, idle |-> idle,
                    absolute |-> absolute, revoked |-> None, version |-> 1, login |-> d]
        IN /\ WellOrdered(row) /\ RequireCurrent(row, clock)
           /\ Submit(c, [op |-> "register", digest |-> d, version |-> 1, new |-> d,
                         csrf |-> x, row |-> row, now |-> clock])
  BY DEF SubmitRegister
<1> DEFINE row == [csrf |-> x, principal |-> p, origin |-> o, generation |-> 1,
                   issued |-> at, authenticated |-> at, seen |-> at, idle |-> idle,
                   absolute |-> absolute, revoked |-> None, version |-> 1, login |-> d]
<1> DEFINE call == [op |-> "register", digest |-> d, version |-> 1, new |-> d,
                    csrf |-> x, row |-> row, now |-> clock]
<1>2. clock \in Nat /\ at \in Nat /\ idle \in Nat /\ absolute \in Nat
  BY LifetimeAssumption DEF IInv, TypeOK
<1>3. row \in Row
  BY <1>2, LifetimeAssumption DEF Row
<1>4. Readable(row)
  BY <1>1, <1>3, SubmittedRow
<1>5. call \in Call
  BY <1>2, <1>3 DEF Call
<1>6. row.seen <= clock
  BY <1>2
<1>7. CallOK(call)
  <2>1. clock <= clock /\ clock <= clock + MaxDelay
    BY <1>2, LifetimeAssumption
  <2>2. call.op = "register" =>
          /\ call.row \in Row /\ Readable(call.row) /\ call.row.seen <= call.now
          /\ call.row.login = call.digest /\ call.row.csrf = call.csrf
          /\ call.csrf \in Tokens
    BY <1>3, <1>4, <1>6
  <2>3. QED
    BY <2>1, <2>2 DEF CallOK
<1>8. QED
  BY <1>1, <1>5, <1>7

LEMMA SubmitChangeCall ==
    ASSUME IInv, NEW c \in Callers, NEW op \in {"touch", "rotate", "revoke"},
           SubmitChange(c, op)
    PROVE  \E call \in Call : Submit(c, call) /\ CallOK(call)
<1>1. PICK d \in Identifiers, new \in Identifiers, x \in Tokens \cup {None} :
        /\ sessions[d] # None
        /\ sessions[d].version \in 1..(MaxVersion - 1)
        /\ IF op = "rotate" THEN new # d /\ x # None ELSE new = d /\ x = None
        /\ Submit(c, [op |-> op, digest |-> d, version |-> sessions[d].version,
                      new |-> new, csrf |-> x, row |-> None, now |-> clock])
  BY DEF SubmitChange
<1> DEFINE call == [op |-> op, digest |-> d, version |-> sessions[d].version,
                    new |-> new, csrf |-> x, row |-> None, now |-> clock]
<1>2. clock \in Nat /\ sessions[d].version \in Nat
  BY <1>1, LifetimeAssumption DEF IInv, TypeOK
<1>3. call \in Call
  BY <1>2 DEF Call
<1>4. clock <= clock /\ clock <= clock + MaxDelay
  BY <1>2, LifetimeAssumption
<1>5. CallOK(call)
  BY <1>1, <1>4 DEF CallOK
<1>6. QED
  BY <1>1, <1>3, <1>5

\* Tables and calls keep their types.
LEMMA TypeTables ==
    ASSUME IInv, Commits
    PROVE  TypeOK'
<1>1. PICK c \in Callers :
        /\ Taken(c)
        /\ \/ \E d, x, row : Registers(d, x, row)
           \/ \E d, e, x, row : Rotates(d, e, x, row)
           \/ \E d, row : Updates(d, row)
  BY DEF Commits
<1>2. /\ calls' \in [Callers -> Call \cup {None}] /\ clock' \in Nat
      /\ requests' \in [Requests -> Request \cup {None}]
  BY <1>1 DEF Taken, IInv, TypeOK
<1>3. ASSUME NEW d, NEW x, NEW row, Registers(d, x, row) PROVE TypeOK'
  BY <1>2, <1>3 DEF Registers, Opened, IInv, TypeOK
<1>4. ASSUME NEW d, NEW e, NEW x, NEW row, Rotates(d, e, x, row) PROVE TypeOK'
  BY <1>2, <1>4 DEF Rotates, Opened, IInv, TypeOK
<1>5. ASSUME NEW d, NEW row, Updates(d, row) PROVE TypeOK'
  BY <1>2, <1>5 DEF Updates, IInv, TypeOK
<1>6. QED
  BY <1>1, <1>3, <1>4, <1>5

\* A request keeps a row it has read.
LEMMA RequestTypes ==
    ASSUME IInv, NEW q \in Requests,
           BeginRequest(q) \/ ResolveSession(q) \/ ValidateSessionSecurity(q) \/ EndRequest(q)
    PROVE  requests' \in [Requests -> Request \cup {None}]
<1> DEFINE r == requests[q]
<1>1. requests \in [Requests -> Request \cup {None}] /\ clock \in Nat
      /\ sessions \in [Identifiers -> Row \cup {None}]
  BY DEF IInv, TypeOK
<1>2. CASE BeginRequest(q)
  <2>1. PICK d \in Identifiers :
          requests' = [requests EXCEPT ![q] =
            [step |-> "begun", digest |-> d, now |-> clock, row |-> None,
             spent |-> digests[d] # None /\ ~Live(d)]]
    BY <1>2 DEF BeginRequest
  <2>2. (digests[d] # None /\ ~Live(d)) \in BOOLEAN
    OBVIOUS
  <2>3. [step |-> "begun", digest |-> d, now |-> clock, row |-> None,
             spent |-> digests[d] # None /\ ~Live(d)] \in Request
    BY <1>1, <2>2 DEF Request
  <2>4. QED
    BY <1>1, <2>1, <2>3
<1>3. CASE ResolveSession(q)
  <2>1. r \in Request /\ sessions[r.digest] \in Row \cup {None}
    BY <1>1, <1>3 DEF ResolveSession, Request
  <2>2. [r EXCEPT !.step = "resolved", !.row = sessions[r.digest]] \in Request
    BY <2>1 DEF Request
  <2>3. QED
    BY <1>1, <1>3, <2>2 DEF ResolveSession
<1>4. CASE ValidateSessionSecurity(q)
  <2>1. r \in Request
    BY <1>1, <1>4 DEF ValidateSessionSecurity
  <2>2. [r EXCEPT !.step = "authorized"] \in Request
    BY <2>1 DEF Request
  <2>3. requests' = [requests EXCEPT ![q] = [r EXCEPT !.step = "authorized"]]
    BY <1>4 DEF ValidateSessionSecurity
  <2>4. QED
    BY <1>1, <2>2, <2>3
<1>5. CASE EndRequest(q)
  BY <1>1, <1>5 DEF EndRequest
<1>6. QED
  BY <1>2, <1>3, <1>4, <1>5

LEMMA TypeNext ==
    ASSUME IInv, [Next]_vars
    PROVE  TypeOK'
<1>1. CASE UNCHANGED vars
  BY <1>1 DEF vars, IInv, TypeOK
<1>2. CASE Tick
  BY <1>2 DEF Tick, tables, IInv, TypeOK
<1>3. ASSUME NEW c \in Callers, NEW call \in Call, Submit(c, call) PROVE TypeOK'
  BY <1>3 DEF Submit, tables, IInv, TypeOK
<1>4. ASSUME NEW c \in Callers, Rollback(c) PROVE TypeOK'
  BY <1>4 DEF Rollback, tables, IInv, TypeOK
<1>5. ASSUME NEW c \in Callers,
             RegisterSession(c) \/ TouchSession(c) \/ RotateSession(c) \/ RevokeSession(c)
      PROVE  TypeOK'
  <2>1. Commits
    BY <1>5, RegisterStep, TouchStep, RotateStep, RevokeStep DEF Commits
  <2>2. QED
    BY <2>1, TypeTables
<1>6. ASSUME NEW q \in Requests,
             BeginRequest(q) \/ ResolveSession(q) \/ ValidateSessionSecurity(q) \/ EndRequest(q)
      PROVE  TypeOK'
  <2>1. UNCHANGED <<clock, sessions, digests, calls>>
    BY <1>6 DEF BeginRequest, ResolveSession, ValidateSessionSecurity, EndRequest, tables
  <2>2. requests' \in [Requests -> Request \cup {None}]
    BY <1>6, RequestTypes
  <2>3. QED
    BY <2>1, <2>2 DEF IInv, TypeOK
<1>7. QED
  BY <1>1, <1>2, <1>3, <1>4, <1>5, <1>6, SubmitRegisterCall, SubmitChangeCall DEF Next

LEMMA CallsNext ==
    ASSUME IInv, [Next]_vars
    PROVE  CallsOK'
<1>0. calls \in [Callers -> Call \cup {None}] /\ clock \in Nat
  BY DEF IInv, TypeOK
<1>1. CASE UNCHANGED <<calls, clock>>
  BY <1>1 DEF IInv, CallsOK, CallOK
<1>2. CASE Tick
  <2>1. SUFFICES ASSUME NEW c \in Callers, calls[c] # None PROVE CallOK(calls[c])'
    BY <1>2 DEF Tick, CallsOK
  <2>2. CallOK(calls[c]) /\ calls[c].now \in Nat
    BY <1>0, <2>1, CallFields DEF IInv, CallsOK
  <2>3. clock' = clock + 1 /\ clock + 1 <= calls[c].now + MaxDelay /\ UNCHANGED calls
    BY <1>2, <2>1 DEF Tick
  <2>4. calls[c].now <= clock + 1
    BY <1>0, <2>2 DEF CallOK
  <2>5. QED
    BY <2>2, <2>3, <2>4 DEF CallOK
<1>3. ASSUME NEW c \in Callers, NEW call \in Call, Submit(c, call), CallOK(call)
      PROVE  CallsOK'
  <2>1. SUFFICES ASSUME NEW b \in Callers, calls'[b] # None PROVE CallOK(calls[b])'
    BY DEF CallsOK
  <2>2. clock' = clock /\ calls' = [calls EXCEPT ![c] = call]
    BY <1>3 DEF Submit
  <2>3. CASE b = c
    BY <1>0, <1>3, <2>2, <2>3 DEF CallOK
  <2>4. CASE b # c
    BY <1>0, <2>1, <2>2, <2>4 DEF IInv, CallsOK, CallOK
  <2>5. QED
    BY <2>3, <2>4
<1>4. ASSUME NEW c \in Callers, clock' = clock, calls' = [calls EXCEPT ![c] = None]
      PROVE  CallsOK'
  <2>1. SUFFICES ASSUME NEW b \in Callers, calls'[b] # None PROVE CallOK(calls[b])'
    BY DEF CallsOK
  <2>2. b # c /\ calls'[b] = calls[b] /\ calls[b] # None
    BY <1>0, <1>4, <2>1
  <2>3. QED
    BY <1>4, <2>2 DEF IInv, CallsOK, CallOK
<1>5. ASSUME NEW c \in Callers,
             RegisterSession(c) \/ TouchSession(c) \/ RotateSession(c) \/ RevokeSession(c)
      PROVE  CallsOK'
  <2>1. Taken(c)
    BY <1>5, RegisterStep, TouchStep, RotateStep, RevokeStep
  <2>2. QED
    BY <2>1, <1>4 DEF Taken
<1>6. ASSUME NEW c \in Callers, Rollback(c) PROVE CallsOK'
  BY <1>6, <1>4 DEF Rollback
<1>7. ASSUME NEW q \in Requests,
             BeginRequest(q) \/ ResolveSession(q) \/ ValidateSessionSecurity(q) \/ EndRequest(q)
      PROVE  UNCHANGED <<calls, clock>>
  BY <1>7 DEF BeginRequest, ResolveSession, ValidateSessionSecurity, EndRequest
<1>8. CASE UNCHANGED vars
  BY <1>8, <1>1 DEF vars
<1>9. QED
  BY <1>1, <1>2, <1>3, <1>5, <1>6, <1>7, <1>8, SubmitRegisterCall, SubmitChangeCall DEF Next

\* A caller's steps leave the clock and the guarded requests alone.
LEMMA CallerSteps ==
    ASSUME NEW c \in Callers,
           \/ SubmitRegister(c) \/ Rollback(c)
           \/ \E op \in {"touch", "rotate", "revoke"} : SubmitChange(c, op)
           \/ RegisterSession(c) \/ TouchSession(c) \/ RotateSession(c) \/ RevokeSession(c)
    PROVE  UNCHANGED <<clock, requests>>
<1>1. CASE SubmitRegister(c)
  BY <1>1 DEF SubmitRegister, Submit
<1>2. CASE Rollback(c)
  BY <1>2 DEF Rollback
<1>3. ASSUME NEW op, SubmitChange(c, op) PROVE UNCHANGED <<clock, requests>>
  BY <1>3 DEF SubmitChange, Submit
<1>4. CASE RegisterSession(c)
  BY <1>4 DEF RegisterSession, Begin
<1>5. CASE TouchSession(c)
  BY <1>5 DEF TouchSession, Begin
<1>6. CASE RotateSession(c)
  BY <1>6 DEF RotateSession, Begin
<1>7. CASE RevokeSession(c)
  BY <1>7 DEF RevokeSession, Begin
<1>8. QED
  BY <1>1, <1>2, <1>3, <1>4, <1>5, <1>6, <1>7

\* Time does not run backwards.
LEMMA ClockNext ==
    ASSUME IInv, [Next]_vars
    PROVE  clock \in Nat /\ clock' \in Nat /\ clock <= clock'
<1>1. clock \in Nat /\ clock' \in Nat
  BY TypeNext DEF IInv, TypeOK
<1>2. ASSUME NEW c \in Callers,
             \/ SubmitRegister(c) \/ Rollback(c)
             \/ \E op \in {"touch", "rotate", "revoke"} : SubmitChange(c, op)
             \/ RegisterSession(c) \/ TouchSession(c) \/ RotateSession(c) \/ RevokeSession(c)
      PROVE  clock' = clock
  BY <1>2, CallerSteps
<1>3. ASSUME NEW q \in Requests,
             BeginRequest(q) \/ ResolveSession(q) \/ ValidateSessionSecurity(q) \/ EndRequest(q)
      PROVE  clock' = clock
  BY <1>3 DEF BeginRequest, ResolveSession, ValidateSessionSecurity, EndRequest
<1>4. clock' = clock \/ clock' = clock + 1
  BY <1>2, <1>3 DEF Next, Tick, vars
<1>5. QED
  BY <1>1, <1>4

\* Stored rows stay readable, allocated and told apart.
LEMMA RowsNext ==
    ASSUME IInv, [Next]_vars
    PROVE  RowsOK' /\ Allocated' /\ OneIdentifierPerLogin'
<1>0. /\ sessions \in [Identifiers -> Row \cup {None}]
      /\ digests \in [Identifiers \cup Tokens -> {"session_identifier", "csrf", None}]
      /\ RowsOK /\ Allocated /\ OneIdentifierPerLogin
      /\ "session_identifier" # None /\ "csrf" # None
  BY NoneAssumption DEF IInv, TypeOK
<1>1. CASE Quiet
  <2>1. UNCHANGED <<sessions, digests>>
    BY <1>1 DEF Quiet, tables
  <2>2. Allocated' /\ OneIdentifierPerLogin'
    BY <1>0, <2>1 DEF Allocated, OneIdentifierPerLogin
  <2>3. ASSUME NEW d \in Identifiers, sessions[d] # None PROVE sessions[d].seen <= clock'
    <3>1. sessions[d].seen \in Nat /\ sessions[d].seen <= clock
      BY <1>0, <2>3, RowFields DEF RowsOK
    <3>2. QED
      BY <3>1, ClockNext
  <2>4. QED
    BY <1>0, <2>1, <2>2, <2>3 DEF RowsOK
<1>2. ASSUME clock' = clock, NEW d, NEW x, NEW row, Registers(d, x, row)
      PROVE  RowsOK' /\ Allocated' /\ OneIdentifierPerLogin'
  <2>1. RowsOK'
    BY <1>0, <1>2 DEF RowsOK, Registers, Opened
  <2>2. Allocated'
    BY <1>0, <1>2, RowFields DEF Allocated, Registers, Opened
  <2>3. ASSUME NEW e \in Identifiers, sessions[e] # None
        PROVE  sessions[e].login # d /\ sessions[e].csrf # x
    BY <1>0, <1>2, <2>3 DEF Allocated, Registers, Opened
  <2>4. OneIdentifierPerLogin'
    BY <1>0, <1>2, <2>3 DEF OneIdentifierPerLogin, Registers, Opened
  <2>5. QED
    BY <2>1, <2>2, <2>4
<1>3. ASSUME clock' = clock, NEW d, NEW e, NEW x, NEW row, Rotates(d, e, x, row)
      PROVE  RowsOK' /\ Allocated' /\ OneIdentifierPerLogin'
  <2>1. RowsOK'
    BY <1>0, <1>3 DEF RowsOK, Rotates, Opened
  <2>2. Allocated'
    BY <1>0, <1>3, RowFields DEF Allocated, Rotates, Opened
  <2>3. ASSUME NEW f \in Identifiers, sessions[f] # None, f # d
        PROVE  sessions[f].login # row.login /\ sessions[f].csrf # x
    BY <1>0, <1>3, <2>3 DEF Allocated, OneIdentifierPerLogin, Rotates, Opened
  <2>4. OneIdentifierPerLogin'
    BY <1>0, <1>3, <2>3 DEF OneIdentifierPerLogin, Rotates, Opened
  <2>5. QED
    BY <2>1, <2>2, <2>4
<1>4. ASSUME clock' = clock, NEW d, NEW row, Updates(d, row)
      PROVE  RowsOK' /\ Allocated' /\ OneIdentifierPerLogin'
  <2>1. RowsOK'
    BY <1>0, <1>4 DEF RowsOK, Updates
  <2>2. Allocated'
    BY <1>0, <1>4 DEF Allocated, Updates
  <2>3. OneIdentifierPerLogin'
    BY <1>0, <1>4 DEF OneIdentifierPerLogin, Updates
  <2>4. QED
    BY <2>1, <2>2, <2>3
<1>5. CASE Commits
  BY <1>2, <1>3, <1>4, <1>5 DEF Commits, Taken
<1>6. QED
  BY <1>1, <1>5, StepCases

-----------------------------------------------------------------------------
(***************************************************************************)
(* Spent digests and expired sessions                                      *)
(***************************************************************************)

\* No step brings a spent digest back to life, or forgets that it was spent.
LEMMA DeadNext ==
    ASSUME IInv, [Next]_vars, NEW d \in Identifiers, digests[d] # None, ~Live(d)
    PROVE  digests'[d] # None /\ ~Live(d)'
<1>0. /\ sessions \in [Identifiers -> Row \cup {None}]
      /\ digests \in [Identifiers \cup Tokens -> {"session_identifier", "csrf", None}]
      /\ "session_identifier" # None /\ "csrf" # None
  BY NoneAssumption DEF IInv, TypeOK
<1>1. CASE Quiet
  BY <1>1 DEF Quiet, tables, Live
<1>2. ASSUME NEW e, NEW x, NEW row, Registers(e, x, row)
      PROVE  digests'[d] # None /\ ~Live(d)'
  BY <1>0, <1>2 DEF Registers, Opened, Live
<1>3. ASSUME NEW e, NEW f, NEW x, NEW row, Rotates(e, f, x, row)
      PROVE  digests'[d] # None /\ ~Live(d)'
  BY <1>0, <1>3 DEF Rotates, Opened, Live
<1>4. ASSUME NEW e, NEW row, Updates(e, row)
      PROVE  digests'[d] # None /\ ~Live(d)'
  BY <1>0, <1>4 DEF Updates, Live
<1>5. QED
  BY <1>1, <1>2, <1>3, <1>4, StepCases DEF Commits

\* A session that ran out MaxDelay ago is only ever revoked.
LEMMA ExpiryNext ==
    ASSUME IInv, [Next]_vars, NEW d \in Identifiers, sessions[d] # None,
           sessions[d].idle + MaxDelay <= clock
    PROVE  /\ sessions'[d] # None
           /\ sessions'[d] # sessions[d] => sessions'[d].revoked # None
<1>0. /\ sessions \in [Identifiers -> Row \cup {None}] /\ sessions[d] \in Row
      /\ digests[d] # None
  BY DEF IInv, TypeOK, Allocated
<1>1. ~(clock < sessions[d].idle + MaxDelay)
  BY <1>0, RowFields, LifetimeAssumption DEF IInv, TypeOK
<1>2. CASE Quiet
  BY <1>2 DEF Quiet, tables
<1>3. ASSUME NEW e, NEW x, NEW row, Registers(e, x, row)
      PROVE  sessions'[d] = sessions[d]
  BY <1>0, <1>3 DEF Registers, Opened
<1>4. ASSUME NEW e, NEW f, NEW x, NEW row, Rotates(e, f, x, row)
      PROVE  sessions'[d] = sessions[d]
  BY <1>0, <1>1, <1>4 DEF Rotates, Opened
<1>5. ASSUME NEW e, NEW row, Updates(e, row)
      PROVE  sessions'[d] = sessions[d] \/ (sessions'[d] \in Row /\ sessions'[d].revoked # None)
  BY <1>0, <1>1, <1>5 DEF Updates
<1>6. QED
  BY <1>2, <1>3, <1>4, <1>5, StepCases, NoneAssumption DEF Commits

LEMMA RequestsNext ==
    ASSUME IInv, [Next]_vars
    PROVE  RequestsOK'
<1>0. requests \in [Requests -> Request \cup {None}]
  BY DEF IInv, TypeOK
<1>1. SUFFICES ASSUME NEW q \in Requests, requests'[q] # None, requests'[q].spent
               PROVE  /\ requests'[q].step = "begun"
                      /\ digests'[requests'[q].digest] # None
                      /\ ~Live(requests[q].digest)'
  BY DEF RequestsOK, Live
<1>2. CASE requests'[q] = requests[q]
  <2>1. /\ requests[q].step = "begun" /\ requests[q].digest \in Identifiers
        /\ digests[requests[q].digest] # None /\ ~Live(requests[q].digest)
    BY <1>0, <1>1, <1>2 DEF IInv, RequestsOK, Request
  <2>2. digests'[requests[q].digest] # None /\ ~Live(requests[q].digest)'
    BY <1>2, <2>1, DeadNext DEF Live
  <2>3. QED
    BY <1>2, <2>1, <2>2
<1>3. CASE BeginRequest(q)
  <2>1. PICK d \in Identifiers :
          requests' = [requests EXCEPT ![q] =
            [step |-> "begun", digest |-> d, now |-> clock, row |-> None,
             spent |-> digests[d] # None /\ ~Live(d)]]
    BY <1>3 DEF BeginRequest
  <2> DEFINE b == digests[d] # None /\ ~Live(d)
  <2> HIDE DEF b
  <2>2. requests' = [requests EXCEPT ![q] = [step |-> "begun", digest |-> d, now |-> clock,
                                             row |-> None, spent |-> b]]
    BY <2>1 DEF b
  <2>3. requests'[q].step = "begun" /\ requests'[q].digest = d
    BY <1>0, <2>2
  <2>4. requests'[q].spent = b
    BY <1>0, <2>2
  <2>5. digests[d] # None /\ ~Live(d)
    BY <1>1, <2>4 DEF b
  <2>6. UNCHANGED <<sessions, digests>>
    BY <1>3 DEF BeginRequest, tables
  <2>7. digests'[d] # None /\ ~Live(d)'
    BY <2>5, <2>6 DEF Live
  <2>8. QED
    BY <2>3, <2>7 DEF Live
<1>4. CASE ResolveSession(q)
  <2>1. requests[q] # None /\ requests[q].spent
    BY <1>0, <1>1, <1>4 DEF ResolveSession, Request
  <2>2. ~Live(requests[q].digest)
    BY <2>1 DEF IInv, RequestsOK
  <2>3. Live(requests[q].digest)
    BY <1>4 DEF ResolveSession, RequireCurrent, Live
  <2>4. QED
    BY <2>2, <2>3
<1>5. CASE ValidateSessionSecurity(q)
  <2>1. /\ requests[q] # None /\ requests[q].spent /\ requests[q].step = "resolved"
    BY <1>0, <1>1, <1>5 DEF ValidateSessionSecurity, Request
  <2>2. QED
    BY <2>1 DEF IInv, RequestsOK
<1>6. ASSUME NEW p \in Requests, p # q,
             BeginRequest(p) \/ ResolveSession(p) \/ ValidateSessionSecurity(p) \/ EndRequest(p)
      PROVE  requests'[q] = requests[q]
  BY <1>0, <1>6 DEF BeginRequest, ResolveSession, ValidateSessionSecurity, EndRequest
<1>7. CASE EndRequest(q)
  BY <1>0, <1>1, <1>7 DEF EndRequest
<1>8. CASE UNCHANGED requests
  BY <1>2, <1>8
<1>9. ASSUME NEW c \in Callers,
             \/ SubmitRegister(c) \/ Rollback(c)
             \/ \E op \in {"touch", "rotate", "revoke"} : SubmitChange(c, op)
             \/ RegisterSession(c) \/ TouchSession(c) \/ RotateSession(c) \/ RevokeSession(c)
      PROVE  UNCHANGED requests
  BY <1>9, CallerSteps
<1>10. CASE UNCHANGED vars \/ Tick
  BY <1>10, <1>8 DEF vars, Tick
<1>11. QED
  BY <1>2, <1>3, <1>4, <1>5, <1>6, <1>7, <1>8, <1>9, <1>10 DEF Next

-----------------------------------------------------------------------------
(***************************************************************************)
(* Theorems                                                                *)
(***************************************************************************)

LEMMA InitIInv ==
    ASSUME Init
    PROVE  IInv
<1>1. TypeOK
  BY LifetimeAssumption DEF Init, TypeOK
<1>2. CallsOK /\ RowsOK /\ Allocated /\ OneIdentifierPerLogin /\ RequestsOK
  BY DEF Init, CallsOK, RowsOK, Allocated, OneIdentifierPerLogin, RequestsOK
<1>3. QED
  BY <1>1, <1>2 DEF IInv

\* The inductive invariant of the session tables holds in every reachable state.
THEOREM Inductive == Spec => []IInv
<1>1. Init => IInv
  BY InitIInv
<1>2. IInv /\ [Next]_vars => IInv'
  BY TypeNext, CallsNext, RowsNext, RequestsNext DEF IInv
<1>3. QED
  BY <1>1, <1>2, PTL DEF Spec

\* Rows, calls and requests stay in their types: no state version or generation passes
\* the limit at which _state_from_row would refuse the row.
THEOREM TypeCorrect == Spec => []TypeOK
<1>1. IInv => TypeOK
  BY DEF IInv
<1>2. QED
  BY <1>1, Inductive, PTL

\* One login never has two stored identifiers and no two sessions share a CSRF token.
THEOREM HandOver == Spec => []OneIdentifierPerLogin
<1>1. IInv => OneIdentifierPerLogin
  BY DEF IInv
<1>2. QED
  BY <1>1, Inductive, PTL

\* A live row that has not changed has not aged.
LEMMA AgesNotAtAll ==
    ASSUME NEW row \in Row, row.revoked = None
    PROVE  OnlyAged(row, row)
<1>1. row.version \in Nat
  BY RowFields
<1>2. row = [row EXCEPT !.version = row.version, !.seen = row.seen, !.idle = row.idle,
                        !.revoked = row.revoked]
  BY DEF Row
<1>3. QED
  BY <1>1, <1>2 DEF OnlyAged

\* A row ages by one change after another.
LEMMA AgesFurther ==
    ASSUME NEW a \in Row, NEW b \in Row, NEW c \in Row, OnlyAged(a, b), OnlyAged(b, c)
    PROVE  OnlyAged(a, c)
<1>1. a.version <= c.version /\ (a.version = c.version => c = a)
  BY RowFields DEF OnlyAged
<1>2. c = [a EXCEPT !.version = c.version, !.seen = c.seen, !.idle = c.idle,
                    !.revoked = c.revoked]
  BY DEF OnlyAged, Row
<1>3. QED
  BY <1>1, <1>2 DEF OnlyAged

\* Every digest a request has resolved is spent.
ResolvedOK ==
    /\ ResolvedRowOnlyAges
    /\ \A q \in Requests :
          requests[q] # None /\ requests[q].step # "begun" =>
              requests[q].row \in Row /\ digests[requests[q].digest] # None

\* What the tables may do under a resolved request.
LEMMA TablesAge ==
    ASSUME IInv, [Next]_vars, NEW d \in Identifiers, digests[d] # None, NEW row \in Row,
           sessions[d] # None => OnlyAged(row, sessions[d])
    PROVE  /\ digests'[d] # None
           /\ sessions'[d] # None => OnlyAged(row, sessions'[d])
<1>0. /\ sessions \in [Identifiers -> Row \cup {None}]
      /\ digests \in [Identifiers \cup Tokens -> {"session_identifier", "csrf", None}]
  BY DEF IInv, TypeOK
<1>1. CASE Quiet
  BY <1>1 DEF Quiet, tables
<1>2. ASSUME NEW e, NEW x, NEW new, Opened(e, x, new)
      PROVE  d # e /\ digests'[d] # None
  BY <1>0, <1>2, NoneAssumption DEF Opened
<1>3. ASSUME NEW e, NEW x, NEW new, Registers(e, x, new)
      PROVE  digests'[d] # None /\ sessions'[d] = sessions[d]
  BY <1>0, <1>2, <1>3 DEF Registers
<1>4. ASSUME NEW f, NEW e, NEW x, NEW new, Rotates(f, e, x, new)
      PROVE  digests'[d] # None /\ sessions'[d] \in {sessions[d], None}
  BY <1>0, <1>2, <1>4 DEF Rotates
<1>5. ASSUME NEW e, NEW new, Updates(e, new)
      PROVE  /\ digests'[d] # None
             /\ sessions'[d] # None => OnlyAged(row, sessions'[d])
  <2>1. CASE d = e
    <3>1. sessions[d] \in Row /\ new \in Row /\ OnlyAged(sessions[d], new) /\ sessions[d] # None
      BY <1>0, <1>5, <2>1 DEF Updates
    <3>2. OnlyAged(row, new)
      BY <3>1, AgesFurther
    <3> QED  BY <1>0, <1>5, <2>1, <3>2 DEF Updates
  <2>2. CASE d # e
    BY <1>0, <1>5, <2>2 DEF Updates
  <2> QED  BY <2>1, <2>2
<1>6. QED
  BY <1>1, <1>3, <1>4, <1>5, StepCases DEF Commits

\* A request past its select either was there before, or read its row in this step.
LEMMA ResolvedNext ==
    ASSUME IInv, ResolvedOK, [Next]_vars
    PROVE  ResolvedOK'
<1>0. /\ requests \in [Requests -> Request \cup {None}]
      /\ sessions \in [Identifiers -> Row \cup {None}]
  BY DEF IInv, TypeOK
<1> SUFFICES ASSUME NEW q \in Requests, requests'[q] # None, requests'[q].step # "begun"
             PROVE  /\ requests'[q].row \in Row /\ digests'[requests'[q].digest] # None
                    /\ sessions'[requests'[q].digest] # None =>
                          OnlyAged(requests'[q].row, sessions'[requests'[q].digest])
  BY DEF ResolvedOK, ResolvedRowOnlyAges
<1>1. ASSUME requests[q] # None, requests[q].step # "begun",
             requests'[q].row = requests[q].row, requests'[q].digest = requests[q].digest
      PROVE  /\ requests'[q].row \in Row /\ digests'[requests'[q].digest] # None
             /\ sessions'[requests'[q].digest] # None =>
                   OnlyAged(requests'[q].row, sessions'[requests'[q].digest])
  <2>1. requests[q].digest \in Identifiers
    BY <1>0, <1>1 DEF Request
  <2>2. /\ requests[q].row \in Row /\ digests[requests[q].digest] # None
        /\ sessions[requests[q].digest] # None =>
              OnlyAged(requests[q].row, sessions[requests[q].digest])
    BY <1>1 DEF ResolvedOK, ResolvedRowOnlyAges
  <2>3. QED
    BY <1>1, <2>1, <2>2, TablesAge
<1>2. CASE ResolveSession(q)
  <2> DEFINE d == requests[q].digest
  <2>1. /\ d \in Identifiers /\ requests'[q].digest = d
        /\ sessions[d] # None /\ sessions[d].revoked = None
        /\ requests'[q].row = sessions[d] /\ UNCHANGED <<sessions, digests>>
    BY <1>0, <1>2 DEF ResolveSession, RequireCurrent, Request, tables
  <2>2. sessions[d] \in Row /\ digests[d] # None
    BY <1>0, <2>1 DEF IInv, Allocated
  <2>3. OnlyAged(sessions[d], sessions[d])
    BY <2>1, <2>2, AgesNotAtAll
  <2>4. QED
    BY <2>1, <2>2, <2>3
<1>3. CASE ValidateSessionSecurity(q)
  BY <1>0, <1>1, <1>3 DEF ValidateSessionSecurity, Request
<1>4. CASE BeginRequest(q) \/ EndRequest(q)
  BY <1>0, <1>4 DEF BeginRequest, EndRequest
<1>5. CASE requests'[q] = requests[q]
  BY <1>1, <1>5
<1>6. ASSUME NEW p \in Requests, p # q,
             BeginRequest(p) \/ ResolveSession(p) \/ ValidateSessionSecurity(p) \/ EndRequest(p)
      PROVE  requests'[q] = requests[q]
  BY <1>0, <1>6 DEF BeginRequest, ResolveSession, ValidateSessionSecurity, EndRequest
<1>7. ASSUME NEW c \in Callers,
             \/ SubmitRegister(c) \/ Rollback(c)
             \/ \E op \in {"touch", "rotate", "revoke"} : SubmitChange(c, op)
             \/ RegisterSession(c) \/ TouchSession(c) \/ RotateSession(c) \/ RevokeSession(c)
      PROVE  UNCHANGED requests
  BY <1>7, CallerSteps
<1>8. CASE UNCHANGED vars \/ Tick
  BY <1>5, <1>8 DEF vars, Tick
<1>9. QED
  BY <1>2, <1>3, <1>4, <1>5, <1>6, <1>7, <1>8 DEF Next

\* A request that arrives after its identifier was rotated away or revoked is refused,
\* and one that passes rests on a row that is that session's own, only older.
THEOREM GuardCorrect == Spec => []GuardSound
<1>1. Init => ResolvedOK
  BY DEF Init, ResolvedOK, ResolvedRowOnlyAges
<1>2. IInv /\ ResolvedOK /\ [Next]_vars => ResolvedOK'
  BY ResolvedNext
<1>3. IInv /\ ResolvedOK => GuardSound
  BY DEF IInv, RequestsOK, ResolvedOK, LateRequestRefused, GuardSound
<1>4. QED
  BY <1>1, <1>2, <1>3, Inductive, PTL DEF Spec

\* A live session can always be revoked with the clock of the moment.
THEOREM NeverBlocked == Spec => []RevocationNeverBlocked
<1>1. IInv => RevocationNeverBlocked
  BY DEF IInv, RowsOK, RevocationNeverBlocked, Revocable, Expected, Live
<1>2. QED
  BY <1>1, Inductive, PTL

\* A spent digest never opens a session again.
THEOREM SpentForever == Spec => DeadForever
<1>1. IInv /\ [Next]_vars =>
        [\A d \in Identifiers : digests[d] # None /\ ~Live(d) => ~Live(d)']_vars
  BY DeadNext
<1>2. QED
  BY <1>1, Inductive, PTL DEF Spec, DeadForever

\* A session that ran out longer than the clock delay ago can only be revoked.
THEOREM ExpiredForever == Spec => ExpiryFinal
<1>1. IInv /\ [Next]_vars =>
        [\A d \in Identifiers :
           sessions[d] # None /\ sessions[d].idle + MaxDelay <= clock =>
              /\ sessions'[d] # None
              /\ sessions'[d] # sessions[d] => sessions'[d].revoked # None]_vars
  BY ExpiryNext
<1>2. QED
  BY <1>1, Inductive, PTL DEF Spec, ExpiryFinal
=============================================================================
