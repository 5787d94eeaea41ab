---------------------------- MODULE ReviewProofs ----------------------------
(***************************************************************************)
(* Proofs about ReviewLedger for every set of clients, reviewers, skills,  *)
(* contents and keys.                                                      *)
(***************************************************************************)
EXTENDS ReviewLedger, TLAPS

-----------------------------------------------------------------------------
(***************************************************************************)
(* Types                                                                   *)
(***************************************************************************)

\* What the fields of a call are, with the row types unexpanded.
LEMMA CallFields ==
    ASSUME NEW q \in Call
    PROVE  /\ q.op \in Ops /\ q.at \in Steps /\ q.phase \in Phases
           /\ q.target \in Targets \cup {None} /\ q.key \in Keys \cup {None}
           /\ q.actor \in Reviewers \cup {None} /\ q.status \in Statuses
           /\ q.note \in Notes \cup {None} /\ q.expected \in Prior \cup {None}
           /\ q.row \in Row /\ q.seen \in Row /\ q.answer \in Event \cup {NoEvent}
BY DEF Call

\* Rows, priors and the empty projection are of their types.
LEMMA RowFields ==
    ASSUME NEW row \in Row
    PROVE  /\ row.version \in Nat /\ row.event \in Event \cup {NoEvent}
           /\ row.event.status \in Statuses
           /\ PriorOf(row) \in Prior
<1>1. row.version \in Nat /\ row.event \in Event \cup {NoEvent}
  BY DEF Row
<1>2. row.event.status \in Statuses /\ row.event.id \in Nat
  BY <1>1 DEF Event, NoEvent, Statuses
<1>3. QED
  BY <1>1, <1>2 DEF PriorOf, Prior

LEMMA NoRowType == NoRow \in Row
BY DEF NoRow, Row

\* An idle call is a call.
LEMMA IdleType == Idle \in Call
BY NoRowType DEF Idle, Call, Ops, Steps, Phases, Statuses

\* The calls that start an operation.
LEMMA StartTypes ==
    ASSUME NEW t \in Targets, NEW k \in Keys, NEW a \in Reviewers
    PROVE  /\ \A s \in Decisions, n \in Notes \cup {None}, x \in Prior \cup {None} :
                [Idle EXCEPT !.op = "candidate", !.at = "commit", !.target = t,
                             !.key = k, !.actor = a, !.status = s, !.note = n,
                             !.expected = x] \in Call
           /\ \A op \in {"read", "state"} :
                [Idle EXCEPT !.op = op, !.at = "select", !.target = t] \in Call
           /\ [Idle EXCEPT !.op = "approve", !.at = "lock", !.target = t, !.key = k,
                           !.actor = a, !.status = "approved"] \in Call
<1>1. ASSUME NEW s \in Decisions, NEW n \in Notes \cup {None}, NEW x \in Prior \cup {None}
      PROVE  [Idle EXCEPT !.op = "candidate", !.at = "commit", !.target = t,
                          !.key = k, !.actor = a, !.status = s, !.note = n,
                          !.expected = x] \in Call
  BY NoRowType DEF Idle, Call, Ops, Steps, Phases, Statuses
<1>2. ASSUME NEW op \in {"read", "state"}
      PROVE  [Idle EXCEPT !.op = op, !.at = "select", !.target = t] \in Call
  BY NoRowType DEF Idle, Call, Ops, Steps, Phases, Statuses
<1>3. [Idle EXCEPT !.op = "approve", !.at = "lock", !.target = t, !.key = k,
                   !.actor = a, !.status = "approved"] \in Call
  BY NoRowType DEF Idle, Call, Ops, Steps, Phases, Statuses, Decisions
<1> QED
  BY <1>1, <1>2, <1>3

\* The calls that carry an operation on.
LEMMA StepTypes ==
    ASSUME NEW q \in Call, NEW row \in Row, NEW e \in Event \cup {NoEvent}
    PROVE  /\ [q EXCEPT !.at = "select"] \in Call
           /\ [q EXCEPT !.at = "select", !.phase = "confirm"] \in Call
           /\ [q EXCEPT !.at = "done", !.answer = e] \in Call
           /\ [q EXCEPT !.at = "history", !.row = row] \in Call
           /\ [q EXCEPT !.at = "commit", !.row = NoRow] \in Call
           /\ [q EXCEPT !.at = "done", !.seen = row, !.answer = e, !.row = NoRow] \in Call
           /\ [q EXCEPT !.at = "select", !.phase = "report", !.seen = row,
                        !.row = NoRow] \in Call
           /\ [q EXCEPT !.at = "done", !.answer = e, !.row = NoRow] \in Call
<1>1. /\ [q EXCEPT !.at = "select"] \in Call
      /\ [q EXCEPT !.at = "select", !.phase = "confirm"] \in Call
  BY DEF Call, Steps, Phases
<1>2. /\ [q EXCEPT !.at = "done", !.answer = e] \in Call
      /\ [q EXCEPT !.at = "history", !.row = row] \in Call
  <2>1. [q EXCEPT !.at = "done", !.answer = e] \in Call
    BY DEF Call, Steps
  <2>2. [q EXCEPT !.at = "history", !.row = row] \in Call
    BY DEF Call, Steps
  <2> QED
    BY <2>1, <2>2
<1>3. [q EXCEPT !.at = "commit", !.row = NoRow] \in Call
  BY NoRowType DEF Call, Steps, Phases
<1>4. [q EXCEPT !.at = "done", !.seen = row, !.answer = e, !.row = NoRow] \in Call
  BY NoRowType DEF Call, Steps, Phases
<1>5. [q EXCEPT !.at = "select", !.phase = "report", !.seen = row, !.row = NoRow] \in Call
  BY NoRowType DEF Call, Steps, Phases
<1>6. [q EXCEPT !.at = "done", !.answer = e, !.row = NoRow] \in Call
  BY NoRowType DEF Call, Steps, Phases
<1>7. QED
  BY <1>1, <1>2, <1>3, <1>4, <1>5, <1>6

\* An event of one of the writers is an event.
LEMMA EventType ==
    ASSUME NEW k \in Keys, NEW a \in Reviewers, NEW s \in Decisions, NEW h \in Shapes,
           NEW n \in Notes \cup {None}, NEW x \in Prior \cup {None}, NEW i \in Nat
    PROVE  [id |-> i, key |-> k, actor |-> a, status |-> s, shape |-> h, note |-> n,
            prior |-> x] \in Event
BY DEF Event

-----------------------------------------------------------------------------
(***************************************************************************)
(* Calls are well formed                                                   *)
(***************************************************************************)

\* Which fields a call of each kind has filled in.
WellFormed(q) ==
    /\ q.at # "idle" => q.op # "none"
    /\ q.op # "none" => q.target \in Candidates
    /\ q.at \in {"select", "history"} => q.op \in {"read", "state", "approve"}
    /\ q.op \in {"read", "state"} => q.at \in {"select", "history", "done"}
    /\ q.op \in {"candidate", "approve"} =>
         q.key \in Keys /\ q.actor \in Reviewers /\ q.status \in Decisions
    /\ q.op = "approve" => q.status = "approved"

CallsOK == \A c \in Clients : WellFormed(calls[c])

LEMMA IdleWellFormed == WellFormed(Idle)
BY DEF WellFormed, Idle

\* Reading on leaves a call well formed.
LEMMA ContinueType ==
    ASSUME NEW q \in Call, WellFormed(q), q.at = "history"
    PROVE  Continue(q) \in Call /\ WellFormed(Continue(q))
<1>1. q.row \in Row /\ q.row.event \in Event \cup {NoEvent}
  BY CallFields, RowFields
<1>2. Continue(q) \in Call
  BY <1>1, StepTypes DEF Continue
<1>3. WellFormed(Continue(q))
  <2>1. CASE q.op = "read" \/ (q.op = "state" /\ q.row = NoRow)
    <3>1. Continue(q) = [q EXCEPT !.at = "done", !.seen = q.row, !.answer = q.row.event,
                                  !.row = NoRow]
      BY <2>1 DEF Continue
    <3>2. QED
      BY <3>1 DEF WellFormed, Call
  <2>2. CASE ~(q.op = "read" \/ (q.op = "state" /\ q.row = NoRow)) /\ q.row = NoRow
    <3>1. Continue(q) = [q EXCEPT !.at = "commit", !.row = NoRow]
      BY <2>2 DEF Continue
    <3>2. QED
      BY <3>1, <2>2 DEF WellFormed, Call
  <2>3. CASE ~(q.op = "read" \/ (q.op = "state" /\ q.row = NoRow)) /\ q.row # NoRow
    <3>1. Continue(q) = [q EXCEPT !.at = "select", !.phase = "report", !.seen = q.row,
                                  !.row = NoRow]
      BY <2>3 DEF Continue
    <3>2. QED
      BY <3>1, <2>3 DEF WellFormed, Call
  <2>4. QED
    BY <2>1, <2>2, <2>3
<1>4. QED
  BY <1>2, <1>3

\* The event of a candidate writer is an event.
LEMMA CandidateEventType ==
    ASSUME TypeOK, NEW q \in Call, WellFormed(q), q.op \in {"candidate", "approve"}
    PROVE  CandidateEvent(q) \in Event
<1>1. q.target \in Targets /\ projection[q.target] \in Row
  BY DEF WellFormed, TypeOK, Targets
<1>2. PriorOf(projection[q.target]) \in Prior
  BY <1>1, RowFields
<1>3. q.key \in Keys /\ q.actor \in Reviewers /\ q.status \in Decisions
      /\ q.note \in Notes \cup {None} /\ sequence + 1 \in Nat
  BY CallFields DEF WellFormed, TypeOK
<1>4. QED
  BY <1>2, <1>3, EventType DEF CandidateEvent, Shapes

\* A writer's answer is a well formed call.
LEMMA AnsweredType ==
    ASSUME NEW q \in Call, WellFormed(q), q.op \in {"candidate", "approve"}, NEW e \in Event
    PROVE  Answered(q, e) \in Call /\ WellFormed(Answered(q, e))
<1>1. Answered(q, e) \in Call
  BY StepTypes, NoRowType DEF Answered
<1>2. CASE q.op = "approve"
  <2>1. Answered(q, e) = [q EXCEPT !.at = "select", !.phase = "confirm"]
    BY <1>2 DEF Answered
  <2>2. QED
    BY <1>1, <1>2, <2>1 DEF WellFormed, Call
<1>3. CASE q.op = "candidate"
  <2>1. Answered(q, e) = [q EXCEPT !.at = "done", !.answer = e]
    BY <1>3 DEF Answered
  <2>2. QED
    BY <1>1, <1>3, <2>1 DEF WellFormed, Call
<1>4. QED
  BY <1>2, <1>3

\* Every step of a client replaces its call by a well formed one.
LEMMA ClientCalls ==
    ASSUME TypeOK, CallsOK, NEW c \in Clients, ClientStep(c)
    PROVE  \E n \in Call : WellFormed(n) /\ calls' = [calls EXCEPT ![c] = n]
<1> DEFINE q == calls[c]
           Goal == \E n \in Call : WellFormed(n) /\ calls' = [calls EXCEPT ![c] = n]
<1>0. q \in Call /\ WellFormed(q)
  BY DEF TypeOK, CallsOK
<1>1. ASSUME Refuse(c) PROVE Goal
  BY <1>1, IdleType, IdleWellFormed DEF Refuse, GoTo
<1>2. CASE RequestReview(c)
  <2>1. PICK t \in Candidates, k \in Keys, a \in Reviewers, s \in Requested,
             n \in Notes \cup {None}, x \in {None, PriorOf(calls[c].seen)} :
          /\ published[t[1]] = t[2]
          /\ x # None => calls[c].target = t
          /\ GoTo(c, [Idle EXCEPT !.op = "candidate", !.at = "commit", !.target = t,
                                  !.key = k, !.actor = a, !.status = s, !.note = n,
                                  !.expected = x])
    BY <1>2, Zenon DEF RequestReview
  <2> DEFINE r == [Idle EXCEPT !.op = "candidate", !.at = "commit", !.target = t,
                               !.key = k, !.actor = a, !.status = s, !.note = n,
                               !.expected = x]
  <2>2. x \in Prior \cup {None} /\ s \in Decisions /\ t \in Targets
    BY <1>0, CallFields, RowFields, BoundAssumption DEF Targets
  <2>3. r \in Call
    BY <2>2, StartTypes
  <2>4. WellFormed(r)
    BY <2>2 DEF WellFormed, Idle
  <2>5. QED
    BY <2>1, <2>3, <2>4 DEF GoTo
<1>3. CASE AppendCandidate(c)
  <2>1. q.op \in {"candidate", "approve"}
    BY <1>3 DEF AppendCandidate, At
  <2>2. CandidateEvent(q) \in Event
    BY <1>0, <2>1, CandidateEventType
  <2>3. QED
    BY <1>0, <1>3, <2>1, <2>2, AnsweredType DEF AppendCandidate, GoTo
<1>4. CASE ReplayCandidate(c)
  <2>1. q.op \in {"candidate", "approve"}
    BY <1>4 DEF ReplayCandidate, At
  <2>2. PICK t \in Targets : \E e \in Stored(t) : GoTo(c, Answered(q, e))
    BY <1>4 DEF ReplayCandidate, Holders
  <2>3. PICK e \in Stored(t) : GoTo(c, Answered(q, e))
    BY <2>2
  <2>4. e \in Event
    BY <2>2, <2>3 DEF Stored, TypeOK
  <2>5. QED
    BY <1>0, <2>1, <2>3, <2>4, AnsweredType DEF GoTo
<1>5. CASE StartRead(c)
  <2>1. PICK t \in Candidates, op \in {"read", "state"} :
          GoTo(c, [Idle EXCEPT !.op = op, !.at = "select", !.target = t])
    BY <1>5 DEF StartRead
  <2> DEFINE r == [Idle EXCEPT !.op = op, !.at = "select", !.target = t]
  <2>2. r \in Call
    BY NoRowType DEF Targets, Idle, Call, Ops, Steps, Phases, Statuses
  <2>3. WellFormed(r)
    BY DEF WellFormed, Idle
  <2>4. QED
    BY <2>1, <2>2, <2>3 DEF GoTo
<1>6. CASE StartApprove(c)
  <2>1. PICK t \in Candidates, a \in Reviewers :
          GoTo(c, [Idle EXCEPT !.op = "approve", !.at = "lock", !.target = t,
                               !.key = LegacyKey[t[1]], !.actor = a,
                               !.status = "approved"])
    BY <1>6 DEF StartApprove
  <2> DEFINE r == [Idle EXCEPT !.op = "approve", !.at = "lock", !.target = t,
                               !.key = LegacyKey[t[1]], !.actor = a,
                               !.status = "approved"]
  <2>2. LegacyKey[t[1]] \in Keys /\ t \in Targets
    BY LegacyKeyAssumption DEF Candidates, Targets
  <2>3. r \in Call
    BY <2>2, StartTypes
  <2>4. WellFormed(r)
    BY <2>2 DEF WellFormed, Idle, Decisions
  <2>5. QED
    BY <2>1, <2>3, <2>4 DEF GoTo
<1>7. CASE TakeLock(c)
  <2>1. WellFormed([q EXCEPT !.at = "select"])
    BY <1>0, <1>7 DEF TakeLock, At, WellFormed, Call
  <2>2. QED
    BY <1>0, <1>7, <2>1, StepTypes, NoRowType DEF TakeLock, GoTo
<1>8. CASE SelectProjection(c)
  <2> DEFINE r == [q EXCEPT !.at = "history", !.row = projection[q.target]]
  <2>1. projection[q.target] \in Row
    BY <1>0, <1>8 DEF SelectProjection, WellFormed, TypeOK, Targets
  <2>2. r \in Call
    BY <1>0, <2>1, StepTypes
  <2>3. WellFormed(r)
    BY <1>0, <1>8 DEF SelectProjection, WellFormed, Call
  <2>4. QED
    BY <1>8, <2>2, <2>3 DEF SelectProjection, GoTo
<1>9. CASE SelectHistory(c)
  BY <1>0, <1>9, ContinueType DEF SelectHistory, GoTo
<1>10. CASE Report(c)
  <2> DEFINE r == [q EXCEPT !.at = "done", !.answer = q.seen.event, !.row = NoRow]
  <2>1. q.seen.event \in Event \cup {NoEvent}
    BY <1>0, CallFields, RowFields
  <2>2. r \in Call
    BY <1>0, <2>1, StepTypes, NoRowType
  <2>3. WellFormed(r)
    BY <1>0, <1>10 DEF Report, WellFormed, Call
  <2>4. QED
    BY <1>10, <2>2, <2>3 DEF Report, GoTo
<1>11. QED
  BY <1>1, <1>2, <1>3, <1>4, <1>5, <1>6, <1>7, <1>8, <1>9, <1>10
     DEF ClientStep, RefuseCandidate, LockTimeout, RefuseRead, Leave

-----------------------------------------------------------------------------
(***************************************************************************)
(* Type correctness                                                        *)
(***************************************************************************)

\* Steps that do not write events or projections.
Quiet == UNCHANGED <<events, sequence, projection>>

\* The tables are written by new ordinary and new candidate reviews only.
LEMMA TableWriters ==
    ASSUME [Next]_vars
    PROVE  \/ Quiet
           \/ \E q \in ReviewRequest : AppendReview(q)
           \/ \E c \in Clients : AppendCandidate(c)
<1>1. ASSUME NEW c \in Clients, ClientStep(c) PROVE Quiet \/ AppendCandidate(c)
  BY <1>1 DEF ClientStep, Quiet, Refuse, tables, RequestReview, ReplayCandidate,
     RefuseCandidate, StartRead, StartApprove, TakeLock, LockTimeout, SelectProjection,
     SelectHistory, Report, RefuseRead, Leave
<1>2. QED
  BY <1>1 DEF Next, vars, Quiet, tables, ReplayReview, Publish

\* Writing an event keeps the tables' types.
LEMMA InsertType ==
    ASSUME TypeOK, NEW t \in Targets, NEW e \in Event, Insert(t, e)
    PROVE  /\ events' \in [Targets -> Seq(Event)]
           /\ sequence' \in Nat
           /\ projection' \in [Targets -> Row]
           /\ audit' \in [Targets -> Nat]
<1>1. Append(events[t], e) \in Seq(Event)
  BY DEF TypeOK
<1>2. [version |-> projection[t].version + 1, event |-> e] \in Row
  BY RowFields DEF TypeOK, Row
<1>3. e.id \in Nat
  BY DEF Event
<1>4. audit[t] + 1 \in Nat
  BY DEF TypeOK
<1>5. QED
  BY <1>1, <1>2, <1>3, <1>4 DEF Insert, TypeOK

\* An ordinary review's event is an event.
LEMMA ReviewType ==
    ASSUME TypeOK, NEW q \in ReviewRequest
    PROVE  Review(q) \in Event /\ q.target \in Topics /\ q.target \in Targets
<1>1. q.key \in Keys /\ q.actor \in Reviewers /\ q.status \in Decisions
      /\ q.target \in Topics
  BY BoundAssumption DEF ReviewRequest
<1>2. sequence + 1 \in Nat
  BY DEF TypeOK
<1>3. QED
  BY <1>1, <1>2, EventType DEF Review, Shapes, Targets

\* What a new candidate review knows of its call.
LEMMA WriterCall ==
    ASSUME TypeOK, CallsOK, NEW c \in Clients, AppendCandidate(c)
    PROVE  /\ calls[c] \in Call
           /\ calls[c].op \in {"candidate", "approve"}
           /\ calls[c].target \in Candidates /\ calls[c].target \in Targets
           /\ CandidateEvent(calls[c]) \in Event
<1>1. /\ calls[c] \in Call /\ WellFormed(calls[c])
      /\ calls[c].op \in {"candidate", "approve"}
  BY DEF TypeOK, CallsOK, AppendCandidate, At
<1>2. calls[c].target \in Candidates
  BY <1>1 DEF WellFormed
<1>3. QED
  BY <1>1, <1>2, CandidateEventType DEF Targets

TypeInv == TypeOK /\ CallsOK

LEMMA TypeInit == Init => TypeInv
<1> SUFFICES ASSUME Init PROVE TypeInv
  OBVIOUS
<1>1. TypeOK
  BY NoRowType, IdleType DEF Init, TypeOK
<1>2. CallsOK
  BY IdleWellFormed DEF Init, CallsOK
<1>3. QED
  BY <1>1, <1>2 DEF TypeInv

LEMMA TypeStep == TypeInv /\ [Next]_vars => TypeInv'
<1> SUFFICES ASSUME TypeOK, CallsOK, [Next]_vars PROVE TypeInv'
  BY DEF TypeInv
<1>1. /\ events' \in [Targets -> Seq(Event)]
      /\ sequence' \in Nat
      /\ projection' \in [Targets -> Row]
  <2>1. CASE Quiet
    BY <2>1 DEF Quiet, TypeOK
  <2>2. CASE \E q \in ReviewRequest : AppendReview(q)
    BY <2>2, ReviewType, InsertType DEF AppendReview
  <2>3. CASE \E c \in Clients : AppendCandidate(c)
    BY <2>3, WriterCall, InsertType DEF AppendCandidate
  <2>4. QED
    BY <2>1, <2>2, <2>3, TableWriters
<1>2. audit' \in [Targets -> Nat]
  <2>1. ASSUME NEW q \in ReviewRequest, AppendReview(q) PROVE audit' \in [Targets -> Nat]
    BY <2>1, ReviewType, InsertType DEF AppendReview
  <2>2. ASSUME NEW q \in ReviewRequest, ReplayReview(q) PROVE audit' \in [Targets -> Nat]
    BY <2>2, ReviewType DEF ReplayReview, TypeOK
  <2>3. ASSUME NEW c \in Clients, AppendCandidate(c) PROVE audit' \in [Targets -> Nat]
    BY <2>3, WriterCall, InsertType DEF AppendCandidate
  <2>4. ASSUME NEW c \in Clients, ClientStep(c), ~AppendCandidate(c) PROVE audit' = audit
    BY <2>4 DEF ClientStep, Refuse, tables, RequestReview, ReplayCandidate,
       RefuseCandidate, StartRead, StartApprove, TakeLock, LockTimeout, SelectProjection,
       SelectHistory, Report, RefuseRead, Leave
  <2>5. audit \in [Targets -> Nat]
    BY DEF TypeOK
  <2>6. QED
    BY <2>1, <2>2, <2>3, <2>4, <2>5 DEF Next, vars, Publish, tables
<1>3. published' \in [Skills -> Contents \cup {None}]
  <2>1. ASSUME NEW c \in Clients, ClientStep(c) PROVE published' = published
    BY <2>1 DEF ClientStep, Refuse, RequestReview, AppendCandidate, ReplayCandidate,
       RefuseCandidate, StartRead, StartApprove, TakeLock, LockTimeout, SelectProjection,
       SelectHistory, Report, RefuseRead, Leave
  <2>2. QED
    BY <2>1 DEF TypeOK, Next, vars, Publish, AppendReview, ReplayReview
<1>4. lock' \in Clients \cup {None}
  <2>1. ASSUME NEW c \in Clients, ClientStep(c) PROVE lock' \in {lock, c, None}
    BY <2>1 DEF ClientStep, Refuse, Unlock, RequestReview, AppendCandidate,
       ReplayCandidate, RefuseCandidate, StartRead, StartApprove, TakeLock, LockTimeout,
       SelectProjection, SelectHistory, Report, RefuseRead, Leave
  <2>2. QED
    BY <2>1 DEF TypeOK, Next, vars, Publish, AppendReview, ReplayReview
<1>5. calls' \in [Clients -> Call] /\ CallsOK'
  <2>1. ASSUME NEW c \in Clients, ClientStep(c)
        PROVE  calls' \in [Clients -> Call] /\ CallsOK'
    BY <2>1, ClientCalls DEF TypeOK, CallsOK
  <2>2. CASE calls' = calls
    BY <2>2 DEF TypeOK, CallsOK
  <2>3. QED
    BY <2>1, <2>2 DEF Next, vars, Publish, AppendReview, ReplayReview
<1>6. QED
  BY <1>1, <1>2, <1>3, <1>4, <1>5 DEF TypeInv, TypeOK

\* TypeOK holds in every reachable state of the ledger's tables and callers.
THEOREM TypeCorrect == Spec => []TypeOK
<1>1. TypeInv => TypeOK
  BY DEF TypeInv
<1>2. QED
  BY <1>1, TypeInit, TypeStep, PTL DEF Spec

-----------------------------------------------------------------------------
(***************************************************************************)
(* The ledger: projections, keys, readability and audit                    *)
(***************************************************************************)

LastOf(history) == IF history = <<>> THEN NoEvent ELSE history[Len(history)]

\* A projection row that is up to date with its history.
Current(row, history) == row.version = Len(history) /\ row.event = LastOf(history)

\* What Append does to a history.
LEMMA AppendFacts ==
    ASSUME NEW h \in Seq(Event), NEW e \in Event
    PROVE  /\ Len(h) \in Nat
           /\ Append(h, e) \in Seq(Event)
           /\ Len(Append(h, e)) = Len(h) + 1
           /\ Append(h, e)[Len(h) + 1] = e
           /\ \A i \in 1..Len(h) : Append(h, e)[i] = h[i] /\ h[i] \in Event
           /\ Append(h, e) # <<>>
           /\ h = <<>> <=> Len(h) = 0
OBVIOUS

\* The empty projection has version 0, a written one has not.
LEMMA CurrentRow ==
    ASSUME NEW h \in Seq(Event), NEW row \in Row, Current(row, h)
    PROVE  row = NoRow <=> h = <<>>
<1>1. CASE h = <<>>
  <2>1. row.version = 0 /\ row.event = NoEvent
    BY <1>1 DEF Current, LastOf
  <2>2. QED
    BY <1>1, <2>1 DEF Row, NoRow
<1>2. CASE h # <<>>
  BY <1>2 DEF Current, NoRow
<1>3. QED
  BY <1>1, <1>2

\* A row that passes the readers' check is the row of that history.
LEMMA ValidIsCurrent ==
    ASSUME NEW h \in Seq(Event), NEW row \in Row, Valid(row, h)
    PROVE  Current(row, h)
<1>1. CASE row = NoRow
  BY <1>1 DEF Valid, Current, LastOf, NoRow
<1>2. CASE row # NoRow
  BY <1>2 DEF Valid, Current, LastOf
<1>3. QED
  BY <1>1, <1>2

\* A valid history ends in "pending" only when that is its first event.
LEMMA PendingIsFirst ==
    ASSUME NEW h \in Seq(Event), NEW row \in Row, Valid(row, h),
           row.event.status = "pending"
    PROVE  Len(h) = 1 /\ h[1].status = "pending"
<1>1. row # NoRow
  BY DEF NoRow, NoEvent
<1>2. /\ h # <<>> /\ row.event = h[Len(h)]
      /\ \A i \in 1..Len(h) : ValidEvent(h, i)
  BY <1>1 DEF Valid
<1>3. Len(h) \in Nat /\ Len(h) \in 1..Len(h)
  BY <1>2
<1>4. LegalTransition(Before(h, Len(h)).status, "pending")
  BY <1>2, <1>3 DEF ValidEvent
<1>5. Before(h, Len(h)).status = "unreviewed"
  BY <1>4 DEF LegalTransition
<1>6. ASSUME Len(h) # 1 PROVE FALSE
  <2>1. Len(h) - 1 \in 1..Len(h) /\ Before(h, Len(h)) = h[Len(h) - 1]
    BY <1>3, <1>6 DEF Before
  <2>2. h[Len(h) - 1] \in Event
    BY <2>1
  <2>3. h[Len(h) - 1].status \in Decisions
    BY <2>2 DEF Event
  <2>4. QED
    BY <2>1, <2>3, <1>5 DEF Decisions
<1>7. QED
  BY <1>2, <1>6

\* The guarded writer keeps a history valid, unless it is the approval wrapper that
\* meets a pending review.
LEMMA ValidAppend ==
    ASSUME NEW h \in Seq(Event), NEW row \in Row, Valid(row, h), NEW e \in Event,
           LegalTransition(row.event.status, e.status),
           \/ e.shape = "lifecycle" /\ e.prior = PriorOf(row)
           \/ e.shape = "legacy" /\ e.status = "approved"
    PROVE  \/ Valid([version |-> row.version + 1, event |-> e], Append(h, e))
           \/ LegacyAfterPending(Append(h, e))
<1> DEFINE g == Append(h, e)
           n == Len(h)
           new == [version |-> row.version + 1, event |-> e]
<1>1. Current(row, h)
  BY ValidIsCurrent
<1>2. row = NoRow <=> h = <<>>
  BY <1>1, CurrentRow
<1>3. /\ n \in Nat /\ Len(g) = n + 1 /\ g[n + 1] = e /\ g # <<>>
      /\ \A i \in 1..n : g[i] = h[i]
      /\ h = <<>> <=> n = 0
  BY AppendFacts
<1>4. \A i \in 1..n : ValidEvent(h, i)
  <2>1. CASE h = <<>>
    BY <2>1, <1>3
  <2>2. CASE h # <<>>
    BY <2>2, <1>2 DEF Valid
  <2>3. QED
    BY <2>1, <2>2
<1>5. \A i \in 1..n : ValidEvent(g, i)
  <2> SUFFICES ASSUME NEW i \in 1..n PROVE ValidEvent(g, i)
    OBVIOUS
  <2>1. g[i] = h[i] /\ Before(g, i) = Before(h, i)
    BY <1>3 DEF Before
  <2>2. QED
    BY <2>1, <1>4 DEF ValidEvent
<1>6. Before(g, n + 1) = row.event
  BY <1>1, <1>3 DEF Before, Current, LastOf
<1>7. [version |-> n + 1 - 1, event |-> Before(g, n + 1)] = row
  BY <1>1, <1>3, <1>6 DEF Current, Row
<1>8. CASE e.shape = "lifecycle" /\ e.prior = PriorOf(row)
  <2>1. ValidEvent(g, n + 1)
    BY <1>3, <1>6, <1>7, <1>8 DEF ValidEvent
  <2>2. \A i \in 1..Len(g) : ValidEvent(g, i)
    BY <1>3, <1>5, <2>1
  <2>3. new # NoRow /\ new.version = Len(g) /\ new.event = g[Len(g)]
    BY <1>1, <1>3 DEF Current, NoRow
  <2>4. QED
    BY <1>3, <2>2, <2>3 DEF Valid
<1>9. CASE e.shape = "legacy" /\ e.status = "approved" /\ n = 0
  <2>1. ValidEvent(g, n + 1)
    BY <1>3, <1>6, <1>9 DEF ValidEvent
  <2>2. \A i \in 1..Len(g) : ValidEvent(g, i)
    BY <1>3, <1>5, <2>1
  <2>3. new # NoRow /\ new.version = Len(g) /\ new.event = g[Len(g)]
    BY <1>1, <1>3 DEF Current, NoRow
  <2>4. QED
    BY <1>3, <2>2, <2>3 DEF Valid
<1>10. CASE e.shape = "legacy" /\ e.status = "approved" /\ n # 0
  <2>1. row.event.status # "unreviewed"
    <3>1. n \in 1..n /\ row.event = h[n]
      BY <1>1, <1>3, <1>10 DEF Current, LastOf
    <3>2. h[n] \in Event
      BY <3>1
    <3>3. h[n].status \in Decisions
      BY <3>2 DEF Event
    <3>4. QED
      BY <3>1, <3>3 DEF Decisions
  <2>2. row.event.status = "pending"
    BY <2>1 DEF LegalTransition
  <2>3. n = 1 /\ h[1].status = "pending"
    BY <2>2, PendingIsFirst
  <2>4. QED
    BY <1>3, <1>10, <2>3 DEF LegacyAfterPending
<1>11. QED
  BY <1>8, <1>9, <1>10

\* What Insert does to each target.
LEMMA InsertEffect ==
    ASSUME TypeOK, NEW t \in Targets, NEW e \in Event, Insert(t, e)
    PROVE  /\ events'[t] = Append(events[t], e)
           /\ projection'[t] = [version |-> projection[t].version + 1, event |-> e]
           /\ audit'[t] = audit[t] + 1
           /\ events[t] \in Seq(Event) /\ projection[t] \in Row
           /\ \A u \in Targets \ {t} :
                /\ events'[u] = events[u]
                /\ projection'[u] = projection[u]
                /\ audit'[u] = audit[u]
BY DEF Insert, TypeOK

\* Every write is an Insert under a fresh key; on a candidate it is an accepted one.
LEMMA Writes ==
    ASSUME TypeOK, CallsOK, [Next]_vars, ~Quiet
    PROVE  \E t \in Targets, e \in Event :
             /\ Insert(t, e)
             /\ Holders(e.key) = {}
             /\ t \in Candidates =>
                  \E c \in Clients :
                    /\ AppendCandidate(c)
                    /\ t = calls[c].target
                    /\ e = CandidateEvent(calls[c])
                    /\ Accepts(calls[c])
<1>1. ASSUME NEW q \in ReviewRequest, AppendReview(q)
      PROVE  /\ Insert(q.target, Review(q)) /\ Holders(Review(q).key) = {}
             /\ q.target \in Targets /\ Review(q) \in Event
             /\ q.target \notin Candidates
  BY <1>1, ReviewType, TopicsAssumption DEF AppendReview, Review, Candidates
<1>2. ASSUME NEW c \in Clients, AppendCandidate(c)
      PROVE  /\ Insert(calls[c].target, CandidateEvent(calls[c]))
             /\ Holders(CandidateEvent(calls[c]).key) = {}
             /\ calls[c].target \in Targets /\ CandidateEvent(calls[c]) \in Event
             /\ Accepts(calls[c])
  BY <1>2, WriterCall DEF AppendCandidate, CandidateEvent
<1>3. CASE \E q \in ReviewRequest : AppendReview(q)
  BY <1>1, <1>3
<1>4. CASE \E c \in Clients : AppendCandidate(c)
  BY <1>2, <1>4
<1>5. QED
  BY <1>3, <1>4, TableWriters

ProjectionOK == \A t \in Targets : Current(projection[t], events[t])

LEMMA ProjectionStep == TypeInv /\ ProjectionOK /\ [Next]_vars => ProjectionOK'
<1> SUFFICES ASSUME TypeOK, CallsOK, ProjectionOK, [Next]_vars PROVE ProjectionOK'
  BY DEF TypeInv
<1>1. CASE Quiet
  BY <1>1 DEF Quiet, ProjectionOK
<1>2. CASE ~Quiet
  <2>1. PICK t \in Targets, e \in Event : Insert(t, e)
    BY <1>2, Writes
  <2>2. SUFFICES ASSUME NEW u \in Targets PROVE Current(projection'[u], events'[u])
    BY DEF ProjectionOK
  <2>3. CASE u # t
    <3>1. \A v \in Targets \ {t} : events'[v] = events[v] /\ projection'[v] = projection[v]
      BY <2>1, InsertEffect
    <3>2. events'[u] = events[u] /\ projection'[u] = projection[u]
      BY <2>3, <3>1
    <3>3. QED
      BY <3>2 DEF ProjectionOK
  <2>4. CASE u = t
    <3>1. /\ events'[t] = Append(events[t], e) /\ events[t] \in Seq(Event)
          /\ projection'[t] = [version |-> projection[t].version + 1, event |-> e]
      BY <2>1, InsertEffect
    <3>2. projection[t].version = Len(events[t])
      BY DEF ProjectionOK, Current
    <3>3. QED
      BY <2>4, <3>1, <3>2, AppendFacts DEF Current, LastOf
  <2>5. QED
    BY <2>3, <2>4
<1>3. QED
  BY <1>1, <1>2

LEMMA KeyStep == TypeInv /\ OneEventPerKey /\ [Next]_vars => OneEventPerKey'
<1> SUFFICES ASSUME TypeOK, CallsOK, OneEventPerKey, [Next]_vars PROVE OneEventPerKey'
  BY DEF TypeInv
<1>1. CASE Quiet
  BY <1>1 DEF Quiet, OneEventPerKey
<1>2. CASE ~Quiet
  <2>1. PICK t \in Targets, e \in Event : Insert(t, e) /\ Holders(e.key) = {}
    BY <1>2, Writes
  <2>2. \A u \in Targets : \A i \in 1..Len(events[u]) : events[u][i].key # e.key
    BY <2>1 DEF Holders, Stored
  <2>3. /\ events'[t] = Append(events[t], e) /\ events[t] \in Seq(Event)
        /\ \A u \in Targets \ {t} : events'[u] = events[u]
    BY <2>1, InsertEffect
  <2>4. /\ Len(events[t]) \in Nat /\ Len(events'[t]) = Len(events[t]) + 1
        /\ events'[t][Len(events[t]) + 1] = e
        /\ \A i \in 1..Len(events[t]) : events'[t][i] = events[t][i]
    BY <2>3, AppendFacts
  <2>5. \* A place of the new table holds the new event, or is a place of the old one.
        \A u \in Targets : \A i \in 1..Len(events'[u]) :
          \/ u = t /\ i = Len(events[t]) + 1 /\ events'[u][i] = e
          \/ i \in 1..Len(events[u]) /\ events'[u][i] = events[u][i]
    <3>1. ASSUME NEW i \in 1..Len(events'[t])
          PROVE  \/ i = Len(events[t]) + 1 /\ events'[t][i] = e
                 \/ i \in 1..Len(events[t]) /\ events'[t][i] = events[t][i]
      <4>1. i \in 1..(Len(events[t]) + 1)
        BY <2>4, <3>1
      <4>2. i = Len(events[t]) + 1 \/ i \in 1..Len(events[t])
        BY <2>4, <4>1
      <4>3. QED
        BY <2>4, <4>2
    <3>2. ASSUME NEW u \in Targets \ {t}, NEW i \in 1..Len(events'[u])
          PROVE  i \in 1..Len(events[u]) /\ events'[u][i] = events[u][i]
      BY <2>3
    <3>3. QED
      BY <3>1, <3>2
  <2>6. SUFFICES ASSUME NEW u \in Targets, NEW v \in Targets,
                        NEW i \in 1..Len(events'[u]), NEW j \in 1..Len(events'[v]),
                        events'[u][i].key = events'[v][j].key
                 PROVE  u = v /\ i = j
    BY DEF OneEventPerKey
  <2>7. CASE i \in 1..Len(events[u]) /\ events'[u][i] = events[u][i]
    <3>1. j \in 1..Len(events[v]) /\ events'[v][j] = events[v][j]
      BY <2>2, <2>5, <2>6, <2>7
    <3>2. QED
      BY <2>6, <2>7, <3>1 DEF OneEventPerKey
  <2>8. CASE u = t /\ i = Len(events[t]) + 1 /\ events'[u][i] = e
    <3>1. v = t /\ j = Len(events[t]) + 1
      <4>1. events'[v][j].key = e.key
        BY <2>6, <2>8
      <4>2. \/ v = t /\ j = Len(events[t]) + 1
            \/ j \in 1..Len(events[v]) /\ events'[v][j] = events[v][j]
        BY <2>5
      <4>3. QED
        BY <2>2, <4>1, <4>2
    <3>2. QED
      BY <2>8, <3>1
  <2>9. QED
    BY <2>5, <2>7, <2>8
<1>3. QED
  BY <1>1, <1>2

LEMMA ReadableStep ==
    TypeInv /\ UnreadableOnlyByLegacyRace /\ [Next]_vars => UnreadableOnlyByLegacyRace'
<1> SUFFICES ASSUME TypeOK, CallsOK, UnreadableOnlyByLegacyRace, [Next]_vars
             PROVE  UnreadableOnlyByLegacyRace'
  BY DEF TypeInv
<1>1. CASE Quiet
  BY <1>1 DEF Quiet, UnreadableOnlyByLegacyRace
<1>2. CASE ~Quiet
  <2>1. PICK t \in Targets, e \in Event :
          /\ Insert(t, e)
          /\ t \in Candidates =>
               \E c \in Clients :
                 /\ AppendCandidate(c) /\ t = calls[c].target
                 /\ e = CandidateEvent(calls[c]) /\ Accepts(calls[c])
    BY <1>2, Writes
  <2>2. SUFFICES ASSUME NEW u \in Candidates
                 PROVE  Valid(projection'[u], events'[u]) \/ LegacyAfterPending(events'[u])
    BY DEF UnreadableOnlyByLegacyRace
  <2>3. u \in Targets
    BY DEF Targets
  <2>4. CASE u # t
    <3>1. events'[u] = events[u] /\ projection'[u] = projection[u]
      BY <2>1, <2>3, <2>4, InsertEffect
    <3>2. QED
      BY <3>1 DEF UnreadableOnlyByLegacyRace
  <2>5. CASE u = t
    <3>1. PICK c \in Clients :
            /\ AppendCandidate(c) /\ t = calls[c].target
            /\ e = CandidateEvent(calls[c]) /\ Accepts(calls[c])
      BY <2>1, <2>5
    <3>2. /\ events'[t] = Append(events[t], e) /\ events[t] \in Seq(Event)
          /\ projection'[t] = [version |-> projection[t].version + 1, event |-> e]
          /\ projection[t] \in Row
      BY <2>1, InsertEffect
    <3>3. /\ Valid(projection[t], events[t])
          /\ LegalTransition(projection[t].event.status, e.status)
      BY <3>1 DEF Accepts, CandidateEvent
    <3>4. calls[c].op \in {"candidate", "approve"} /\ WellFormed(calls[c])
      BY <3>1, WriterCall DEF CallsOK
    <3>5. \/ e.shape = "lifecycle" /\ e.prior = PriorOf(projection[t])
          \/ e.shape = "legacy" /\ e.status = "approved"
      BY <3>1, <3>4 DEF CandidateEvent, WellFormed
    <3>6. QED
      BY <2>5, <3>2, <3>3, <3>5, ValidAppend
  <2>6. QED
    BY <2>4, <2>5
<1>3. QED
  BY <1>1, <1>2

LEMMA AuditStep ==
    TypeInv /\ AuditMatchesDecisions /\ [Next]_vars => AuditMatchesDecisions'
<1> SUFFICES ASSUME TypeOK, CallsOK, AuditMatchesDecisions, [Next]_vars
             PROVE  AuditMatchesDecisions'
  BY DEF TypeInv
<1>1. CASE Quiet
  <2>1. ASSUME NEW t \in Candidates PROVE audit'[t] = audit[t]
    <3>1. t \in Targets /\ t \notin Topics
      BY TopicsAssumption DEF Candidates, Targets
    <3>2. ASSUME NEW q \in ReviewRequest, ReplayReview(q) PROVE audit'[t] = audit[t]
      BY <3>1, <3>2, ReviewType DEF ReplayReview, TypeOK
    <3>3. ASSUME NEW q \in ReviewRequest, AppendReview(q) PROVE audit'[t] = audit[t]
      <4>1. Insert(q.target, Review(q)) /\ q.target \in Targets /\ q.target # t
            /\ Review(q) \in Event
        BY <3>1, <3>3, ReviewType DEF AppendReview
      <4>2. \A u \in Targets \ {q.target} : audit'[u] = audit[u]
        BY <4>1, InsertEffect
      <4>3. QED
        BY <3>1, <4>1, <4>2
    <3>4. ASSUME NEW c \in Clients, AppendCandidate(c) PROVE FALSE
      <4>1. Insert(calls[c].target, CandidateEvent(calls[c]))
        BY <3>4 DEF AppendCandidate
      <4>2. sequence' = sequence + 1
        BY <4>1 DEF Insert, CandidateEvent
      <4>3. QED
        BY <1>1, <4>2 DEF Quiet, TypeOK
    <3>5. ASSUME NEW c \in Clients, ClientStep(c), ~AppendCandidate(c)
          PROVE  audit' = audit
      BY <3>5 DEF ClientStep, Refuse, tables, RequestReview, ReplayCandidate,
         RefuseCandidate, StartRead, StartApprove, TakeLock, LockTimeout,
         SelectProjection, SelectHistory, Report, RefuseRead, Leave
    <3>6. QED
      BY <3>2, <3>3, <3>4, <3>5 DEF Next, vars, Publish, tables
  <2>2. QED
    BY <1>1, <2>1 DEF Quiet, AuditMatchesDecisions
<1>2. CASE ~Quiet
  <2>1. PICK t \in Targets, e \in Event : Insert(t, e)
    BY <1>2, Writes
  <2>2. SUFFICES ASSUME NEW u \in Candidates PROVE audit'[u] = Len(events'[u])
    BY DEF AuditMatchesDecisions
  <2>3. u \in Targets /\ audit[u] = Len(events[u])
    BY DEF Targets, AuditMatchesDecisions
  <2>4. CASE u # t
    <3>1. \A v \in Targets \ {t} : events'[v] = events[v] /\ audit'[v] = audit[v]
      BY <2>1, InsertEffect
    <3>2. QED
      BY <2>3, <2>4, <3>1
  <2>5. CASE u = t
    <3>1. /\ events'[t] = Append(events[t], e) /\ events[t] \in Seq(Event)
          /\ audit'[t] = audit[t] + 1
      BY <2>1, InsertEffect
    <3>2. Len(events'[t]) = Len(events[t]) + 1
      BY <3>1, AppendFacts
    <3>3. QED
      BY <2>3, <2>5, <3>1, <3>2
  <2>6. QED
    BY <2>4, <2>5
<1>3. QED
  BY <1>1, <1>2

LedgerInv ==
    /\ TypeInv
    /\ ProjectionOK
    /\ OneEventPerKey
    /\ UnreadableOnlyByLegacyRace
    /\ AuditMatchesDecisions

LEMMA LedgerInvariant == Spec => []LedgerInv
<1>1. Init => LedgerInv
  <2> SUFFICES ASSUME Init PROVE LedgerInv
    OBVIOUS
  <2>1. TypeInv
    BY TypeInit
  <2>2. \A t \in Targets : events[t] = <<>> /\ projection[t] = NoRow /\ audit[t] = 0
    BY DEF Init
  <2>3. ProjectionOK
    BY <2>2 DEF ProjectionOK, Current, LastOf, NoRow
  <2>4. OneEventPerKey
    BY <2>2 DEF OneEventPerKey
  <2>5. UnreadableOnlyByLegacyRace
    BY <2>2 DEF UnreadableOnlyByLegacyRace, Valid, Targets
  <2>6. AuditMatchesDecisions
    BY <2>2 DEF AuditMatchesDecisions, Targets
  <2>7. QED
    BY <2>1, <2>3, <2>4, <2>5, <2>6 DEF LedgerInv
<1>2. LedgerInv /\ [Next]_vars => LedgerInv'
  BY TypeStep, ProjectionStep, KeyStep, ReadableStep, AuditStep DEF LedgerInv
<1>3. QED
  BY <1>1, <1>2, PTL DEF Spec

\* An idempotency key names at most one review, in the whole ledger.
THEOREM KeysAreUnique == Spec => []OneEventPerKey
<1>1. LedgerInv => OneEventPerKey
  BY DEF LedgerInv
<1>2. QED
  BY <1>1, LedgerInvariant, PTL

\* Every projection row counts its target's events and repeats the last one.
THEOREM ProjectionCorrect == Spec => []ProjectionMatchesHistory
<1>1. LedgerInv => ProjectionMatchesHistory
  BY DEF LedgerInv, ProjectionOK, ProjectionMatchesHistory, Current, LastOf
<1>2. QED
  BY <1>1, LedgerInvariant, PTL

\* The approval wrapper's race with a pending review is the only way to a history that
\* the readers reject.
THEOREM ReadableUnlessRaced == Spec => []UnreadableOnlyByLegacyRace
<1>1. LedgerInv => UnreadableOnlyByLegacyRace
  BY DEF LedgerInv
<1>2. QED
  BY <1>1, LedgerInvariant, PTL

\* Accepted candidate reviews and their audit rows are in step.
THEOREM AuditComplete == Spec => []AuditMatchesDecisions
<1>1. LedgerInv => AuditMatchesDecisions
  BY DEF LedgerInv
<1>2. QED
  BY <1>1, LedgerInvariant, PTL

\* Events, projections and audit rows agree in every reachable state.
THEOREM TablesCorrect == Spec => []TablesAgree
<1>1. QED
  BY ProjectionCorrect, AuditComplete, PTL DEF TablesAgree

\* Keys are used once and the ledger's tables agree, in every reachable state.
THEOREM RecordsCorrect == Spec => []RecordsAgree
<1>1. QED
  BY KeysAreUnique, TablesCorrect, PTL DEF RecordsAgree

-----------------------------------------------------------------------------
(***************************************************************************)
(* Answers                                                                 *)
(***************************************************************************)

\* A consistent read selected the row that is current.
LEMMA ConsistentIsCurrent ==
    ASSUME TypeOK, ProjectionOK, NEW q \in Call, q.target \in Targets, Consistent(q)
    PROVE  projection[q.target].event = q.row.event
<1>1. q.row \in Row /\ events[q.target] \in Seq(Event)
  BY CallFields DEF TypeOK
<1>2. Current(q.row, events[q.target])
  BY <1>1, ValidIsCurrent DEF Consistent
<1>3. Current(projection[q.target], events[q.target])
  BY DEF ProjectionOK
<1>4. QED
  BY <1>2, <1>3 DEF Current

\* A report answers with the last event of the history.
LEMMA ReportIsCurrent ==
    ASSUME TypeOK, ProjectionOK, NEW q \in Call, q.target \in Targets, Reportable(q)
    PROVE  projection[q.target].event = q.seen.event
<1>1. events[q.target] # <<>> /\ q.seen.event = events[q.target][Len(events[q.target])]
  BY DEF Reportable
<1>2. Current(projection[q.target], events[q.target])
  BY DEF ProjectionOK
<1>3. QED
  BY <1>1, <1>2 DEF Current, LastOf

\* Reading on to an answer answers with the row that was read.
LEMMA ContinueAnswer ==
    ASSUME NEW q \in Call, q.at = "history", Continue(q).at = "done"
    PROVE  /\ Continue(q).answer = q.row.event
           /\ Continue(q).target = q.target
           /\ Continue(q).op = q.op
           /\ q.op \in {"read", "state"}
<1>1. CASE q.op = "read" \/ (q.op = "state" /\ q.row = NoRow)
  <2>1. Continue(q) = [q EXCEPT !.at = "done", !.seen = q.row, !.answer = q.row.event,
                                !.row = NoRow]
    BY <1>1 DEF Continue
  <2>2. QED
    BY <1>1, <2>1 DEF Call
<1>2. CASE ~(q.op = "read" \/ (q.op = "state" /\ q.row = NoRow)) /\ q.row = NoRow
  <2>1. Continue(q) = [q EXCEPT !.at = "commit", !.row = NoRow]
    BY <1>2 DEF Continue
  <2>2. QED
    BY <2>1 DEF Call
<1>3. CASE ~(q.op = "read" \/ (q.op = "state" /\ q.row = NoRow)) /\ q.row # NoRow
  <2>1. Continue(q) = [q EXCEPT !.at = "select", !.phase = "report", !.seen = q.row,
                                !.row = NoRow]
    BY <1>3 DEF Continue
  <2>2. QED
    BY <2>1 DEF Call
<1>4. QED
  BY <1>1, <1>2, <1>3

Written(q, e) ==
    /\ e.key = q.key
    /\ e.actor = q.actor
    /\ e.status = q.status
    /\ q.note \in {None, e.note}
    /\ q.expected \in {None, e.prior}

EventsOf(history) == {history[i] : i \in 1..Len(history)}

\* The two kinds of step that answer a call, and what they answer.
LEMMA AnswerSteps ==
    ASSUME TypeOK, CallsOK, ProjectionOK, NEW c \in Clients, ClientStep(c),
           calls'[c].at = "done"
    PROVE  /\ calls'[c].target = calls[c].target
           /\ calls'[c].op = calls[c].op
           /\ calls[c].target \in Candidates
           /\ \/ /\ calls[c].op = "candidate"
                 /\ Written(calls'[c], calls'[c].answer)
                 /\ calls'[c].answer \in EventsOf(events'[calls[c].target])
              \/ /\ calls[c].op \in {"read", "state", "approve"}
                 /\ calls'[c].answer = projection[calls[c].target].event
                 /\ Quiet
<1> DEFINE q == calls[c]
<1>0. q \in Call /\ WellFormed(q) /\ calls \in [Clients -> Call]
  BY DEF TypeOK, CallsOK
<1>1. ASSUME NEW n, calls' = [calls EXCEPT ![c] = n] PROVE calls'[c] = n
  BY <1>0, <1>1
<1>2. ASSUME Refuse(c) PROVE FALSE
  <2>1. calls'[c] = Idle
    BY <1>1, <1>2 DEF Refuse, GoTo
  <2>2. QED
    BY <2>1 DEF Idle
<1>3. CASE RequestReview(c) \/ StartRead(c) \/ StartApprove(c)
  <2>1. ASSUME RequestReview(c) PROVE FALSE
    <3>1. PICK t, k, a, s, n, x :
            GoTo(c, [Idle EXCEPT !.op = "candidate", !.at = "commit", !.target = t,
                                 !.key = k, !.actor = a, !.status = s, !.note = n,
                                 !.expected = x])
      BY <2>1 DEF RequestReview
    <3>2. calls'[c].at = "commit"
      BY <1>1, <3>1 DEF GoTo, Idle
    <3>3. QED
      BY <3>2
  <2>2. ASSUME StartRead(c) PROVE FALSE
    <3>1. PICK t, op : GoTo(c, [Idle EXCEPT !.op = op, !.at = "select", !.target = t])
      BY <2>2 DEF StartRead
    <3>2. calls'[c].at = "select"
      BY <1>1, <3>1 DEF GoTo, Idle
    <3>3. QED
      BY <3>2
  <2>3. ASSUME StartApprove(c) PROVE FALSE
    <3>1. PICK t, k, a : GoTo(c, [Idle EXCEPT !.op = "approve", !.at = "lock", !.target = t,
                                              !.key = k, !.actor = a,
                                              !.status = "approved"])
      BY <2>3 DEF StartApprove
    <3>2. calls'[c].at = "lock"
      BY <1>1, <3>1 DEF GoTo, Idle
    <3>3. QED
      BY <3>2
  <2>4. QED
    BY <1>3, <2>1, <2>2, <2>3
<1>4. CASE TakeLock(c) \/ SelectProjection(c)
  <2>1. \E n : calls' = [calls EXCEPT ![c] = n] /\ n.at \in {"history", "select"}
    BY <1>0, <1>4 DEF TakeLock, SelectProjection, GoTo, Call
  <2>2. QED
    BY <1>1, <2>1
<1>5. CASE SelectHistory(c)
  <2>1. calls'[c] = Continue(q) /\ q.at = "history" /\ Consistent(q) /\ Quiet
    BY <1>1, <1>5 DEF SelectHistory, GoTo, Quiet, tables
  <2>2. q.target \in Candidates /\ q.target \in Targets
    BY <1>0, <2>1 DEF WellFormed, Targets
  <2>3. QED
    BY <1>0, <2>1, <2>2, ContinueAnswer, ConsistentIsCurrent
<1>6. CASE Report(c)
  <2>1. /\ calls'[c] = [q EXCEPT !.at = "done", !.answer = q.seen.event, !.row = NoRow]
        /\ q.at = "history" /\ Reportable(q) /\ Quiet
    BY <1>1, <1>6 DEF Report, GoTo, Quiet, tables
  <2>2. q.target \in Candidates /\ q.target \in Targets
        /\ q.op \in {"read", "state", "approve"}
    BY <1>0, <2>1 DEF WellFormed, Targets
  <2>3. calls'[c].answer = q.seen.event /\ calls'[c].target = q.target /\ calls'[c].op = q.op
    BY <1>0, <2>1 DEF Call
  <2>4. QED
    BY <1>0, <2>1, <2>2, <2>3, ReportIsCurrent
<1>7. ASSUME NEW e \in Event, q.op \in {"candidate", "approve"}, calls'[c] = Answered(q, e),
             e.key = q.key, e.actor = q.actor, e.status = q.status,
             q.op = "candidate" =>
               q.note \in {None, e.note} /\ q.expected \in {None, e.prior},
             e \in EventsOf(events'[q.target])
      PROVE  /\ calls'[c].target = q.target /\ calls'[c].op = q.op
             /\ q.target \in Candidates
             /\ q.op = "candidate"
             /\ Written(calls'[c], calls'[c].answer)
             /\ calls'[c].answer \in EventsOf(events'[q.target])
  <2>1. q.op = "candidate"
    <3>1. CASE q.op = "approve"
      <4>1. calls'[c] = [q EXCEPT !.at = "select", !.phase = "confirm"]
        BY <1>7, <3>1 DEF Answered
      <4>2. QED
        BY <1>0, <4>1 DEF Call
    <3>2. QED
      BY <1>7, <3>1
  <2>2. calls'[c] = [q EXCEPT !.at = "done", !.answer = e]
    BY <1>7, <2>1 DEF Answered
  <2>3. /\ calls'[c].target = q.target /\ calls'[c].op = q.op /\ calls'[c].answer = e
        /\ calls'[c].key = q.key /\ calls'[c].actor = q.actor
        /\ calls'[c].status = q.status /\ calls'[c].note = q.note
        /\ calls'[c].expected = q.expected
    BY <1>0, <2>2 DEF Call
  <2>4. q.target \in Candidates
    BY <1>0, <2>1 DEF WellFormed
  <2>5. QED
    BY <1>7, <2>1, <2>3, <2>4 DEF Written
<1>8. CASE AppendCandidate(c)
  <2> DEFINE e == CandidateEvent(q)
  <2>1. /\ q.op \in {"candidate", "approve"} /\ e \in Event /\ q.target \in Targets
    BY <1>8, WriterCall
  <2>2. Insert(q.target, e) /\ Accepts(q) /\ calls'[c] = Answered(q, e)
    BY <1>1, <1>8 DEF AppendCandidate, GoTo
  <2>3. events'[q.target] = Append(events[q.target], e) /\ events[q.target] \in Seq(Event)
    BY <2>1, <2>2, InsertEffect
  <2>4. e \in EventsOf(events'[q.target])
    <3>1. Len(events[q.target]) + 1 \in 1..Len(events'[q.target])
          /\ events'[q.target][Len(events[q.target]) + 1] = e
      BY <2>1, <2>3, AppendFacts
    <3>2. QED
      BY <3>1 DEF EventsOf
  <2>5. /\ e.key = q.key /\ e.actor = q.actor /\ e.status = q.status /\ e.note = q.note
        /\ q.op = "candidate" => q.expected \in {None, e.prior}
    BY <2>2 DEF Accepts, CandidateEvent
  <2>6. QED
    BY <1>7, <2>1, <2>2, <2>4, <2>5
<1>9. CASE ReplayCandidate(c)
  <2>1. PICK t \in Targets : \E e \in Stored(t) : Replays(q, t, e) /\ GoTo(c, Answered(q, e))
    BY <1>9 DEF ReplayCandidate, Holders
  <2>2. PICK e \in Stored(t) : Replays(q, t, e) /\ GoTo(c, Answered(q, e))
    BY <2>1
  <2>3. e \in Event /\ q.op \in {"candidate", "approve"}
    BY <1>9, <2>1, <2>2 DEF Stored, TypeOK, ReplayCandidate, At
  <2>4. /\ t = q.target /\ e.key = q.key /\ e.actor = q.actor /\ e.status = q.status
        /\ q.op = "candidate" => q.note \in {None, e.note} /\ q.expected \in {None, e.prior}
    BY <2>2 DEF Replays, SameCandidate
  <2>5. e \in EventsOf(events'[q.target])
    <3>1. events' = events
      BY <1>9 DEF ReplayCandidate, tables
    <3>2. QED
      BY <2>2, <2>4, <3>1 DEF Stored, EventsOf
  <2>6. calls'[c] = Answered(q, e)
    BY <1>1, <2>2 DEF GoTo
  <2>7. QED
    BY <1>7, <2>3, <2>4, <2>5, <2>6
<1>10. QED
  BY <1>2, <1>3, <1>4, <1>5, <1>6, <1>8, <1>9
     DEF ClientStep, RefuseCandidate, LockTimeout, RefuseRead, Leave

\* Events are never removed.
LEMMA EventsGrow ==
    ASSUME TypeOK, CallsOK, [Next]_vars, NEW t \in Targets
    PROVE  EventsOf(events[t]) \subseteq EventsOf(events'[t])
<1>1. CASE Quiet
  BY <1>1 DEF Quiet
<1>2. CASE ~Quiet
  <2>1. PICK u \in Targets, e \in Event : Insert(u, e)
    BY <1>2, Writes
  <2>2. CASE t # u
    BY <2>1, <2>2, InsertEffect
  <2>3. CASE t = u
    <3>1. events'[t] = Append(events[t], e) /\ events[t] \in Seq(Event)
      BY <2>1, <2>3, InsertEffect
    <3>2. /\ Len(events[t]) \in Nat /\ Len(events'[t]) = Len(events[t]) + 1
          /\ \A i \in 1..Len(events[t]) : events'[t][i] = events[t][i]
      BY <3>1, AppendFacts
    <3>3. QED
      BY <3>2 DEF EventsOf
  <2>4. QED
    BY <2>2, <2>3
<1>3. QED
  BY <1>1, <1>2

\* A decided candidate is not written again.
LEMMA DecidedStays ==
    ASSUME TypeOK, CallsOK, [Next]_vars, NEW t \in Candidates,
           projection[t].event.status \notin {"unreviewed", "pending"}
    PROVE  projection'[t] = projection[t]
<1>1. CASE Quiet
  BY <1>1 DEF Quiet
<1>2. CASE ~Quiet
  <2>1. PICK u \in Targets, e \in Event :
          /\ Insert(u, e)
          /\ u \in Candidates =>
               \E c \in Clients : u = calls[c].target /\ Accepts(calls[c])
    BY <1>2, Writes
  <2>2. t # u
    BY <2>1 DEF Accepts, LegalTransition
  <2>3. QED
    BY <2>1, <2>2, InsertEffect DEF Targets
<1>3. QED
  BY <1>1, <1>2

\* A step changes the call of one client at most.
LEMMA OneCaller ==
    ASSUME TypeOK, CallsOK, [Next]_vars, NEW d \in Clients
    PROVE  calls'[d] = calls[d] \/ ClientStep(d)
<1>1. ASSUME NEW c \in Clients, ClientStep(c), c # d PROVE calls'[d] = calls[d]
  BY <1>1, ClientCalls DEF TypeOK
<1>2. QED
  BY <1>1 DEF Next, vars, Publish, AppendReview, ReplayReview

\* The two halves of AnswersStand for one call.
Recorded(q, history) ==
    q.op = "candidate" /\ q.at = "done" =>
        q.answer \in EventsOf(history) /\ Written(q, q.answer)

Upheld(q, row) ==
    /\ q.op \in {"approve", "state", "read"} /\ q.at = "done"
    /\ q.answer.status \notin {"unreviewed", "pending"}
    => row.event = q.answer

AnswersOK ==
    \A c \in Clients :
        calls[c].op # "none" =>
            /\ Recorded(calls[c], events[calls[c].target])
            /\ Upheld(calls[c], projection[calls[c].target])

LEMMA AnswersStep == LedgerInv /\ AnswersOK /\ [Next]_vars => AnswersOK'
<1> SUFFICES ASSUME TypeOK, CallsOK, ProjectionOK, AnswersOK, [Next]_vars,
                    NEW d \in Clients, calls'[d].op # "none"
             PROVE  /\ Recorded(calls'[d], events'[calls'[d].target])
                    /\ Upheld(calls'[d], projection'[calls'[d].target])
  BY DEF LedgerInv, TypeInv, AnswersOK
<1>1. CASE calls'[d] = calls[d]
  <2> DEFINE q == calls[d]
  <2>1. q.target \in Candidates /\ q.target \in Targets
    BY <1>1 DEF CallsOK, WellFormed, Targets
  <2>2. Recorded(q, events[q.target]) /\ Upheld(q, projection[q.target])
    BY <1>1 DEF AnswersOK
  <2>3. EventsOf(events[q.target]) \subseteq EventsOf(events'[q.target])
    BY <2>1, EventsGrow
  <2>4. projection[q.target].event.status \notin {"unreviewed", "pending"}
        => projection'[q.target] = projection[q.target]
    BY <2>1, DecidedStays
  <2>5. Recorded(q, events'[q.target])
    BY <2>2, <2>3 DEF Recorded
  <2>6. Upheld(q, projection'[q.target])
    BY <2>2, <2>4 DEF Upheld
  <2>7. QED
    BY <1>1, <2>5, <2>6
<1>2. CASE ClientStep(d) /\ calls'[d].at = "done"
  <2> DEFINE q == calls[d]
             n == calls'[d]
  <2>1. n.target = q.target /\ n.op = q.op /\ q.target \in Candidates
    BY <1>2, AnswerSteps
  <2>2. CASE q.op = "candidate" /\ Written(n, n.answer)
             /\ n.answer \in EventsOf(events'[q.target])
    BY <2>1, <2>2 DEF Recorded, Upheld
  <2>3. CASE q.op \in {"read", "state", "approve"} /\ Quiet
             /\ n.answer = projection[q.target].event
    <3>1. projection' = projection
      BY <2>3 DEF Quiet
    <3>2. QED
      BY <2>1, <2>3, <3>1 DEF Recorded, Upheld
  <2>4. QED
    BY <1>2, <2>2, <2>3, AnswerSteps
<1>3. CASE calls'[d].at # "done"
  BY <1>3 DEF Recorded, Upheld
<1>4. QED
  BY <1>1, <1>2, <1>3, OneCaller

\* Answered writes are in the ledger as they were asked for, and answered decisions
\* stay the candidate's decision.
THEOREM AnswersCorrect == Spec => []AnswersStand
<1>1. Init => AnswersOK
  BY DEF Init, AnswersOK, Idle
<1>2. LedgerInv /\ AnswersOK => AnswersStand
  <2> SUFFICES ASSUME LedgerInv, AnswersOK, NEW c \in Clients
               PROVE  /\ At(c, {"candidate"}, "done") =>
                           /\ calls[c].answer \in Stored(calls[c].target)
                           /\ Written(calls[c], calls[c].answer)
                      /\ /\ At(c, {"approve", "state", "read"}, "done")
                         /\ calls[c].answer.status \notin {"unreviewed", "pending"}
                         => projection[calls[c].target].event = calls[c].answer
    BY DEF AnswersStand, Written
  <2>1. CASE calls[c].op = "none"
    BY <2>1 DEF At
  <2>2. CASE calls[c].op # "none"
    BY <2>2 DEF AnswersOK, Recorded, Upheld, At, Stored, EventsOf
  <2>3. QED
    BY <2>1, <2>2
<1>3. QED
  BY <1>1, <1>2, LedgerInvariant, AnswersStep, PTL DEF Spec

\* A read answers with the projection that is current when it returns.
THEOREM ReadsCorrect == Spec => ReadsAreCurrent
<1> DEFINE Reads == \A c \in Clients :
                      /\ calls[c].op \in {"read", "state", "approve"}
                      /\ calls[c].at # "done"
                      /\ calls'[c].at = "done"
                      => calls'[c].answer = projection[calls[c].target].event
<1>1. LedgerInv /\ [Next]_vars => [Reads]_vars
  <2> SUFFICES ASSUME TypeOK, CallsOK, ProjectionOK, [Next]_vars, NEW c \in Clients,
                      calls[c].op \in {"read", "state", "approve"},
                      calls[c].at # "done", calls'[c].at = "done"
               PROVE  calls'[c].answer = projection[calls[c].target].event
    BY DEF LedgerInv, TypeInv
  <2>1. ClientStep(c)
    BY OneCaller
  <2>2. QED
    BY <2>1, AnswerSteps
<1>2. QED
  BY <1>1, LedgerInvariant, PTL DEF Spec, ReadsAreCurrent

-----------------------------------------------------------------------------
(***************************************************************************)
(* Published content                                                       *)
(***************************************************************************)

IsPublished(t) == published[t[1]] = t[2]

RequestsOK == \A c \in Clients : calls[c].op = "candidate" => IsPublished(calls[c].target)

PublishedInv == DecidedContentIsPublished /\ RequestsOK

\* A published content stays the published one.
LEMMA PublishedStays ==
    ASSUME TypeOK, [Next]_vars, NEW t \in Candidates, IsPublished(t)
    PROVE  published'[t[1]] = t[2]
<1>1. t[1] \in Skills /\ t[2] \in Contents /\ t[2] # None
  BY NoneAssumption DEF Candidates
<1>2. ASSUME NEW c \in Clients, ClientStep(c) PROVE published' = published
  BY <1>2 DEF ClientStep, Refuse, RequestReview, AppendCandidate, ReplayCandidate,
     RefuseCandidate, StartRead, StartApprove, TakeLock, LockTimeout, SelectProjection,
     SelectHistory, Report, RefuseRead, Leave
<1>3. ASSUME NEW skill \in Skills, NEW content \in Contents, Publish(skill, content)
      PROVE  published'[t[1]] = t[2]
  BY <1>1, <1>3 DEF Publish, IsPublished, TypeOK
<1>4. QED
  BY <1>2, <1>3 DEF Next, vars, AppendReview, ReplayReview, IsPublished

\* A call becomes a candidate review only by finding its publication.
LEMMA RequestSteps ==
    ASSUME TypeOK, CallsOK, NEW c \in Clients, ClientStep(c), calls'[c].op = "candidate"
    PROVE  \/ calls[c].op = "candidate" /\ calls'[c].target = calls[c].target
           \/ calls'[c].target \in Candidates /\ IsPublished(calls'[c].target)
<1> DEFINE q == calls[c]
<1>0. q \in Call /\ WellFormed(q) /\ calls \in [Clients -> Call]
  BY DEF TypeOK, CallsOK
<1>1. ASSUME NEW n, calls' = [calls EXCEPT ![c] = n] PROVE calls'[c] = n
  BY <1>0, <1>1
<1>2. ASSUME Refuse(c) PROVE FALSE
  <2>1. calls'[c] = Idle
    BY <1>1, <1>2 DEF Refuse, GoTo
  <2>2. QED
    BY <2>1 DEF Idle
<1>3. CASE RequestReview(c)
  <2>1. PICK t \in Candidates, k \in Keys, a \in Reviewers, s \in Requested,
             n \in Notes \cup {None}, x \in {None, PriorOf(calls[c].seen)} :
          /\ published[t[1]] = t[2]
          /\ x # None => calls[c].target = t
          /\ GoTo(c, [Idle EXCEPT !.op = "candidate", !.at = "commit", !.target = t,
                                  !.key = k, !.actor = a, !.status = s, !.note = n,
                                  !.expected = x])
    BY <1>3, Zenon DEF RequestReview
  <2> DEFINE r == [Idle EXCEPT !.op = "candidate", !.at = "commit", !.target = t,
                               !.key = k, !.actor = a, !.status = s, !.note = n,
                               !.expected = x]
  <2>2. calls'[c] = r
    BY <1>1, <2>1 DEF GoTo
  <2>3. r.target = t
    BY DEF Idle
  <2>4. QED
    BY <2>1, <2>2, <2>3 DEF IsPublished
<1>4. CASE StartRead(c)
  <2>1. PICK t \in Candidates, op \in {"read", "state"} :
          GoTo(c, [Idle EXCEPT !.op = op, !.at = "select", !.target = t])
    BY <1>4 DEF StartRead
  <2>2. calls'[c].op = op
    BY <1>1, <2>1 DEF GoTo, Idle
  <2>3. QED
    BY <2>2
<1>5. CASE StartApprove(c)
  <2>1. PICK t, k, a :
          GoTo(c, [Idle EXCEPT !.op = "approve", !.at = "lock", !.target = t, !.key = k,
                               !.actor = a, !.status = "approved"])
    BY <1>5 DEF StartApprove
  <2>2. calls'[c].op = "approve"
    BY <1>1, <2>1 DEF GoTo, Idle
  <2>3. QED
    BY <2>2
<1>6. ASSUME NEW n, calls' = [calls EXCEPT ![c] = n], n.op = q.op, n.target = q.target
      PROVE  calls[c].op = "candidate" /\ calls'[c].target = calls[c].target
  BY <1>1, <1>6
<1>7. ASSUME NEW e PROVE Answered(q, e).op = q.op /\ Answered(q, e).target = q.target
  BY <1>0 DEF Answered, Call
<1>8. Continue(q).op = q.op /\ Continue(q).target = q.target
  BY <1>0 DEF Continue, Call
<1>9. CASE AppendCandidate(c) \/ ReplayCandidate(c)
  BY <1>6, <1>7, <1>9 DEF AppendCandidate, ReplayCandidate, GoTo
<1>10. CASE SelectHistory(c)
  BY <1>6, <1>8, <1>10 DEF SelectHistory, GoTo
<1>11. CASE TakeLock(c)
  <2>1. [q EXCEPT !.at = "select"].op = q.op /\ [q EXCEPT !.at = "select"].target = q.target
    BY <1>0 DEF Call
  <2>2. QED
    BY <1>6, <1>11, <2>1 DEF TakeLock, GoTo
<1>12. CASE SelectProjection(c)
  <2> DEFINE r == [q EXCEPT !.at = "history", !.row = projection[q.target]]
  <2>1. r.op = q.op /\ r.target = q.target
    BY <1>0 DEF Call
  <2>2. QED
    BY <1>6, <1>12, <2>1 DEF SelectProjection, GoTo
<1>13. CASE Report(c)
  <2> DEFINE r == [q EXCEPT !.at = "done", !.answer = q.seen.event, !.row = NoRow]
  <2>1. r.op = q.op /\ r.target = q.target
    BY <1>0 DEF Call
  <2>2. QED
    BY <1>6, <1>13, <2>1 DEF Report, GoTo
<1>14. QED
  BY <1>2, <1>3, <1>4, <1>5, <1>9, <1>10, <1>11, <1>12, <1>13
     DEF ClientStep, RefuseCandidate, LockTimeout, RefuseRead, Leave

LEMMA PublishedStep == TypeInv /\ PublishedInv /\ [Next]_vars => PublishedInv'
<1> SUFFICES ASSUME TypeOK, CallsOK, DecidedContentIsPublished, RequestsOK, [Next]_vars
             PROVE  PublishedInv'
  BY DEF TypeInv, PublishedInv
<1>1. RequestsOK'
  <2> SUFFICES ASSUME NEW c \in Clients, calls'[c].op = "candidate"
               PROVE  published'[calls'[c].target[1]] = calls'[c].target[2]
    BY DEF RequestsOK, IsPublished
  <2>1. calls'[c].target \in Candidates /\ IsPublished(calls'[c].target)
    <3>1. calls[c].op = "candidate" => IsPublished(calls[c].target)
                                       /\ calls[c].target \in Candidates
      BY DEF RequestsOK, CallsOK, WellFormed
    <3>2. CASE calls'[c] = calls[c]
      <4>1. calls[c].op = "candidate"
        BY <3>2
      <4>2. IsPublished(calls[c].target) /\ calls[c].target \in Candidates
        BY <3>1, <4>1
      <4>3. calls'[c].target = calls[c].target
        BY <3>2
      <4>4. QED
        BY <4>2, <4>3 DEF IsPublished
    <3>3. CASE ClientStep(c)
      BY <3>1, <3>3, RequestSteps DEF IsPublished
    <3>4. QED
      BY <3>2, <3>3, OneCaller
  <2>2. QED
    BY <2>1, PublishedStays
<1>2. DecidedContentIsPublished'
  <2> SUFFICES ASSUME NEW t \in Candidates, NEW i \in 1..Len(events'[t]),
                      events'[t][i].shape = "lifecycle"
               PROVE  published'[t[1]] = t[2]
    BY DEF DecidedContentIsPublished
  <2>1. t \in Targets
    BY DEF Targets
  <2>2. IsPublished(t)
    <3>1. CASE i \in 1..Len(events[t]) /\ events'[t][i] = events[t][i]
      BY <3>1 DEF DecidedContentIsPublished, IsPublished
    <3>2. CASE Quiet
      BY <3>1, <3>2 DEF Quiet
    <3>3. CASE ~Quiet
      <4>1. PICK u \in Targets, e \in Event :
              /\ Insert(u, e)
              /\ u \in Candidates =>
                   \E c \in Clients : /\ AppendCandidate(c) /\ u = calls[c].target
                                      /\ e = CandidateEvent(calls[c])
        BY <3>3, Writes
      <4>2. CASE t # u
        BY <2>1, <3>1, <4>1, <4>2, InsertEffect
      <4>3. CASE t = u
        <5>1. PICK c \in Clients : /\ AppendCandidate(c) /\ t = calls[c].target
                                   /\ e = CandidateEvent(calls[c])
          BY <4>1, <4>3
        <5>2. events'[t] = Append(events[t], e) /\ events[t] \in Seq(Event)
          BY <4>1, <4>3, InsertEffect
        <5>3. /\ Len(events[t]) \in Nat /\ Len(events'[t]) = Len(events[t]) + 1
              /\ events'[t][Len(events[t]) + 1] = e
              /\ \A j \in 1..Len(events[t]) : events'[t][j] = events[t][j]
          BY <5>2, AppendFacts
        <5>4. CASE i = Len(events[t]) + 1
          <6>1. calls[c].op \in {"candidate", "approve"} /\ e.shape = "lifecycle"
            BY <5>1, <5>3, <5>4, WriterCall
          <6>2. calls[c].op = "candidate"
            BY <5>1, <6>1 DEF CandidateEvent
          <6>3. QED
            BY <5>1, <6>2 DEF RequestsOK
        <5>5. QED
          BY <3>1, <5>3, <5>4
      <4>4. QED
        BY <4>2, <4>3
    <3>4. QED
      BY <3>2, <3>3
  <2>3. QED
    BY <2>2, PublishedStays
<1>3. QED
  BY <1>1, <1>2 DEF PublishedInv

\* A decision taken through the route is about the content its skill published.
THEOREM PublishedDecisions == Spec => []DecidedContentIsPublished
<1>1. Init => PublishedInv
  BY DEF Init, PublishedInv, DecidedContentIsPublished, RequestsOK, Idle, Targets
<1>2. PublishedInv => DecidedContentIsPublished
  BY DEF PublishedInv
<1>3. LedgerInv => TypeInv
  BY DEF LedgerInv
<1>4. QED
  BY <1>1, <1>2, <1>3, LedgerInvariant, PublishedStep, PTL DEF Spec

\* Decisions are about published content, and what was answered about them stays true.
THEOREM DecisionsCorrect == Spec => []DecisionsStand
<1>1. QED
  BY PublishedDecisions, AnswersCorrect, PTL DEF DecisionsStand

-----------------------------------------------------------------------------
(***************************************************************************)
(* The ledger implements the decision register                             *)
(***************************************************************************)

\* Appending an event appends its status.
LEMMA StatusesAppend ==
    ASSUME NEW h \in Seq(Event), NEW e \in Event
    PROVE  StatusesOf(Append(h, e)) = Append(StatusesOf(h), e.status)
<1>1. /\ Len(h) \in Nat /\ Len(Append(h, e)) = Len(h) + 1
      /\ Append(h, e)[Len(h) + 1] = e
      /\ \A i \in 1..Len(h) : Append(h, e)[i] = h[i] /\ h[i] \in Event
  BY AppendFacts
<1>2. StatusesOf(h) \in Seq(Decisions) /\ Len(StatusesOf(h)) = Len(h)
  <2>1. \A i \in 1..Len(h) : h[i].status \in Decisions
    BY <1>1 DEF Event
  <2>2. StatusesOf(h) \in [1..Len(h) -> Decisions]
    BY <2>1 DEF StatusesOf
  <2>3. QED
    BY <1>1, <2>2
<1>3. e.status \in Decisions
  BY DEF Event
<1> DEFINE a == StatusesOf(Append(h, e))
           b == Append(StatusesOf(h), e.status)
<1>4. /\ b \in Seq(Decisions) /\ Len(b) = Len(h) + 1 /\ b[Len(h) + 1] = e.status
      /\ \A i \in 1..Len(h) : b[i] = StatusesOf(h)[i]
  BY <1>1, <1>2, <1>3
<1>5. a = [i \in 1..Len(h) + 1 |-> Append(h, e)[i].status]
  BY <1>1 DEF StatusesOf
<1>6. \A i \in 1..Len(h) + 1 : a[i] = b[i]
  BY <1>1, <1>4, <1>5 DEF StatusesOf
<1>7. DOMAIN b = 1..Len(h) + 1 /\ b = [i \in 1..Len(h) + 1 |-> b[i]]
  BY <1>1, <1>4
<1>8. QED
  BY <1>5, <1>6, <1>7

\* The register's empty and pending lists.
LEMMA StatusesSmall ==
    ASSUME NEW h \in Seq(Event)
    PROVE  /\ Len(h) = 0 => StatusesOf(h) = <<>>
           /\ Len(h) = 1 => StatusesOf(h) = <<h[1].status>>
<1>1. ASSUME Len(h) = 0 PROVE StatusesOf(h) = <<>>
  <2>1. StatusesOf(h) \in Seq(Statuses) /\ Len(StatusesOf(h)) = 0
    BY <1>1 DEF StatusesOf
  <2>2. QED
    BY <2>1
<1>2. ASSUME Len(h) = 1 PROVE StatusesOf(h) = <<h[1].status>>
  BY <1>2 DEF StatusesOf
<1>3. QED
  BY <1>1, <1>2

\* What a write does to the register: the verdict of one candidate is appended.
LEMMA VerdictGiven ==
    ASSUME TypeOK, NEW t \in Candidates, NEW e \in Event, Insert(t, e)
    PROVE  Register!Give(t, e.status)
<1>1. t \in Targets /\ Candidates \subseteq Targets
  BY DEF Targets
<1>2. /\ events'[t] = Append(events[t], e) /\ events[t] \in Seq(Event)
      /\ \A u \in Targets \ {t} : events'[u] = events[u]
  BY <1>1, InsertEffect
<1>3. StatusesOf(events'[t]) = Append(StatusesOf(events[t]), e.status)
  BY <1>2, StatusesAppend
<1>4. \A u \in Candidates \ {t} : StatusesOf(events'[u]) = StatusesOf(events[u])
  BY <1>1, <1>2
<1>5. Verdict' = [u \in Candidates |-> StatusesOf(events'[u])]
  BY DEF Verdict
<1>6. [Verdict EXCEPT ![t] = Append(@, e.status)] =
        [u \in Candidates |-> IF u = t THEN Append(StatusesOf(events[t]), e.status)
                                       ELSE StatusesOf(events[u])]
  BY DEF Verdict
<1>7. \A u \in Candidates :
        StatusesOf(events'[u]) = IF u = t THEN Append(StatusesOf(events[t]), e.status)
                                          ELSE StatusesOf(events[u])
  BY <1>3, <1>4
<1>8. QED
  BY <1>5, <1>6, <1>7 DEF Register!Give

\* An accepted candidate review is a move of the register.
LEMMA AcceptedIsMove ==
    ASSUME TypeInv, NEW c \in Clients, AppendCandidate(c),
           Insert(calls[c].target, CandidateEvent(calls[c]))
    PROVE  Register!Next
<1> DEFINE t == calls[c].target
           e == CandidateEvent(calls[c])
           row == projection[t]
           h == events[t]
<1>1. t \in Candidates /\ t \in Targets /\ e \in Event
  BY WriterCall DEF TypeInv
<1>2. Valid(row, h) /\ LegalTransition(row.event.status, e.status)
  BY DEF AppendCandidate, Accepts, CandidateEvent
<1>3. h \in Seq(Event) /\ row \in Row
  BY <1>1 DEF TypeInv, TypeOK
<1>4. Register!Give(t, e.status) /\ Verdict[t] = StatusesOf(h)
  BY <1>1, VerdictGiven DEF TypeInv, Verdict
<1>5. CASE row.event.status = "unreviewed" /\ e.status \in {"pending", "approved"}
  <2>1. h = <<>>
    <3>1. SUFFICES ASSUME h # <<>> PROVE FALSE
      OBVIOUS
    <3>2. row.event = h[Len(h)] /\ h[Len(h)] \in Event
      BY <1>2, <1>3, <3>1, ValidIsCurrent DEF Current, LastOf
    <3>3. row.event.status \in Decisions
      BY <3>2 DEF Event
    <3>4. QED
      BY <1>5, <3>3 DEF Decisions
  <2>2. Verdict[t] = <<>>
    BY <1>3, <1>4, <2>1, StatusesSmall
  <2>3. Register!Open(t) \/ Register!ApproveAtOnce(t)
    BY <1>4, <1>5, <2>2 DEF Register!Open, Register!ApproveAtOnce
  <2>4. QED
    BY <1>1, <2>3 DEF Register!Next
<1>6. CASE row.event.status = "pending"
           /\ e.status \in {"approved", "rejected", "needs_changes"}
  <2>1. Verdict[t] = <<"pending">>
    BY <1>2, <1>3, <1>4, <1>6, PendingIsFirst, StatusesSmall
  <2>2. Register!Decide(t, e.status) /\ e.status \in Register!Verdicts
    BY <1>4, <1>6, <2>1 DEF Register!Decide, Register!Verdicts
  <2>3. QED
    BY <1>1, <2>2 DEF Register!Next
<1>7. QED
  BY <1>2, <1>5, <1>6 DEF LegalTransition

\* The ledger, with its several writers, implements the decision register: a candidate
\* is opened once and decided once, whatever reviewers, retries and approvals race.
THEOREM Implementation == Spec => ImplementsRegister
<1>1. Init => Register!Init
  <2> SUFFICES ASSUME Init PROVE Register!Init
    OBVIOUS
  <2>1. \A t \in Candidates : events[t] = <<>> /\ events[t] \in Seq(Event)
    BY DEF Init, Targets
  <2>2. \A t \in Candidates : StatusesOf(events[t]) = <<>>
    BY <2>1, StatusesSmall
  <2>3. QED
    BY <2>2 DEF Register!Init, Verdict
<1>2. TypeInv /\ [Next]_vars => [Register!Next]_Verdict
  <2> SUFFICES ASSUME TypeInv, [Next]_vars PROVE Register!Next \/ Verdict' = Verdict
    OBVIOUS
  <2>1. CASE Quiet
    BY <2>1 DEF Quiet, Verdict, StatusesOf
  <2>2. CASE ~Quiet
    <3>1. PICK t \in Targets, e \in Event :
            /\ Insert(t, e)
            /\ t \in Candidates =>
                 \E c \in Clients :
                   /\ AppendCandidate(c)
                   /\ t = calls[c].target
                   /\ e = CandidateEvent(calls[c])
      BY <2>2, Writes DEF TypeInv
    <3>2. CASE t \in Candidates
      BY <3>1, <3>2, AcceptedIsMove
    <3>3. CASE t \notin Candidates
      <4>1. \A u \in Candidates : u \in Targets /\ u # t
        BY <3>3 DEF Targets
      <4>2. \A u \in Candidates : events'[u] = events[u]
        <5>1. \A u \in Targets \ {t} : events'[u] = events[u]
          BY <3>1, InsertEffect DEF TypeInv
        <5>2. QED
          BY <4>1, <5>1
      <4>3. QED
        BY <4>2 DEF Verdict, StatusesOf
    <3>4. QED
      BY <3>2, <3>3
  <2>3. QED
    BY <2>1, <2>2
<1>3. LedgerInv => TypeInv
  BY DEF LedgerInv
<1>4. QED
  BY <1>1, <1>2, <1>3, LedgerInvariant, PTL DEF Spec, ImplementsRegister, Register!Spec

=============================================================================
