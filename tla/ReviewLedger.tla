---------------------------- MODULE ReviewLedger ----------------------------
(***************************************************************************)
(* The review half of SQLiteControlStore (control_store.py) with its four  *)
(* callers: ordinary reviews (ControlService.append_review), the           *)
(* candidate review route (routes/candidate_discovery.py through           *)
(* CandidatePublicationService.review_candidate), the older approval       *)
(* wrapper approve_candidate_skill with its OS file lock                   *)
(* (candidate_skill_approval.py), and the readers of a candidate's         *)
(* projection and history.                                                 *)
(*                                                                         *)
(* A write is one BEGIN IMMEDIATE transaction and so one step.  A read is  *)
(* two selects on an autocommit connection, so it is two steps and a write *)
(* may commit between them.  A call that spans several steps keeps its     *)
(* progress in calls[c]; a call that is refused returns to Idle and leaves *)
(* nothing behind, because every refusal rolls its transaction back.       *)
(***************************************************************************)
EXTENDS Integers, Sequences, FiniteSets

CONSTANTS
    Clients,        \* threads and processes calling the services
    Reviewers,      \* subjects holding the reviewer role
    Skills,         \* skill ids
    Contents,       \* canonical content digests
    Topics,         \* scope-qualified targets of ordinary reviews
    Keys,           \* scope-qualified review idempotency keys
    LegacyKey,      \* the one approval key of each skill
    Notes,          \* the reason and evidence given with a candidate review
    None,           \* null, and an argument left unset
    Requested,      \* bound: the decisions reviewers of candidates ask for
    TopicStatuses,  \* bound: the statuses ordinary reviews give
    MaxAudit        \* bound: accepted audit rows per ordinary target

ASSUME LegacyKeyAssumption == LegacyKey \in [Skills -> Keys]

ASSUME NoneAssumption ==
    /\ None \notin Keys \cup Reviewers \cup Notes \cup Contents \cup Clients
    /\ None \notin Topics \cup (Skills \X Contents)

ASSUME TopicsAssumption == Topics \cap (Skills \X Contents) = {}

Decisions == {"pending", "approved", "rejected", "needs_changes"}

ASSUME BoundAssumption ==
    MaxAudit \in Nat /\ Requested \cup TopicStatuses \subseteq Decisions

VARIABLES
    events,     \* table review_events, per target, in sequence order
    sequence,   \* its autoincrement counter; also stands for the fresh event UUID
    projection, \* table review_projection, per target
    audit,      \* accepted review.append rows of audit_events, per target
    published,  \* the finalized publication of each skill, None before
    lock,       \* holder of the approval lock file
    calls       \* the call each client is in

tables == <<events, sequence, projection, audit>>
vars == <<events, sequence, projection, audit, published, lock, calls>>

-----------------------------------------------------------------------------
(***************************************************************************)
(* Rows                                                                    *)
(***************************************************************************)

Candidates == Skills \X Contents     \* candidate-skill:1.0:<skill>:sha256:<content>
Targets == Candidates \cup Topics

Statuses == Decisions \cup {"unreviewed"}

\* What an event records of the projection it was decided against.
Prior == [status: Statuses, version: Nat, last: Nat]

Shapes == {"ordinary", "lifecycle", "legacy"}

Event ==
    [id: Nat, key: Keys, actor: Reviewers, status: Decisions, shape: Shapes,
     note: Notes \cup {None}, prior: Prior \cup {None}]

\* The event before the first one: an unreviewed target.
NoEvent ==
    [id |-> 0, key |-> None, actor |-> None, status |-> "unreviewed",
     shape |-> "none", note |-> None, prior |-> None]

\* A projection row is a version and a copy of the last event's columns.
Row == [version: Nat, event: Event \cup {NoEvent}]
NoRow == [version |-> 0, event |-> NoEvent]

PriorOf(row) ==
    [status |-> row.event.status, version |-> row.version, last |-> row.event.id]

-----------------------------------------------------------------------------
(***************************************************************************)
(* Calls in progress                                                       *)
(***************************************************************************)

Ops == {"none", "candidate", "approve", "read", "state"}
Steps == {"idle", "lock", "commit", "select", "history", "done"}
Phases == {"check", "confirm", "report"}

Call ==
    [op: Ops, at: Steps, phase: Phases,
     target: Targets \cup {None}, key: Keys \cup {None},
     actor: Reviewers \cup {None}, status: Statuses, note: Notes \cup {None},
     expected: Prior \cup {None},  \* the prior the caller asks for, None if unset
     row: Row,                     \* the projection row the read in progress selected
     seen: Row,                    \* the projection an earlier read_review returned
     answer: Event \cup {NoEvent}] \* the event or last event returned

Idle ==
    [op |-> "none", at |-> "idle", phase |-> "check", target |-> None, key |-> None,
     actor |-> None, status |-> "unreviewed", note |-> None, expected |-> None,
     row |-> NoRow, seen |-> NoRow, answer |-> NoEvent]

Init ==
    /\ events = [t \in Targets |-> <<>>]
    /\ sequence = 0
    /\ projection = [t \in Targets |-> NoRow]
    /\ audit = [t \in Targets |-> 0]
    /\ published = [k \in Skills |-> None]
    /\ lock = None
    /\ calls = [c \in Clients |-> Idle]

At(c, ops, step) == calls[c].op \in ops /\ calls[c].at = step

GoTo(c, call) == calls' = [calls EXCEPT ![c] = call]

\* Leaving approve_candidate_skill on any path closes the lock file.
Unlock(c) == lock' = IF lock = c THEN None ELSE lock

Refuse(c) ==
    /\ GoTo(c, Idle)
    /\ Unlock(c)
    /\ UNCHANGED <<tables, published>>

-----------------------------------------------------------------------------
(***************************************************************************)
(* The ledger's rules                                                      *)
(***************************************************************************)

\* Fault: an approval may be withdrawn.
TransitionWithdraws(status, destination) ==
    \/ status = "unreviewed" /\ destination \in {"pending", "approved"}
    \/ status = "pending" /\ destination \in {"approved", "rejected", "needs_changes"}
    \/ status = "approved" /\ destination = "rejected"

LegalTransition(status, destination) ==
    \/ status = "unreviewed" /\ destination \in {"pending", "approved"}
    \/ status = "pending" /\ destination \in {"approved", "rejected", "needs_changes"}

Before(history, i) == IF i = 1 THEN NoEvent ELSE history[i - 1]

\* The legacy approval shape is recognised only as the first event.
ValidEvent(history, i) ==
    LET prior == Before(history, i)
        e == history[i]
    IN  /\ LegalTransition(prior.status, e.status)
        /\ \/ /\ e.shape = "lifecycle"
              /\ e.prior = PriorOf([version |-> i - 1, event |-> prior])
           \/ /\ e.shape = "legacy"
              /\ i = 1
              /\ e.status = "approved"

\* _validate_candidate_projection, with the cases where a row or the history is missing.
Valid(row, history) ==
    IF row = NoRow
    THEN history = <<>>
    ELSE /\ history # <<>>
         /\ row.version = Len(history)
         /\ \A i \in 1..Len(history) : ValidEvent(history, i)
         /\ row.event = history[Len(history)]

Stored(t) == {events[t][i] : i \in 1..Len(events[t])}

\* Insert the event, advance the projection, append the accepted audit row.
Insert(t, e) ==
    /\ sequence' = e.id
    /\ events' = [events EXCEPT ![t] = Append(@, e)]
    /\ projection' = [projection EXCEPT ![t] = [version |-> @.version + 1, event |-> e]]
    /\ audit' = [audit EXCEPT ![t] = @ + 1]

\* Fault: keys are looked up among candidate reviews only.
HoldersAmongCandidates(key) == {t \in Candidates : \E e \in Stored(t) : e.key = key}

\* The row of review_events that already has this idempotency key, if any.
Holders(key) == {t \in Targets : \E e \in Stored(t) : e.key = key}

-----------------------------------------------------------------------------
(***************************************************************************)
(* Ordinary reviews                                                        *)
(***************************************************************************)

\* The arguments of append_review.  Nothing is read before its transaction, so a whole
\* call is one step.
ReviewRequest ==
    [target: Topics, key: Keys, actor: Reviewers, status: TopicStatuses]

\* The digest of an ordinary review.  Its provenance and detail are digested like the
\* actor and the status, and no guard reads them: they are left out.
SameReview(q, t, e) ==
    /\ t = q.target
    /\ e.shape = "ordinary"
    /\ e.actor = q.actor
    /\ e.status = q.status

Review(q) ==
    [id |-> sequence + 1, key |-> q.key, actor |-> q.actor, status |-> q.status,
     shape |-> "ordinary", note |-> None, prior |-> None]

\* A new ordinary review may move its target from any status to any other.
AppendReview(q) ==
    /\ audit[q.target] < MaxAudit
    /\ Holders(q.key) = {}
    /\ Insert(q.target, Review(q))
    /\ UNCHANGED <<published, lock, calls>>

\* An exact retry writes nothing but one more audit row; a key that stands for another
\* review, of either kind, is refused.
ReplayReview(q) ==
    /\ audit[q.target] < MaxAudit
    /\ \E t \in Holders(q.key) : \E e \in Stored(t) :
        e.key = q.key /\ SameReview(q, t, e)
    /\ audit' = [audit EXCEPT ![q.target] = @ + 1]
    /\ UNCHANGED <<events, sequence, projection, published, lock, calls>>

-----------------------------------------------------------------------------
(***************************************************************************)
(* The candidate review route                                              *)
(***************************************************************************)

\* Finalizing a publication happens once per skill (module CandidatePublication).
Publish(skill, content) ==
    /\ published[skill] = None
    /\ published' = [published EXCEPT ![skill] = content]
    /\ UNCHANGED <<tables, lock, calls>>

\* The route authorizes the call, looks the finalized publication up and compares its
\* target with the requested one.  Authorization reads no table, so both are one step;
\* a call that finds another content or none is refused and changes nothing.  A caller
\* that has read the projection may ask for exactly that prior; the route leaves it unset.
RequestReview(c) ==
    /\ calls[c] = Idle \/ At(c, {"read"}, "done")
    /\ \E t \in Candidates, k \in Keys, a \in Reviewers, s \in Requested,
          n \in Notes \cup {None}, x \in {None, PriorOf(calls[c].seen)} :
        /\ published[t[1]] = t[2]
        /\ x # None => calls[c].target = t
        /\ GoTo(c, [Idle EXCEPT !.op = "candidate", !.at = "commit", !.target = t,
                                !.key = k, !.actor = a, !.status = s, !.note = n,
                                !.expected = x])
    /\ UNCHANGED <<tables, published, lock>>

\* Fault: the digest leaves the reviewer out.
SameDecision(q, t, e) ==
    /\ t = q.target
    /\ e.status = q.status
    /\ q.op = "approve" <=> e.shape = "legacy"

\* The digest of a candidate event covers every binding; an argument the caller
\* left unset is filled in from the stored event before the digests are compared.
SameCandidate(q, t, e) ==
    /\ t = q.target
    /\ e.actor = q.actor
    /\ e.status = q.status
    /\ \/ /\ q.op = "approve"
          /\ e.shape = "legacy"
       \/ /\ q.op = "candidate"
          /\ e.shape = "lifecycle"
          /\ q.note \in {None, e.note}
          /\ q.expected \in {None, e.prior}

\* A retry under a stored key: the same payload, on a history that still validates.
Replays(q, t, e) ==
    /\ e.key = q.key
    /\ SameCandidate(q, t, e)
    /\ Valid(projection[t], events[t])

\* A new event is decided against the projection read in the same transaction.
Accepts(q) ==
    LET row == projection[q.target]
    IN  /\ Valid(row, events[q.target])
        /\ q.expected \in {None, PriorOf(row)}
        /\ LegalTransition(row.event.status, q.status)

\* Fault: the event records the prior the caller named, not the one resolved.
EventWithExpected(q) ==
    [id |-> sequence + 1, key |-> q.key, actor |-> q.actor, status |-> q.status,
     shape |-> IF q.op = "approve" THEN "legacy" ELSE "lifecycle",
     note |-> q.note, prior |-> q.expected]

\* Fault: the event records the status it replaces.
EventWithOldStatus(q) ==
    [id |-> sequence + 1, key |-> q.key, actor |-> q.actor,
     status |-> projection[q.target].event.status,
     shape |-> IF q.op = "approve" THEN "legacy" ELSE "lifecycle",
     note |-> q.note, prior |-> PriorOf(projection[q.target])]

CandidateEvent(q) ==
    [id |-> sequence + 1, key |-> q.key, actor |-> q.actor, status |-> q.status,
     shape |-> IF q.op = "approve" THEN "legacy" ELSE "lifecycle",
     note |-> q.note,
     prior |-> IF q.op = "approve" THEN None ELSE PriorOf(projection[q.target])]

\* The approval wrapper reads the projection again after its append.
Answered(q, e) ==
    IF q.op = "approve"
    THEN [q EXCEPT !.at = "select", !.phase = "confirm"]
    ELSE [q EXCEPT !.at = "done", !.answer = e]

AppendCandidate(c) ==
    LET q == calls[c]
    IN  /\ At(c, {"candidate", "approve"}, "commit")
        /\ Holders(q.key) = {}
        /\ Accepts(q)
        /\ Insert(q.target, CandidateEvent(q))
        /\ GoTo(c, Answered(q, CandidateEvent(q)))
        /\ UNCHANGED <<published, lock>>

\* A read-only replay: nothing is written, not even an audit row.
ReplayCandidate(c) ==
    LET q == calls[c]
    IN  /\ At(c, {"candidate", "approve"}, "commit")
        /\ \E t \in Holders(q.key) : \E e \in Stored(t) :
            /\ Replays(q, t, e)
            /\ GoTo(c, Answered(q, e))
        /\ UNCHANGED <<tables, published, lock>>

RefuseCandidate(c) ==
    LET q == calls[c]
    IN  /\ At(c, {"candidate", "approve"}, "commit")
        /\ \/ Holders(q.key) = {} /\ ~Accepts(q)
           \/ \E t \in Holders(q.key) : \E e \in Stored(t) :
                e.key = q.key /\ ~Replays(q, t, e)
        /\ Refuse(c)

-----------------------------------------------------------------------------
(***************************************************************************)
(* Readers, and the approval wrapper built on them                         *)
(***************************************************************************)

\* read_candidate_review and read_candidate_skill_approval_state.
StartRead(c) ==
    /\ calls[c] = Idle
    /\ \E t \in Candidates, op \in {"read", "state"} :
        GoTo(c, [Idle EXCEPT !.op = op, !.at = "select", !.target = t])
    /\ UNCHANGED <<tables, published, lock>>

\* approve_candidate_skill needs no publication, only the skill's approval key.
StartApprove(c) ==
    /\ calls[c] = Idle
    /\ \E t \in Candidates, a \in Reviewers :
        GoTo(c, [Idle EXCEPT !.op = "approve", !.at = "lock", !.target = t,
                             !.key = LegacyKey[t[1]], !.actor = a,
                             !.status = "approved"])
    /\ UNCHANGED <<tables, published, lock>>

TakeLock(c) ==
    /\ At(c, {"approve"}, "lock")
    /\ lock = None
    /\ lock' = c
    /\ GoTo(c, [calls[c] EXCEPT !.at = "select"])
    /\ UNCHANGED <<tables, published>>

\* The deadline passes while another approval holds the lock.
LockTimeout(c) ==
    /\ At(c, {"approve"}, "lock")
    /\ lock # None
    /\ Refuse(c)

\* The first select of a read.
SelectProjection(c) ==
    LET q == calls[c]
    IN  /\ q.at = "select"
        /\ GoTo(c, [q EXCEPT !.at = "history", !.row = projection[q.target]])
        /\ UNCHANGED <<tables, published, lock>>

\* Fault: the history is read without comparing it with the projection's version.
ConsistentHistory(q) == q.row = NoRow \/ events[q.target] # <<>>

Consistent(q) == Valid(q.row, events[q.target])

\* read_review returned: where the caller goes with the projection, if any.
Continue(q) ==
    IF q.op = "read" \/ (q.op = "state" /\ q.row = NoRow)
    THEN [q EXCEPT !.at = "done", !.seen = q.row, !.answer = q.row.event, !.row = NoRow]
    ELSE IF q.row = NoRow
         THEN [q EXCEPT !.at = "commit", !.row = NoRow]
         ELSE [q EXCEPT !.at = "select", !.phase = "report", !.seen = q.row, !.row = NoRow]

\* The approval wrapper accepts an existing decision only from its own reviewer,
\* and must find one after its own append.
Blocked(q) ==
    /\ q.op = "approve"
    /\ \/ q.phase = "check" /\ q.row # NoRow /\ q.row.event.actor # q.actor
       \/ q.phase = "confirm" /\ q.row = NoRow

\* The second select of read_review.
SelectHistory(c) ==
    LET q == calls[c]
    IN  /\ q.at = "history"
        /\ q.phase # "report"
        /\ Consistent(q)
        /\ ~Blocked(q)
        /\ GoTo(c, Continue(q))
        /\ UNCHANGED <<tables, published, lock>>

\* The second select of list_reviews: the state is reported only when the events
\* listed end in the projection that read_review returned.
Reportable(q) ==
    LET history == events[q.target]
    IN  /\ Consistent(q)
        /\ history # <<>>
        /\ Len(history) = q.seen.version
        /\ q.seen.event = history[Len(history)]
        /\ q.seen.event.shape = "legacy" =>
              /\ Len(history) = 1
              /\ q.seen.event.key = LegacyKey[q.target[1]]

Report(c) ==
    LET q == calls[c]
    IN  /\ q.at = "history"
        /\ q.phase = "report"
        /\ Reportable(q)
        /\ GoTo(c, [q EXCEPT !.at = "done", !.answer = q.seen.event, !.row = NoRow])
        /\ Unlock(c)
        /\ UNCHANGED <<tables, published>>

\* A read that fails its integrity checks is a conflict for the caller.
RefuseRead(c) ==
    LET q == calls[c]
    IN  /\ q.at = "history"
        /\ IF q.phase = "report" THEN ~Reportable(q) ELSE ~Consistent(q) \/ Blocked(q)
        /\ Refuse(c)

\* The answer reaches the caller, or the process dies at any point of a call
\* (the operating system then drops its file lock).
Leave(c) ==
    /\ calls[c] # Idle
    /\ Refuse(c)

-----------------------------------------------------------------------------
ClientStep(c) ==
    \/ RequestReview(c)
    \/ AppendCandidate(c) \/ ReplayCandidate(c) \/ RefuseCandidate(c)
    \/ StartRead(c) \/ StartApprove(c) \/ TakeLock(c) \/ LockTimeout(c)
    \/ SelectProjection(c) \/ SelectHistory(c) \/ Report(c) \/ RefuseRead(c)
    \/ Leave(c)

Next ==
    \/ \E c \in Clients : ClientStep(c)
    \/ \E q \in ReviewRequest : AppendReview(q) \/ ReplayReview(q)
    \/ \E skill \in Skills, content \in Contents : Publish(skill, content)

Spec == Init /\ [][Next]_vars

-----------------------------------------------------------------------------
(***************************************************************************)
(* Properties                                                              *)
(***************************************************************************)

\* Every table holds rows of its type and every call is one the services can be in.
TypeOK ==
    /\ events \in [Targets -> Seq(Event)]
    /\ sequence \in Nat
    /\ projection \in [Targets -> Row]
    /\ audit \in [Targets -> Nat]
    /\ published \in [Skills -> Contents \cup {None}]
    /\ lock \in Clients \cup {None}
    /\ calls \in [Clients -> Call]

\* An idempotency key names at most one review in the whole ledger, whichever
\* writer, reviewer or target used it.
OneEventPerKey ==
    \A t, u \in Targets : \A i \in 1..Len(events[t]), j \in 1..Len(events[u]) :
        events[t][i].key = events[u][j].key => t = u /\ i = j

\* Every projection row counts its target's events and repeats the last one, although
\* three writers maintain it.
ProjectionMatchesHistory ==
    \A t \in Targets :
        /\ projection[t].version = Len(events[t])
        /\ projection[t].event =
             IF events[t] = <<>> THEN NoEvent ELSE events[t][Len(events[t])]

\* The approval wrapper checked for a decision before a pending review was recorded,
\* and appended its legacy-shaped approval after it.
LegacyAfterPending(history) ==
    /\ Len(history) = 2
    /\ history[1].status = "pending"
    /\ history[2].shape = "legacy"

\* Whatever the writers committed for a candidate, the readers' integrity check
\* accepts: the guarded writer and the approval wrapper never store a history that
\* get_candidate_review_projection reports as corrupt.
HistoryReadable == \A t \in Candidates : Valid(projection[t], events[t])

\* The one way to a history the readers reject is the approval wrapper's race with a
\* pending review; every other interleaving of writers leaves it valid.
UnreadableOnlyByLegacyRace ==
    \A t \in Candidates :
        Valid(projection[t], events[t]) \/ LegacyAfterPending(events[t])

\* A candidate's accepted audit rows are exactly its events: a replayed or refused
\* candidate review leaves no audit row, an accepted one exactly one.
AuditMatchesDecisions ==
    \A t \in Candidates : audit[t] = Len(events[t])

\* Events, projection rows and audit rows agree, although three writers maintain them
\* and only some replays are audited.
TablesAgree == ProjectionMatchesHistory /\ AuditMatchesDecisions

\* Whatever is retried under which key, the ledger records it once and its tables agree.
RecordsAgree == OneEventPerKey /\ TablesAgree

\* A decision taken through the route is about the content its skill published, so two
\* contents of one skill never both carry such decisions.
DecidedContentIsPublished ==
    \A t \in Candidates : \A i \in 1..Len(events[t]) :
        events[t][i].shape = "lifecycle" => published[t[1]] = t[2]

\* A write that was answered is in the ledger as the caller asked for it: same key,
\* reviewer, status and note, on the prior the caller named if it named one.  An
\* approval or state that was answered "decided" is still the candidate's decision.
AnswersStand ==
    \A c \in Clients :
        LET q == calls[c]
        IN  /\ At(c, {"candidate"}, "done") =>
                 /\ q.answer \in Stored(q.target)
                 /\ q.answer.key = q.key
                 /\ q.answer.actor = q.actor
                 /\ q.answer.status = q.status
                 /\ q.note \in {None, q.answer.note}
                 /\ q.expected \in {None, q.answer.prior}
            /\ /\ At(c, {"approve", "state", "read"}, "done")
               /\ q.answer.status \notin {"unreviewed", "pending"}
               => projection[q.target].event = q.answer

\* What a caller learned about a decision stays true, and the route decides only on what
\* was published.
DecisionsStand == DecidedContentIsPublished /\ AnswersStand

\* A read answers with the projection that is current when it returns: a write that
\* commits between its two selects makes it fail, never answer an old decision.
ReadsAreCurrent ==
    [][\A c \in Clients :
        /\ calls[c].op \in {"read", "state", "approve"}
        /\ calls[c].at # "done"
        /\ calls'[c].at = "done"
        => calls'[c].answer = projection[calls[c].target].event]_vars

\* The refinement mapping: a candidate's verdicts are the statuses of its events.
StatusesOf(history) == [i \in 1..Len(history) |-> history[i].status]
Verdict == [t \in Candidates |-> StatusesOf(events[t])]

Register == INSTANCE DecisionRegister WITH verdicts <- Verdict

\* Every candidate moves through the verdicts of DecisionRegister: opened once, decided
\* once, never reopened, and never rewritten, although route and wrapper both decide.
ImplementsRegister == Register!Spec
=============================================================================
