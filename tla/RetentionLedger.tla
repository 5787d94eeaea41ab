--------------------------- MODULE RetentionLedger ---------------------------
(***************************************************************************)
(* RetentionLedger (apps/api/src/workflow_api/retention_store.py), entered *)
(* through the retention half of ControlService: the ledger that records   *)
(* when the copies of a raw artifact may be, and have been, deleted.       *)
(*                                                                         *)
(* As in the control store, an operation reads the clock, then waits for   *)
(* BEGIN IMMEDIATE; a request in "pending" carries the time it read.  An   *)
(* idempotency key is bound by the first event that commits under it: the  *)
(* same content replays, other content is refused.                         *)
(***************************************************************************)
EXTENDS Integers, FiniteSets, Sequences

CONSTANTS
    Targets,        \* scope-qualified retention target ids
    Copies,         \* copy ids a registration may list
    Stewards,       \* subjects with the retention_steward role
    Keys,           \* scope-qualified idempotency keys
    Details,        \* hold reasons and deletion receipt digests
    None,           \* SQL null
    RetentionPeriod,\* DEFAULT_RAW_RETENTION_DAYS, in clock units
    MaxDelay,       \* how old the clock value of a pending request may get
    MaxClock,       \* bound: last clock value explored
    MaxPending      \* bound: requests in flight at once

ASSUME PeriodAssumption ==
    /\ RetentionPeriod \in Nat \ {0}
    /\ MaxDelay \in Nat /\ MaxClock \in Nat /\ MaxPending \in Nat

ASSUME NullAssumption == None \notin Copies \cup Keys \cup Details

VARIABLES
    clock,      \* wall-clock time
    pending,    \* requests that have read the clock and not yet run their transaction
    targets,    \* table retention_targets: one row per target id
    copies,     \* table retention_copies: the copies of each target
    log,        \* table retention_events, in sequence order
    audit       \* the accepted rows of audit_events

vars == <<clock, pending, targets, copies, log, audit>>
tables == <<targets, copies, log, audit>>

-----------------------------------------------------------------------------
(***************************************************************************)
(* Rows, requests and events                                               *)
(***************************************************************************)

EventTypes ==
    {"registered", "hold_placed", "hold_released", "trash_staged", "deletion_attested"}

Target ==
    [registered: BOOLEAN, expires: Nat, hold: BOOLEAN, completed: BOOLEAN]

NoTarget ==
    [registered |-> FALSE, expires |-> 0, hold |-> FALSE, completed |-> FALSE]

CopyStates == {"absent", "active", "trash_staged", "deleted"}

\* The fields _content_digest hashes: SHA-256 is taken to be injective.
\* A registration lists at least one copy; staging and attesting name one.
Content ==
    {x \in [type: EventTypes, target: Targets, copy: Copies \cup {None},
            actor: Stewards, listed: SUBSET Copies, detail: Details \cup {None}] :
        /\ x.type = "registered" => x.listed # {}
        /\ x.type \in {"trash_staged", "deletion_attested"} => x.copy \in Copies}

Request == [content: Content, key: Keys, now: Nat]

Event == [content: Content, key: Keys, at: Nat]

AuditRow == [action: {"retention.register", "retention.hold", "retention.stage_trash",
                     "retention.attest_delete", "retention.read"},
             target: Targets \cup {None}, subject: Stewards, key: Keys \cup {None}]

Action(type) ==
    CASE type = "registered" -> "retention.register"
      [] type \in {"hold_placed", "hold_released"} -> "retention.hold"
      [] type = "trash_staged" -> "retention.stage_trash"
      [] type = "deletion_attested" -> "retention.attest_delete"

AuditOf(content, key) ==
    [action |-> Action(content.type), target |-> content.target,
     subject |-> content.actor, key |-> key]

-----------------------------------------------------------------------------
(***************************************************************************)
(* Requests: authorisation, validation and the clock read                  *)
(***************************************************************************)

Submit(type, t, c, listed, detail) ==
    \E s \in Stewards, k \in Keys :
        /\ Cardinality(pending) < MaxPending
        /\ pending' = pending \cup
             {[content |-> [type |-> type, target |-> t, copy |-> c, actor |-> s,
                            listed |-> listed, detail |-> detail],
               key |-> k, now |-> clock]}
        /\ UNCHANGED <<clock, tables>>

\* _canonicalize_copies refuses an empty list and repeated copy ids, and sorts.
RequestRegister(t) ==
    \E listed \in (SUBSET Copies) \ {{}} : Submit("registered", t, None, listed, None)

\* A reason is required to place a hold and refused when releasing one.
RequestHold(t) ==
    \/ \E d \in Details : Submit("hold_placed", t, None, {}, d)
    \/ Submit("hold_released", t, None, {}, None)

RequestStage(t) == \E c \in Copies : Submit("trash_staged", t, c, {}, None)

RequestAttest(t) ==
    \E c \in Copies, d \in Details : Submit("deletion_attested", t, c, {}, d)

-----------------------------------------------------------------------------
(***************************************************************************)
(* Transactions                                                            *)
(***************************************************************************)

Begin(r, type) ==
    /\ r \in pending
    /\ r.content.type = type
    /\ pending' = pending \ {r}
    /\ UNCHANGED clock

KeyNotCompared(r) == TRUE

\* _idempotent_replay returns None: no event is stored under the key.
KeyUnused(r) == \A i \in DOMAIN log : log[i].key # r.key

\* _idempotent_replay returns the stored event of the same content.
Replays(r) == \E i \in DOMAIN log : log[i].key = r.key /\ log[i].content = r.content

AppendUnaudited(r) ==
    /\ log' = Append(log, [content |-> r.content, key |-> r.key, at |-> r.now])
    /\ UNCHANGED audit

\* _append_retention_event and _append_audit_event, in the change's transaction.
AppendRetentionEvent(r) ==
    /\ log' = Append(log, [content |-> r.content, key |-> r.key, at |-> r.now])
    /\ audit' = audit \cup {AuditOf(r.content, r.key)}

Replay(r) ==
    /\ \E type \in EventTypes : Begin(r, type)
    /\ Replays(r)
    /\ audit' = audit \cup {AuditOf(r.content, r.key)}
    /\ UNCHANGED <<targets, copies, log>>

ExpiryBackwards(now) == now - RetentionPeriod

ExpiryOf(now) == now + RetentionPeriod

RegisterTarget(r) ==
    LET t == r.content.target
    IN /\ Begin(r, "registered")
       /\ KeyUnused(r)
       /\ ~targets[t].registered
       /\ targets' = [targets EXCEPT ![t] =
                        [NoTarget EXCEPT !.registered = TRUE,
                                         !.expires = ExpiryOf(r.now)]]
       /\ copies' = [copies EXCEPT ![t] =
                       [c \in Copies |-> IF c \in r.content.listed
                                         THEN "active" ELSE "absent"]]
       /\ AppendRetentionEvent(r)

HoldMayChange(t, hold) ==
    targets[t].registered /\ ~targets[t].completed /\ targets[t].hold # hold

SetLegalHold(r) ==
    LET t == r.content.target
        hold == r.content.type = "hold_placed"
    IN /\ Begin(r, "hold_placed") \/ Begin(r, "hold_released")
       /\ KeyUnused(r)
       /\ HoldMayChange(t, hold)
       /\ targets' = [targets EXCEPT ![t].hold = hold]
       /\ AppendRetentionEvent(r)
       /\ UNCHANGED copies

NotCompleted(t) == targets[t].registered /\ ~targets[t].completed

\* _target_row and _require_not_held_or_completed.
RequireNotHeldOrCompleted(t) ==
    targets[t].registered /\ ~targets[t].hold /\ ~targets[t].completed

Expired(t, now) == targets[t].expires <= now

StageTrash(r) ==
    LET t == r.content.target
        c == r.content.copy
    IN /\ Begin(r, "trash_staged")
       /\ KeyUnused(r)
       /\ RequireNotHeldOrCompleted(t)
       /\ Expired(t, r.now)
       /\ copies[t][c] = "active"
       /\ copies' = [copies EXCEPT ![t][c] = "trash_staged"]
       /\ AppendRetentionEvent(r)
       /\ UNCHANGED targets

Attestable(t, c) == copies[t][c] = "trash_staged"

NoneActive(rows) == \A c \in Copies : rows[c] # "active"

\* "select count(*) ... where state != 'deleted'" is zero; absent copies have no row.
NoneRemaining(rows) == \A c \in Copies : rows[c] \in {"absent", "deleted"}

AttestDeleted(r) ==
    LET t == r.content.target
        c == r.content.copy
    IN /\ Begin(r, "deletion_attested")
       /\ KeyUnused(r)
       /\ RequireNotHeldOrCompleted(t)
       /\ Attestable(t, c)
       /\ copies' = [copies EXCEPT ![t][c] = "deleted"]
       /\ targets' = [targets EXCEPT ![t].completed = @ \/ NoneRemaining(copies'[t])]
       /\ AppendRetentionEvent(r)

\* get_target and list_scoped_overdue change nothing but the audit trail; the row
\* leaves out which target was read.
Read ==
    \E s \in Stewards :
        /\ audit' = audit \cup
             {[action |-> "retention.read", target |-> None, subject |-> s, key |-> None]}
        /\ UNCHANGED <<clock, pending, targets, copies, log>>

\* A refused request, a lock timeout or a killed process rolls everything back.
Rollback(r) ==
    /\ r \in pending
    /\ pending' = pending \ {r}
    /\ UNCHANGED <<clock, tables>>

Tick ==
    /\ clock < MaxClock
    /\ \A r \in pending : clock + 1 <= r.now + MaxDelay
    /\ clock' = clock + 1
    /\ UNCHANGED <<pending, tables>>

-----------------------------------------------------------------------------
Init ==
    /\ clock = 0
    /\ pending = {}
    /\ targets = [t \in Targets |-> NoTarget]
    /\ copies = [t \in Targets |-> [c \in Copies |-> "absent"]]
    /\ log = <<>>
    /\ audit = {}

Requests ==
    \E t \in Targets :
        RequestRegister(t) \/ RequestHold(t) \/ RequestStage(t) \/ RequestAttest(t)

Transactions ==
    \E r \in pending :
        \/ Replay(r)
        \/ RegisterTarget(r)
        \/ SetLegalHold(r)
        \/ StageTrash(r)
        \/ AttestDeleted(r)
        \/ Rollback(r)

Next == Tick \/ Requests \/ Transactions \/ Read

Spec == Init /\ [][Next]_vars

-----------------------------------------------------------------------------
(***************************************************************************)
(* Properties                                                              *)
(***************************************************************************)

\* Every variable stays in the set its table admits.
TypeOK ==
    /\ clock \in Nat
    /\ pending \in SUBSET Request
    /\ targets \in [Targets -> Target]
    /\ copies \in [Targets -> [Copies -> CopyStates]]
    /\ log \in Seq(Event)
    /\ audit \in SUBSET AuditRow

\* Event i of the log is about target t (and copy c) and has the given type.
Is(i, type, t) == log[i].content.type = type /\ log[i].content.target = t
IsOf(i, type, t, c) == Is(i, type, t) /\ log[i].content.copy = c

\* The mutable rows are a cache of the append-only log: whether a target exists, is
\* held, and how far each copy got can be recomputed from the events alone.
LogReplaysToState ==
    \A t \in Targets :
        /\ targets[t].registered <=> \E i \in DOMAIN log : Is(i, "registered", t)
        /\ targets[t].hold <=>
             \E i \in DOMAIN log :
                /\ Is(i, "hold_placed", t)
                /\ \A k \in DOMAIN log : k > i => ~Is(k, "hold_released", t)
        /\ \A c \in Copies :
             /\ copies[t][c] \in {"trash_staged", "deleted"} <=>
                  \E i \in DOMAIN log : IsOf(i, "trash_staged", t, c)
             /\ copies[t][c] = "deleted" <=>
                  \E i \in DOMAIN log : IsOf(i, "deletion_attested", t, c)

\* A retried request never takes effect twice: each idempotency key is bound to the
\* content of exactly one event.
OneEventPerKey ==
    \A i, k \in DOMAIN log : log[i].key = log[k].key => i = k

\* A copy is staged only when its retention period has really run out: a request
\* that waited for the lock carries an earlier time, which errs on the safe side.
NothingStagedEarly ==
    \A t \in Targets, c \in Copies :
        copies[t][c] \in {"trash_staged", "deleted"} => targets[t].expires <= clock

\* A target is complete exactly when it has copies and every one is attested deleted,
\* and no hold is left on a completed target.
CompleteIffAllDeleted ==
    \A t \in Targets :
        /\ targets[t].completed <=>
             /\ \E c \in Copies : copies[t][c] # "absent"
             /\ \A c \in Copies : copies[t][c] \in {"absent", "deleted"}
        /\ targets[t].completed => ~targets[t].hold

\* The rows list_scoped_overdue selects at a given time.
Overdue(now) ==
    {t \in Targets : targets[t].registered /\ Expired(t, now)
                     /\ ~targets[t].hold /\ ~targets[t].completed}

\* The overdue list never names a target its reader can do nothing about: some copy
\* of it can be staged or attested at that very time.
OverdueHasWork ==
    \A t \in Overdue(clock) : \E c \in Copies : copies[t][c] \in {"active", "trash_staged"}

\* Every event has its accepted audit row, written in the same transaction, and
\* every accepted mutation in the audit trail has its event.
AuditMatchesLog ==
    {a \in audit : a.key # None} = {AuditOf(log[i].content, log[i].key) : i \in DOMAIN log}

\* Rows, events and audit rows of one mutation commit together, so the log explains the
\* rows and the audit trail.
TablesAgree == LogReplaysToState /\ AuditMatchesLog

\* The times of the evidence may run backwards along the log, but only by less than
\* the longest wait between a request's clock read and its transaction.
EvidenceOrderWithinDelay ==
    \A i, k \in DOMAIN log : i < k => log[i].at <= log[k].at + MaxDelay

\* The log is usable as evidence: retries leave one event each, in an order that its
\* times contradict only by the wait for the lock.
EvidenceSound == OneEventPerKey /\ EvidenceOrderWithinDelay

\* The rows mean what the stewards read from them: what is staged was due, what is
\* complete is deleted, and what is listed as overdue can be worked on.
RowsSound == NothingStagedEarly /\ CompleteIffAllDeleted /\ OverdueHasWork

\* A legal hold freezes the copies of its target: no staging or attestation that was
\* already in flight when the hold was placed commits until the hold is released.
HoldFreezesCopies ==
    [][\A t \in Targets : targets[t].hold => copies'[t] = copies[t]]_vars

\* A completed target never changes again and no event is added about it.
CompletedTargetFrozen ==
    [][\A t \in Targets : targets[t].completed =>
            /\ targets'[t] = targets[t] /\ copies'[t] = copies[t]
            /\ Len(log') > Len(log) => log'[Len(log')].content.target # t]_vars

\* A copy moves one stage at a time, active to staged to deleted, never back, and
\* never leaves the set registered for its target.
CopyLifecycle ==
    [][\A t \in Targets, c \in Copies : copies'[t][c] # copies[t][c] =>
            \/ copies[t][c] = "absent" /\ copies'[t][c] = "active" /\ ~targets[t].registered
            \/ copies[t][c] = "active" /\ copies'[t][c] = "trash_staged"
            \/ copies[t][c] = "trash_staged" /\ copies'[t][c] = "deleted"]_vars
=============================================================================
