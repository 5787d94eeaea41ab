--------------------------- MODULE SessionPipeline ---------------------------
(***************************************************************************)
(* One capture package on its way from the capture agent to a processed    *)
(* session: SessionCoordinator and SessionUploadClient (apps/capture-agent *)
(* /Services), the session routes (apps/api/src/workflow_api/routes/       *)
(* sessions.py) over SQLiteLegacySessionStore, the SQS queue with its      *)
(* dead-letter queue (infra/lib), and the worker loop                      *)
(* (apps/worker/src/workflow_worker/main.py).                              *)
(*                                                                         *)
(* Requests are authenticated before they reach a handler (ADR 0008); that *)
(* chain is not modelled here except where it decides what the agent sees: *)
(* the read of a session is a reviewer's, and the agent is refused it.     *)
(* Every failure - a lost answer, a refused call to S3 or SQS, a killed    *)
(* process, a package the API rejects, a message that outlives its         *)
(* visibility timeout or its retention - spends one unit of "faults".      *)
(***************************************************************************)
EXTENDS Integers, FiniteSets

CONSTANTS
    Sessions,       \* session ids, one package each
    Handlers,       \* API processes, numbered; a handler never suspends: one call each
    Messages,       \* bound: messages ever sent, numbered as they are sent
    Workers,        \* worker processes
    Results,        \* timeline artifacts a worker build can compute
    Build,          \* per worker: the artifact its build computes
    Poison,         \* sessions whose package the worker cannot parse
    MaxAttempts,    \* CompletionMaxAttempts, WORKER_CALLBACK_MAX_ATTEMPTS
    MaxReceives,    \* maxReceiveCount of the queue's redrive policy
    MaxFaults,      \* bound: failures in a behaviour
    AgentMayCrash,  \* whether the agent process may die with its package pending
    MessagesExpire, \* whether workers or operators may stay away for a retention period
    None

ASSUME PipelineAssumption ==
    /\ MaxAttempts \in Nat \ {0} /\ MaxReceives \in Nat \ {0} /\ MaxFaults \in Nat
    /\ Build \in [Workers -> Results]
    /\ None \notin Results \cup Handlers \cup Messages \cup Sessions
    /\ {AgentMayCrash, MessagesExpire} \subseteq BOOLEAN
    /\ Handlers \subseteq Nat /\ Messages \subseteq Nat
    /\ Poison \subseteq Sessions

VARIABLES
    agent,      \* per session: where UploadAsync is, its completion attempt, its call
    calls,      \* per handler: the complete_upload call it runs
    rows,       \* table legacy_sessions: status and stored completion
    raw,        \* sessions whose package object is in the raw bucket
    artifact,   \* per session: timeline.json in the processed bucket
    queue,      \* per message: where it is, its session, its receive count
    worker,     \* per worker: the message it works on and how far it is
    faults      \* failures so far

vars == <<agent, calls, rows, raw, artifact, queue, worker, faults>>

-----------------------------------------------------------------------------
Agent ==
    [pc: {"register", "reconcile", "presign", "put", "complete", "waiting", "done",
          "crashed"},
     attempt: 1..MaxAttempts, call: Handlers \cup {None}]

\* A process that is "off" is not part of this deployment.
Call == [pc: {"off", "idle", "verify", "mark", "enqueue"}, session: Sessions \cup {None}]

Session == [status: {"absent", "registered", "uploaded", "processed"},
            completion: Results \cup {None}]

Message == [at: {"unsent", "visible", "inflight", "dead", "deleted", "expired"},
            session: Sessions \cup {None}, receives: 0..MaxReceives]

Worker == [pc: {"idle", "process", "publish", "callback", "delete"},
           msg: Messages \cup {None}, receipt: 0..MaxReceives, attempt: 1..MaxAttempts]

Restarted == [pc |-> "register", attempt |-> 1, call |-> None]
NoCall == [pc |-> "idle", session |-> None]
Idle == [pc |-> "idle", msg |-> None, receipt |-> 0, attempt |-> 1]

Running == {h \in Handlers : calls[h].pc # "off"}

\* Some API process is free to run another handler.
ApiFree == \E h \in Handlers : calls[h].pc = "idle"

Fault == faults < MaxFaults /\ faults' = faults + 1
NoFault == UNCHANGED faults

-----------------------------------------------------------------------------
(***************************************************************************)
(* The capture agent.  An exception out of UploadAsync leaves the package  *)
(* pending; the next tick starts UploadAsync again.                        *)
(***************************************************************************)

GoTo(s, pc) == agent' = [agent EXCEPT ![s] = [Restarted EXCEPT !.pc = pc]]

Create(s) == rows' = [rows EXCEPT ![s].status = IF @ = "absent" THEN "registered" ELSE @]

Register(s) ==
    /\ agent[s].pc = "register"
    /\ \/ /\ ApiFree /\ Create(s)           \* 201, or 409 from the stored session
          /\ GoTo(s, IF rows[s].status = "absent" THEN "presign" ELSE "reconcile")
          /\ NoFault
       \/ /\ (ApiFree /\ Create(s)) \/ UNCHANGED rows     \* no answer: the next tick
          /\ UNCHANGED agent
          /\ Fault
    /\ UNCHANGED <<calls, raw, artifact, queue, worker>>

\* ReconcileExistingRegistrationAsync, after a registration was answered 409.  Its read,
\* GET /v1/sessions/{id}, has require_reviewer_read: it is refused to anything but a
\* reviewer's browser session, UploadAsync throws, and the next tick starts over.
Reconcile(s) ==
    /\ agent[s].pc = "reconcile"
    /\ GoTo(s, "register")
    /\ NoFault
    /\ UNCHANGED <<calls, rows, raw, artifact, queue, worker>>

Presign(s) ==
    /\ agent[s].pc = "presign"
    /\ \/ ApiFree /\ GoTo(s, "put") /\ NoFault
       \/ GoTo(s, "register") /\ Fault
    /\ UNCHANGED <<calls, rows, raw, artifact, queue, worker>>

\* The PUT is conditional on absence; 412 means an earlier attempt stored it.
Put(s) ==
    /\ agent[s].pc = "put"
    /\ \/ raw' = raw \cup {s} /\ GoTo(s, "complete") /\ NoFault
       \/ raw' \in {raw, raw \cup {s}} /\ GoTo(s, "register") /\ Fault
    /\ UNCHANGED <<calls, rows, artifact, queue, worker>>

CallComplete(s, h) ==
    /\ agent[s].pc = "complete"
    /\ calls[h].pc = "idle"
    /\ calls' = [calls EXCEPT ![h] = [pc |-> "verify", session |-> s]]
    /\ agent' = [agent EXCEPT ![s].pc = "waiting", ![s].call = h]
    /\ NoFault
    /\ UNCHANGED <<rows, raw, artifact, queue, worker>>

AttemptsLeftOffByOne(s) == agent[s].attempt <= MaxAttempts

AttemptsLeft(s) == agent[s].attempt < MaxAttempts

\* A 503 or a transport error: three attempts, then UploadAsync throws.
NextAttempt(s) ==
    IF AttemptsLeft(s)
    THEN [pc |-> "complete", attempt |-> agent[s].attempt + 1, call |-> None]
    ELSE Restarted

\* No connection, a broken one, or an answer that takes longer than HttpClient waits
\* (not an HttpRequestException: UploadAsync starts over).  A handler runs on.
Unanswered(s) ==
    /\ agent[s].pc \in {"complete", "waiting"}
    /\ \E next \in {NextAttempt(s), Restarted} : agent' = [agent EXCEPT ![s] = next]
    /\ Fault
    /\ UNCHANGED <<calls, rows, raw, artifact, queue, worker>>

AgentCrash(s) ==
    /\ AgentMayCrash
    /\ agent[s].pc \notin {"done", "crashed"}
    /\ GoTo(s, "crashed")
    /\ Fault
    /\ UNCHANGED <<calls, rows, raw, artifact, queue, worker>>

-----------------------------------------------------------------------------
(***************************************************************************)
(* complete_upload: read and verify, mark_uploaded, then enqueue           *)
(***************************************************************************)

\* The call ends; the agent hears of it if it is still waiting for this call.
Answer(h, next) ==
    LET s == calls[h].session
    IN /\ calls' = [calls EXCEPT ![h] = NoCall]
       /\ agent' = IF agent[s].call = h THEN [agent EXCEPT ![s] = next] ELSE agent

Accepted == [Restarted EXCEPT !.pc = "done"]

Advance(h, pc) == calls' = [calls EXCEPT ![h].pc = pc] /\ UNCHANGED agent

\* S3 cannot be read: 503.  The package is not what was registered: 409, on which
\* UploadAsync throws.
Verify(h) ==
    /\ calls[h].pc = "verify"
    /\ \/ calls[h].session \in raw /\ Advance(h, "mark") /\ NoFault
       \/ /\ \E next \in {NextAttempt(calls[h].session), Restarted} : Answer(h, next)
          /\ Fault
    /\ UNCHANGED <<rows, raw, artifact, queue, worker>>

RequeueNever(status) == status = "registered"
RequeueAlways(status) == TRUE

\* mark_uploaded's queue_pending: also when an earlier call already marked the row.
QueuePending(status) == status \in {"registered", "uploaded"}

MarkUploaded(h) ==
    LET s == calls[h].session
    IN /\ calls[h].pc = "mark"
       /\ rows' = [rows EXCEPT ![s].status = IF @ = "registered" THEN "uploaded" ELSE @]
       /\ IF QueuePending(rows[s].status) THEN Advance(h, "enqueue") ELSE Answer(h, Accepted)
       /\ NoFault
       /\ UNCHANGED <<raw, artifact, queue, worker>>

Send(s, m) ==
    /\ queue[m].at = "unsent"
    /\ \A k \in Messages : k < m => queue[k].at # "unsent"
    /\ queue' = [queue EXCEPT ![m] = [at |-> "visible", session |-> s, receives |-> 0]]

\* A failed send is answered 503; it may have reached the queue all the same.
Enqueue(h) ==
    LET s == calls[h].session
    IN /\ calls[h].pc = "enqueue"
       /\ \/ (\E m \in Messages : Send(s, m)) /\ Answer(h, Accepted) /\ NoFault
          \/ /\ UNCHANGED queue \/ \E m \in Messages : Send(s, m)
             /\ Answer(h, NextAttempt(calls[h].session))
             /\ Fault
       /\ UNCHANGED <<rows, raw, artifact, worker>>

\* The API process dies; the waiting agent sees a transport error.
CallCrash(h) ==
    /\ calls[h].pc \notin {"off", "idle"}
    /\ Answer(h, NextAttempt(calls[h].session))
    /\ Fault
    /\ UNCHANGED <<rows, raw, artifact, queue, worker>>

-----------------------------------------------------------------------------
(***************************************************************************)
(* The queue                                                               *)
(***************************************************************************)

\* Worker w still works on the delivery that put m in flight.
Holds(w, m) ==
    worker[w].pc # "idle" /\ worker[w].msg = m /\ worker[w].receipt = queue[m].receives

VisibilityTimeout(m) ==
    /\ queue[m].at = "inflight"
    /\ queue' = [queue EXCEPT ![m].at = "visible"]
    /\ IF \E w \in Workers : Holds(w, m) THEN Fault ELSE NoFault
    /\ UNCHANGED <<agent, calls, rows, raw, artifact, worker>>

RedriveAfterMore(m) == queue[m].receives > MaxReceives
Exhausted(m) == queue[m].receives = MaxReceives

Redrive(m) ==
    /\ queue[m].at = "visible" /\ Exhausted(m)
    /\ queue' = [queue EXCEPT ![m].at = "dead"]
    /\ NoFault
    /\ UNCHANGED <<agent, calls, rows, raw, artifact, worker>>

\* SQS drops a message that is older than its queue's retentionPeriod.
Expire(m) ==
    /\ MessagesExpire
    /\ queue[m].at \in {"visible", "inflight", "dead"}
    /\ queue' = [queue EXCEPT ![m].at = "expired"]
    /\ Fault
    /\ UNCHANGED <<agent, calls, rows, raw, artifact, worker>>

-----------------------------------------------------------------------------
(***************************************************************************)
(* run_forever and process_message.  An exception leaves the message to    *)
(* its visibility timeout.                                                 *)
(***************************************************************************)

Receive(w, m) ==
    /\ worker[w].pc = "idle"
    /\ queue[m].at = "visible" /\ queue[m].receives < MaxReceives
    /\ queue' = [queue EXCEPT ![m].at = "inflight", ![m].receives = @ + 1]
    /\ worker' = [worker EXCEPT ![w] = [pc |-> "process", msg |-> m,
                                        receipt |-> queue[m].receives + 1, attempt |-> 1]]
    /\ NoFault
    /\ UNCHANGED <<agent, calls, rows, raw, artifact>>

SessionOf(w) == queue[worker[w].msg].session

Abandon(w) == worker' = [worker EXCEPT ![w] = Idle]
Step(w, pc) == worker' = [worker EXCEPT ![w].pc = pc]

Process(w) ==
    /\ worker[w].pc = "process"
    /\ \/ SessionOf(w) \notin Poison /\ SessionOf(w) \in raw /\ Step(w, "publish") /\ NoFault
       \/ SessionOf(w) \in Poison /\ Abandon(w) /\ NoFault
       \/ Abandon(w) /\ Fault
    /\ UNCHANGED <<agent, calls, rows, raw, artifact, queue>>

StoreAlways(s, r) == artifact' = [artifact EXCEPT ![s] = r]

\* put_object with IfNoneMatch "*".
StoreIfAbsent(s, r) == artifact' = [artifact EXCEPT ![s] = IF @ = None THEN r ELSE @]

AnyExisting(w) == TRUE

\* _verify_existing_artifact: after the put the stored artifact must be this one.
VerifyExisting(w) == artifact'[SessionOf(w)] = Build[w]

Publish(w) ==
    /\ worker[w].pc = "publish"
    /\ \/ /\ StoreIfAbsent(SessionOf(w), Build[w])
          /\ IF VerifyExisting(w) THEN Step(w, "callback") ELSE Abandon(w)
          /\ NoFault
       \/ /\ StoreIfAbsent(SessionOf(w), Build[w]) \/ UNCHANGED artifact
          /\ Abandon(w)
          /\ Fault
    /\ UNCHANGED <<agent, calls, rows, raw, queue>>

\* complete_processing accepts the first completion of an uploaded session ...
Completes(row) == row.completion = None /\ row.status = "uploaded"

\* ... and replays the identical one; anything else is a conflict.
Accepts(row, r) == Completes(row) \/ row.completion = r

CompleteProcessing(s, r) ==
    /\ ApiFree
    /\ rows' = [rows EXCEPT ![s] = IF Completes(@)
                                   THEN [status |-> "processed", completion |-> r]
                                   ELSE @]

\* post_completion: a lost answer is retried, a conflict is retried in vain.
Callback(w) ==
    LET s == SessionOf(w)
        retry == IF worker[w].attempt < MaxAttempts
                 THEN [worker[w] EXCEPT !.attempt = @ + 1]
                 ELSE Idle
    IN /\ worker[w].pc = "callback"
       /\ \/ /\ CompleteProcessing(s, Build[w])
             /\ IF Accepts(rows[s], Build[w]) THEN Step(w, "delete") ELSE Abandon(w)
             /\ NoFault
          \/ /\ CompleteProcessing(s, Build[w]) \/ UNCHANGED rows
             /\ worker' = [worker EXCEPT ![w] = retry]
             /\ Fault
       /\ UNCHANGED <<agent, calls, raw, artifact, queue>>

\* The receipt of an older delivery may or may not still delete the message; none
\* reaches the dead-letter queue, or a message that is gone.
Delete(w) ==
    LET m == worker[w].msg
    IN /\ worker[w].pc = "delete"
       /\ Abandon(w)
       /\ \/ /\ queue[m].at \notin {"dead", "expired"}
             /\ queue' = [queue EXCEPT ![m].at = "deleted"]
             /\ NoFault
          \/ /\ \/ queue[m].at \in {"dead", "expired"}
                \/ worker[w].receipt # queue[m].receives
             /\ UNCHANGED queue
             /\ NoFault
          \/ UNCHANGED queue /\ Fault
       /\ UNCHANGED <<agent, calls, rows, raw, artifact>>

WorkerCrash(w) ==
    /\ worker[w].pc # "idle"
    /\ Abandon(w)
    /\ Fault
    /\ UNCHANGED <<agent, calls, rows, raw, artifact, queue>>

-----------------------------------------------------------------------------
\* A deployment runs the processes 1 to n.
Deployed(n) ==
    [h \in Handlers |-> IF h <= n THEN NoCall ELSE [NoCall EXCEPT !.pc = "off"]]

Init ==
    /\ agent = [s \in Sessions |-> Restarted]
    /\ \E n \in Handlers : calls = Deployed(n)
    /\ rows = [s \in Sessions |-> [status |-> "absent", completion |-> None]]
    /\ raw = {}
    /\ artifact = [s \in Sessions |-> None]
    /\ queue = [m \in Messages |-> [at |-> "unsent", session |-> None, receives |-> 0]]
    /\ worker = [w \in Workers |-> Idle]
    /\ faults = 0

AgentStep(s) ==
    \/ Register(s) \/ Reconcile(s) \/ Presign(s) \/ Put(s)
    \/ (\E h \in Handlers : CallComplete(s, h)) \/ Unanswered(s) \/ AgentCrash(s)

CallStep(h) == Verify(h) \/ MarkUploaded(h) \/ Enqueue(h) \/ CallCrash(h)

QueueStep(m) == VisibilityTimeout(m) \/ Redrive(m) \/ Expire(m)

WorkerStep(w) ==
    \/ (\E m \in Messages : Receive(w, m)) \/ Process(w) \/ Publish(w)
    \/ Callback(w) \/ Delete(w) \/ WorkerCrash(w)

Next ==
    \/ \E s \in Sessions : AgentStep(s)
    \/ \E h \in Handlers : CallStep(h)
    \/ \E m \in Messages : QueueStep(m)
    \/ \E w \in Workers : WorkerStep(w)

Spec == Init /\ [][Next]_vars

\* The agent's timer loop, the API's event loop, SQS and the worker's receive loop
\* all keep running: whichever of them can move without a failure does so.
Fairness ==
    /\ \A s \in Sessions : WF_vars(AgentStep(s) /\ faults' = faults)
    /\ \A h \in Handlers : WF_vars(CallStep(h) /\ faults' = faults)
    /\ \A m \in Messages : WF_vars(QueueStep(m) /\ faults' = faults)
    /\ \A w \in Workers : WF_vars(WorkerStep(w) /\ faults' = faults)

FairSpec == Spec /\ Fairness

-----------------------------------------------------------------------------
(***************************************************************************)
(* Properties                                                              *)
(***************************************************************************)

\* Every variable stays in its type.
TypeOK ==
    /\ agent \in [Sessions -> Agent]
    /\ calls \in [Handlers -> Call]
    /\ rows \in [Sessions -> Session]
    /\ raw \in SUBSET Sessions
    /\ artifact \in [Sessions -> Results \cup {None}]
    /\ queue \in [Messages -> Message]
    /\ worker \in [Workers -> Worker]
    /\ faults \in Nat

\* Some message of the session is still in the queue, in flight or dead-lettered.
Queued(s) ==
    \E m \in Messages : queue[m].session = s /\ queue[m].at \in {"visible", "inflight", "dead"}

\* The queue dropped a message of the session for its age.
Dropped(s) == \E m \in Messages : queue[m].session = s /\ queue[m].at = "expired"

\* Once the agent was told its upload is accepted and forgets the package, the
\* session is processed or a message that leads there (or to an operator) survives,
\* whatever crashed between mark_uploaded and send_message, whoever deleted which
\* duplicate: only a message's age can strand it.
NoStrandedUpload ==
    \A s \in Sessions :
        agent[s].pc = "done" => rows[s].status = "processed" \/ Queued(s) \/ Dropped(s)

\* A processed session stores the very result its artifact holds, although workers of
\* different builds may have raced to publish and report.
CompletionMatchesArtifact ==
    \A s \in Sessions :
        rows[s].completion # None => rows[s].completion = artifact[s]

\* complete_processing never refuses a queue worker: the conditional put lets only one
\* result of a session reach the callback, whatever was redelivered to whom.
NoCompletionConflict ==
    \A w \in Workers :
        worker[w].pc = "callback" => Accepts(rows[SessionOf(w)], Build[w])

\* However messages are redelivered and builds disagree, a session has one result: what
\* its artifact holds, its row stores, and every worker that gets to report reports.
OneResult == CompletionMatchesArtifact /\ NoCompletionConflict

\* Neither a published artifact nor a stored completion is ever replaced, and no
\* session moves back in its lifecycle.
ResultsAreFinal ==
    [][\A s \in Sessions :
        /\ artifact[s] # None => artifact'[s] = artifact[s]
        /\ rows[s].completion # None => rows'[s] = rows[s]
        /\ rows[s].status = "uploaded" => rows'[s].status \in {"uploaded", "processed"}]_vars

\* apps/api/README.md: "later workflow states are not requeued by this callback".  With
\* one API process no completion slips between mark_uploaded and send_message.
NotRequeuedOnceProcessed ==
    [][(\A h, k \in Running : h = k) =>
        \A m \in Messages : (queue[m].at = "unsent" /\ queue'[m].at # "unsent") =>
            rows[queue'[m].session].status = "uploaded"]_vars

DeadLettered(s) == \E m \in Messages : queue[m].session = s /\ queue[m].at = "dead"

\* The agent starts over a session that an earlier attempt has registered: from now on
\* every attempt meets 409 and then the refused read.
LockedOut(s) == agent[s].pc \in {"register", "reconcile"} /\ rows[s].status # "absent"

\* What can become of a package, and of its message.
Settled(s) ==
    \/ rows[s].status = "processed" \/ DeadLettered(s) \/ Dropped(s)
    \/ LockedOut(s) \/ agent[s].pc = "crashed"

\* The pipeline comes to rest: every package is processed, waits in the dead-letter
\* queue for an operator, was dropped for its age, or was given up by an agent that died
\* or is locked out by its own registration; and no duplicate circulates forever.
PackagesSettle ==
    <>[](/\ \A s \in Sessions : Settled(s)
         /\ \A m \in Messages : queue[m].at \notin {"visible", "inflight"})

\* The client's own test, RegistrationConflictWithExactRemoteIdentityContinuesUpload:
\* a registration answered 409 for the same package is reconciled, and the upload ends.
ConflictContinuesUpload ==
    \A s \in Sessions : agent[s].pc = "reconcile" ~> agent[s].pc = "done"
=============================================================================
