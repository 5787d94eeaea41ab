# A TLA+ verification project for Workflow Helper

Workflow Helper records a user's AutoCAD work, uploads it, turns it into a
timeline and lets reviewers and a skill library work with what it found. This
directory holds TLA+ models of the parts where concurrency, failure and time
decide whether that is correct, the TLC runs that check them on small instances,
and TLAPS proofs for every instance. Paths below are relative to `src/`;
`API` stands for `apps/api/src/workflow_api`.

## The system

| component | state it keeps | operations | what is hard | what makes it correct |
|---|---|---|---|---|
| job leases (`API/control_store.py`, `control_service.py`, `routes/control.py`) | `control_jobs`, append-only `lease_events`, `audit_events` | register, acquire, heartbeat, complete | the clock is read before `BEGIN IMMEDIATE`; superseded workers; lost answers | tokens fence, one immutable result, at most `max_active_leases` leases, one audit row per change |
| retention ledger (`API/retention_store.py`, `routes/retention.py`) | targets, copies, append-only events | register, hold, stage trash, attest, audited reads | holds racing deletions, reused keys, stale clocks | nothing deleted early or under a hold, complete exactly when every copy is gone, the log explains the rows |
| session hand-over (`API/routes/sessions.py`, `legacy_session_store.py`, `artifact_gateway.py`) | session rows, raw and processed buckets | register, presign, complete upload, complete processing | a crash between the database commit and the queue send | an accepted upload is never stranded, a result is final |
| capture upload client (`apps/capture-agent/Services/SessionUploadClient.cs`) | its position in `UploadAsync`, a pending package in memory | register, reconcile, presign, put, complete | lost answers, bounded retries, death of the process | retries until told of success; a registration whose answer was lost cannot be continued (Finding 3) |
| processing queue (`infra/lib/workflow-helper-data-stack.ts`) | messages, receive counts, dead-letter queue | send, receive, time out, redrive, delete | redelivery to a second worker, stale receipts | drains |
| worker loop (`apps/worker/src/workflow_worker/main.py`) | the message in hand, the callback attempt | receive, process, publish, callback, delete | two builds racing on one package, crash between any two steps | only the published result is reported |
| candidate publication and discovery (`API/candidate_publication_store.py`, `candidate_publication_service.py`, `candidate_discovery_service.py`, `routes/candidate_discovery.py`) | reservations with epochs, finalized candidates | reserve, finalize, list pages, check the authority | expired reservations taken over; rows that commit or are reviewed while a reader pages | one owner per epoch finalizes; a listing misses nothing and repeats nothing |
| reviews and candidate review (`API/control_store.py`, `control_service.py`, `candidate_publication_service.py`) | append-only `review_events`, `review_projection`, `audit_events` | append, replay, read the projection or the history | concurrent reviewers, replayed keys, reads of two selects | projection equals history, a candidate is decided once, what was answered stands |
| skill approval (`API/candidate_skill_approval.py`) | a lock file; otherwise the review tables | approve, read the state | a check and an append in separate transactions, beside a writer that does not take its lock | never leaves a history the readers refuse |
| dataset approval (`API/dataset_approval.py`) | approvals | approve | approval against a stale review | an approval names what was reviewed |
| browser sessions (`API/browser_session_store.py`, `main.py`, `session_security.py`) | session rows, every digest ever allocated | register, touch, rotate, revoke; the guard of a control route | races on one state version, clocks read before the lock, a row validated after it was read | one identifier per login, a spent digest never works again, a live session can be revoked |
| workload principals, proofs and session history (`API/legacy_session_store.py`, `legacy_session_security.py`, `legacy_session_composition.py`, `routes/sessions.py`) | principals with generations, claimed proofs, append-only session events | register, rotate, revoke, claim; the guard of every workload route and the transactions of its handler | a proof presented twice or after its window, a principal retired between guard and handler, clocks read before the lock | one request per proof, current generation only, every change recorded with the principal that was admitted for it |
| safety switches (`API/safety_switches.py`, `safety_control.py`) | switch versions | set, evaluate | a check that is stale when used | a tripped switch stops later work |
| capture coordinator and package writer (`apps/capture-agent/Services/SessionCoordinator.cs`, `SessionPackageWriter.cs`) | active and pending session, package descriptor, files on disk | tick, pause, resume, finalise, shut down | each await may fail before or after its effect, or be cancelled; a failing finalisation is retried from every tick | the recorder follows the coordinator, no session is lost in the process, a retry sends the package the API knows |
| worker operators (`pipeline.py`, `processing_v2.py`, `processing_job_v2_result_identity.py`) | none | filter and order events, derive identities | duplicates and boundaries | checked against a reference definition |
| web client (`apps/web/lib`) | a decision in progress | submit, reconcile | a lost answer to a submission | at most one decision |

The parts talk to each other as follows. The agent calls the API over HTTP and
writes the package to the raw bucket with a presigned URL; the API commits the
session row and then sends a queue message; a worker receives it, writes the
timeline to the processed bucket, calls back the API and deletes the message. All
API stores are SQLite files: one connection per operation, `BEGIN IMMEDIATE`,
everything rolled back on any exception. Roles come from `control_auth.py`; a
denial writes a "denied" audit row on its own, an accepted mutation writes its
audit row in its own transaction. `PROJECT.json` lists every part, the hazards
with the line where each bites, and the properties aimed at it.

## The modules

| module | contents |
|---|---|
| `FencedJobs` | the abstract contract: tokens only grow, each job publishes once, under its latest grant |
| `ControlStore` | the job-lease tables and their transactions; refines `FencedJobs` |
| `RetentionLedger` | the retention tables and their transactions |
| `SessionPipeline` | agent, API processes, buckets, queue and workers composed |
| `CandidatePublication` | publication reservations, and the paged listing beside them |
| `DecisionRegister` | the abstract contract of a candidate review: opened once, decided once, never rewritten |
| `ReviewLedger` | the review tables, their three writers and their readers; refines `DecisionRegister` |
| `BrowserSession` | the browser session tables, their transactions and the guard that reads them |
| `CaptureAgent` | the agent's process: poll loop, coordinator, package writer and what they leave on disk and in the API |
| `WorkloadAccess` | workload principals, one-time proofs, the guard of the workload routes and the session events their handlers write |
| `MC...` | what TLC needs beyond constants, one for each state machine: symmetry sets, build functions, and in `MCCandidatePublication` a choice of instances |
| `ControlStoreProofs`, `RetentionProofs`, `PipelineProofs`, `CandidateProofs`, `ReviewProofs`, `BrowserProofs`, `CaptureProofs`, `WorkloadProofs` | the theorems |

### ControlStore

`jobs` is `control_jobs`, `events` is `lease_events` per job, `audit` counts the
accepted audit rows. Every store method reads `datetime.now` and only then opens
its transaction, which may wait for the database lock up to the busy timeout and,
before that, for its thread. So an operation is two steps: `Request*` puts a
record with the time it read into `pending`, and one of `Register`,
`ReplayAcquire`, `Acquire`, `Heartbeat`, `ReplayComplete`, `Complete` commits it
whole, or `Rollback` drops it (a refusal, a lock timeout, a killed process).
`Tick` may not make a pending request older than `MaxDelay`. Workers may present
any lease that a response ever carried, and `OwnedLease` is the service's
replacement of the owner by the authenticated subject. Digests, keys and ids are
model values.

### RetentionLedger

`targets`, `copies` and `log` are the three tables, `audit` the accepted audit
rows. Requests have the same two steps. `KeyUnused`/`Replays` are
`_existing_event`: a key is bound by the first event committed under it; equal
content replays (with an audit row), other content is refused. The content digest
is taken as injective, hence a request carries the content itself.

### SessionPipeline

One record per process. `agent` follows `UploadAsync`: an exception sends it back
to `register` on the next tick. `calls` are the API processes inside
`complete_upload`: read and verify the object, `mark_uploaded`, `send_message`.
The routes do not suspend, so a process runs one handler at a time (`ApiFree`);
the other routes are one transaction and one step. `queue` holds each message's
place, session and receive count, `worker` the delivery each worker acts on.
Every failure spends a unit of `faults`: a lost answer with or without its
effect, a send that fails or only seems to, a crash of an API process, worker or
agent, a visibility timeout under a working worker, an old receipt, a message that
expires.
`Build[w]` is the timeline that worker w's build computes; two builds disagree
in the run. `Init` chooses how many API processes a deployment has (`Deployed`); one
that is "off" takes no step. Messages are numbered and sent in order, which loses
nothing, since any may be received first.

A registration answered 409 is followed by `GET /v1/sessions/{id}`. That route is guarded
by `require_reviewer_read`, a browser-session guard, and ADR 0008 gives `capture_uploader`
no read, so `Reconcile` is a refused read: `UploadAsync` throws and the next tick starts
over. An agent whose attempt failed after its registration is `LockedOut` from then on
(finding 3). The comparison of the session's fields that would follow an admitted read is
never reached and is not modelled.

`Expire` is the loss of a message after the retention period of its queue, four days, or
fourteen in the dead-letter queue; when it happens is a choice, allowed by
`MessagesExpire`. The code never looks for an upload whose message is gone, so
`NoStrandedUpload` excepts it and says that there is no other way. The raw bucket's own
lifecycle (`rawRetentionDays`) is not modelled: a package stays there.

### CandidatePublication

`pubs` is the table `candidate_publications`, one row per job, because the
publication key is derived from the job id. The evidence envelope determines the
canonical bytes, the digests and the review target, so a row carries only the
evidence; a caller with other evidence for the same job meets the identity check.
`caller` follows `_publish_request`: `Publish` prepares the bytes and reads the
clock, one of `ReserveNew`, `ReserveAgain`, `ReserveExpired`, `Replay` is the
transaction of `reserve`, `Finalize` is the check outside a transaction and
`FinalizeCommit` the transaction that checks again. `Fail` is any refusal, error or
crash in between. A clock injected through the request's `now` is not modelled: both
operations read the store's clock.

`reader` is a client that follows `next_cursor` from page to page. `Scan` is the
store's select of `DISCOVERY_SCAN_BATCH` rows behind its cursor, `Check` the
store's read of one row's review in the control database, `Recheck` the service's
second read of it, `NextPage` the route's cursor. They are separate steps, because
each is a statement of its own against a database that others write. `hidden`
holds the rows that were dropped because a review could not be read: the code
chooses to drop them. `before` and `known` are ghosts, what was finalized and
what was reviewed when the listing began. `reviewed` only grows: review events are
append-only, and a target with an event is not unreviewed whatever its status.

### ReviewLedger

`events`, `projection` and `audit` are the tables, per target; a candidate target is
a pair of skill and content, an ordinary target is anything else. `sequence` is the
autoincrement column and also stands for the fresh UUID of an event. A projection row
is a version and a copy of the last event. `Valid` is `_validate_candidate_projection`,
which every candidate read, retry and write goes through: the history must be a chain
of legal transitions, each event naming the prior it was decided against, and an event
in the older approval's shape is recognised only as the first.

`calls[c]` is the call a thread or process is in. A write is one transaction and one
step; nothing an ordinary review reads precedes its transaction, so it is one step
altogether. The route's call is two: `RequestReview` authorizes it (which reads no
table) and looks the finalized publication up, `AppendCandidate`, `ReplayCandidate` or
`RefuseCandidate` is the transaction. A read is two steps, `SelectProjection` and
`SelectHistory` or `Report`, because its selects run in no transaction.
`approve_candidate_skill` is lock, read, append, read, list; `Leave` ends any call at
any point, as a returned answer or as the death of its process. Keys are those after
scope qualification, and all writers share them. The digests are taken as injective
and cover the fields a request carries; a note that is `None` was left unset, an
explicit null is not distinguished. Event times, provenance and detail of ordinary
reviews and the audit rows of denied requests are left out: no guard reads them. The
expected prior is given whole or not at all.

### BrowserSession

`sessions` is the table `browser_sessions` by identifier digest, `digests` the table of
allocations, in which a digest stays forever. A mutation is two steps as in the other
stores: `SubmitRegister` and `SubmitChange` validate the arguments and read the clock,
`RegisterSession`, `TouchSession`, `RotateSession` and `RevokeSession` are the
transactions, `Rollback` every way to fail. A caller names the state version it saw,
which may be out of date when its transaction runs. `Readable` is `_state_from_row`,
which every read and every write goes through, `RequireCurrent` is `_require_current`;
revocation tests neither expiry.

A request is the guard of a control route: `BeginRequest` hashes the cookie and reads
the clock, `ResolveSession` is the select, `ValidateSessionSecurity` checks the row it
got against the clock of that moment and the request's principal, origin and CSRF
token. `login` (the identifier a session was registered with) and `spent` (the
identifier was already retired or revoked when the request began) are ghosts; no guard
reads them. Cookie and header syntax, the hashing and the constant-time comparison are
left out: a request either presents the digest of a token or does not.

### CaptureAgent

`pc` is the await at which the worker stands; the code between two awaits is one step.
`Poll` and `DetectApproved`/`DetectOther` are the loop and `TickAsync`,
`RecorderStarts` to `RecorderStops` the returns of the recorder's calls, `OpenSource`,
`StageRecording`, `CreatePackage` and `CleanUp` are `WriteAsync` with its `finally`
block, `Upload` the return of `UploadAsync`. `caller` says whose handler an exception
meets: a tick with a finished session pending is retried after the delay, any other
failure ends the worker through the shutdown path, and the shutdown's own failure ends
it at once (`Raise`). Every recorder call may fail with or without its effect, the
upload before or after the registration, and the stopping token may be cancelled at any
await. `Crash` loses everything but the files and the API's tables; `Restart` begins
with nothing, because the code does not look at the packages on disk. The recording file
may be repaired, replaced or removed while nobody holds it open.

Recorder, window detector, file system and API are external: the API registers the
first package of a session and answers 409 to every further registration, after which
the client's reconciling read is refused too. So `Upload` is possible only for a session
that is not registered yet (`Registrable`), and `UploadRefused` is every later attempt.
`SessionPipeline` models that side and the steps inside `UploadAsync` in full. Left out: the configuration checks at which `ExecuteAsync` returns before its
loop, the option that disables uploads (`UploadAsync` then returns at once), and the
guard against negative durations, which a wall clock set back would need and the
model's clock does not.

### WorkloadAccess

`principals`, `claims`, `sessions` and `events` are the four tables of
`legacy_session_schema.py`, the first two by their primary keys. A session row carries
what authority and progress depend on: scope, owner, status and state version. What it
stores of the package and of the completion is in `SessionPipeline`, which in turn takes
every request as admitted.

A request is several transactions. `Authorize` is the guard: the credential verifier,
which is external and may vouch for any well-formed context, then
`claim_workload_proof` with its freshness check, its look at the principal and its
insert, whose primary key refuses a proof already claimed. The handler follows with
transactions of its own: `Create`; `ReadSession` and later `MarkUploaded`, with the
bucket asked in between; `CompleteProcessing`. `EndRequest` is every answer, refusal,
error and crash that writes nothing further. Several API processes may share the file,
and even in one process other requests run while a handler waits, so between these steps
come other requests and the administration of the principals. A principal revoked after
the claim does not stop the request it admitted: the code does not look again, and
`EveryChangeAuthorized` promises no more than it does.

`claim_workload_proof` and the administration read the clock, or are handed it, before
they wait for the lock; `Stamps(delay)` are the values a transaction may carry.
`state_version` of a principal is left out: rotation and revocation compare it inside
the transaction that read it. `proof` in an event is a ghost, the proof of the request
that wrote it. Claims are never deleted: `retain_until_us` is stored and indexed, but no
code in the repository acts on it.

## The runs

| run | instance | states | checks |
|---|---|---|---|
| `control_fencing` | 1 job, 2 workers, 2 digests, clock to 3, delay 1, 2 requests in flight | 863 k | types, agreement of row, log and audit trail (`TablesAgree`), fencing and no overlap (`LogOrdersLeases`), takeover only after expiry and completion within the delay (`LeaseTimesRespected`), refinement of `FencedJobs` |
| `control_stale_heartbeat` | 2 jobs, 1 slot, requests up to 1 unit old | violation | the cap does not hold (finding 1) |
| `control_stale_completion` | 1 job, 1 worker, requests up to 1 unit old | violation | an expired lease publishes a result (finding 2) |
| `retention_ledger` | 1 target, 2 copies, 4 keys, period 2, clock to 3, delay 1, 2 requests in flight | 2.09 M | the log explains rows and audit trail (`TablesAgree`), keys are used once and evidence times are in order up to the delay (`EvidenceSound`), nothing staged early, complete exactly when all copies are gone, overdue targets have work (`RowsSound`), holds freeze |
| `pipeline` | 2 packages (1 unreadable), 1 or 2 API processes, 2 workers with disagreeing builds, 4 messages, 2 attempts, 2 receives, 2 faults, agent may die, messages may expire | 857 k | nothing stranded but by age, stored result = artifact and no refused callback (`OneResult`), results final, no requeue once processed with one process, every package comes to an end and the queue drains (`PackagesSettle`) |
| `pipeline_conflict` | 1 package, 1 process, 1 worker, 1 fault | violation | a registration conflict does not continue the upload (finding 3) |
| `publication` | *contest*: 1 job, 2 callers, 2 owners, 2 envelopes, clock to 5; *list*: 1 reader with pages of 2 and batches of 1, and either 3 candidates at one moment with 1 unreadable review, or 2 candidates and 2 callers over 2 clock values; lease 2, delay 1 | 579 k | CHECK constraints, an epoch names one owner, the answered candidate is the stored one (`PublicationSound`), immutability, takeover only after expiry (`PublicationStable`), a listing misses nothing and repeats nothing (`ListingSound`), and ends (`ListingEnds`) |
| `review_ledger` | 2 calls in flight, 2 reviewers, 2 contents of 1 skill, 1 ordinary target, 2 keys, 1 note | 965 k | a key names one review, events, projections and audit rows agree (`RecordsAgree`), decided content is published and answers stand (`DecisionsStand`), reads are current, refinement of `DecisionRegister`, one way only to an unreadable history |
| `review_legacy_race` | 2 calls in flight, 1 content, 2 keys | violation | the legacy approval makes a history unreadable (finding 4) |
| `browser_sessions` | 2 callers, 1 request, 2 identifiers and 2 tokens, idle 1, absolute 2, generations to 2, versions to 3, clock to 2, delay 1, 2 in flight | 1.32 M | one identifier and token per login, late requests refused and admitted ones resting on a row that only ages (`GuardSound`), revocation never blocked, spent digests and expired sessions stay dead |
| `capture_agent` | 2 sessions of up to 3 events before their end, 3 faults, 2 recordings and an unusable one, grace 1, clock to 3 | 878 k | the recorder follows the coordinator, logs alternate in time and end once (`LogAlternates`), the stored duration is the active time of the log (`DurationIsActiveTime`), the descriptor describes the file and is the one the API knows (`RetryMatchesRegistration`), no session dropped, pending work is delivered or stuck behind its own registration, and a stopped agent ends (`AgentFinishes`) |
| `workload_access` | 2 subjects in 2 scopes, 2 principals, 3 proofs, 2 requests, 1 session, generations to 2, lifetime 1, no skew, claims up to 1 unit old, clock to 1 | 1.22 M | every change and every request in service rests on a claim of its own (`EveryChangeAuthorized`), events explain rows and name the owner (`HistoryExplainsSession`), revoked principals claim nothing (`RevocationHolds`), claims are final and in generation order (`ClaimsFenced`) |

**Bounds.** `MaxClock`, `MaxPending`, `MaxInFlight`, `MaxAge`, `MaxAudit`,
`Messages`, `MaxFaults`, `MaxHidden`, `MaxSessions`, `MaxEvents` and `MaxPrincipals` are
exploration bounds, each a guard in an action. Two requests in flight are enough
for every pairwise race, because transactions are serial and each request depends
on the tables only; three clock units are enough to grant, expire, take over and
complete with one stale request. A send needs a new session or a fault (a call is
repeated only after one), so `Messages` with sessions + faults members never runs
out. The proofs do not depend on any bound.

In `review_ledger` the requested decisions are `pending`, `approved` and `rejected`
(`Requested`; `needs_changes` is treated everywhere as `rejected` is) and ordinary
reviews all give one status (`TopicStatuses`): nothing constrains theirs. Two keys
allow a complete history of a candidate, a key taken by another writer, and a retry;
`MaxAudit` bounds the retries of ordinary reviews, each of which adds an audit row.

In `retention_ledger` four keys allow a target, a copy and two further events, such as a
hold and its release, staging and attestation, or a second copy; deleting both of two
copies needs a fifth and is covered by `RowsCorrect`. In `browser_sessions` two digest
pairs allow one rotation, or two logins, and every attempt to go back to a spent digest;
the limits of generation and version are small enough to be met. In `capture_agent` the
second session shows what the first one leaves behind, and three faults fail a write, an
upload and a stop, or change a recording between two attempts. In `workload_access` three
proofs take a session from registration to its result, or let one principal claim for two
generations; two principals are the owner and a stranger of the same or another scope, or
the owner and the worker; one clock unit is enough for a proof to expire while its claim
waits.

`TypeOK` is checked by `control_fencing` and `capture_agent`; for the other modules it
is proved (`TypeCorrect`) and not checked again.

What an acquisition does to the cap, and the immutability of completed jobs, completed
targets and copy stages have no passing run of their own: `CapExceededOnlyByHeartbeat`,
both `CompletedForever` and `StagesInOrder` prove them for every instance.

`publication` is two instances in one run, chosen in the initial state (`instance`), and
in "list" two scopes: every action of the module is conjoined with the scope, which only
limits who publishes what and when. In "list" over time a row may commit with a
finalized_at behind the reader's cursor; at once, three rows share one and are told apart
by their key. With pages of two and batches of one every batch is exactly full, and a page
fills at the end of a batch or in between; other sizes, `ListingCorrect` proves. No scope
forbids a reader's next step, so the fairness assumed is the module's.

**Deadlock.** The bounded models stop when a bound is reached; the
control, retention, publication and review runs always have a request to submit or
roll back, a call or a listing to give up, a browser request to begin or end, and an agent
that is down may restart; they leave deadlock checking on. The pipeline stops by design
when every package is done, and `workload_access` when its proofs are spent and its
principals revoked.

**Fairness.** `FairSpec` asks weak fairness of each agent, API process, message
and worker, for its steps that are no fault. The agent's loop is a periodic timer,
uvicorn's loop serves what is queued, SQS makes messages visible again, and the
worker's `while True` is restarted by its service when it dies. Nothing is fair
about faults, so they may or may not happen. What can be promised is `PackagesSettle`:
a package ends processed, in the dead-letter queue, dropped for its age, or given up by
an agent that died or is locked out, and no message circulates forever. `CandidatePublication!FairSpec` asks weak
fairness of a reader's own paging, which is a loop inside one request and a client
that follows the cursor; publishing and reviewing are not fair. `CaptureAgent!FairSpec` asks
weak fairness of the worker's own steps together: the runtime resumes every
continuation whose await has ended, and each of the awaits ends. Failures, cancellation,
restarts and changed files are not fair.

**One API process.** `NotRequeuedOnceProcessed` speaks of a deployment of one process,
which is what the Dockerfile starts: between `mark_uploaded` and `send_message` of one
handler nothing else runs. With two processes a completion can slip in between and
a processed session is queued once more; the other properties of `pipeline`, checked
for both deployments, show that this does no harm (the result is final and the duplicate
is replayed and deleted).

## The theorems

All proofs are for arbitrary constants under the modules' named assumptions.

*ControlStoreProofs.* `TypeCorrect`; `LogCorrect` (`LogMatchesRow`, `FencedLog`,
`LogShowsNoOverlap` are inductive together with `TypeOK`: a row's owner, token and
expiry must be known to equal the last log entry before the next entry can be
compared with it); `TablesCorrect`, which adds the audit trail: a step that appends an
event adds one to the number of events of its type and one to the audit count of its
operation, a replay only to the latter; `CompletedForever`; `LeaseTimes` (takeover after
expiry, completion within the delay) from `ClockInv` (a pending request's clock value is
at most `MaxDelay` old and never in the future); `Refinement`, step by step into `FencedJobs`; and
`CapExceededOnlyByHeartbeat`. For the cap the argument is that an acquisition with an old
clock value counts at least the leases that are active now (`AcquireRespectsCap`), while a
heartbeat counts none: if a step leaves more leases unexpired than the cap allows and
there were not more before, it brought back a lease that had expired
(`CapExceededOnlyByRevival`). Finding 1 is that step.

*RetentionProofs.* The inductive invariant is `TypeOK`, `ClocksOK` and `RowsOK`
(rows exist for what is listed, `NothingStagedEarly`, `CompleteIffAllDeleted`); on
top of it `OneEventPerKey`, `EvidenceOrderWithinDelay`, `LogReplaysToState` and
`AuditMatchesLog` (together `TablesAgree`), each inductive relative to it, and the
action properties `HoldFreezesCopies`, `CompletedTargetFrozen`, `CopyLifecycle`.
`RowsCorrect`, `EvidenceCorrect` and `TablesCorrect` state the invariants as the run does.

*PipelineProofs.* The inductive invariant `HandOverOK` adds to `TypeOK`: references
are to existing calls and messages, statuses agree with where agent, calls and
messages are, and what a worker past its conditional put holds is the artifact. The
last part is what makes `CompletionMatchesArtifact` and `NoCompletionConflict`
(`OneResultEver`) hold; the middle one is needed for `NoStrandedUpload`, since deleting a
message is safe only because its session is processed by then. `NeverRequeued` adds,
for a deployment of one process (`RunningStays`: no step changes how many there are),
`SendsPending`: between `mark_uploaded` and `send_message` the row
stays as it was left, because a completion needs a free process. `StrandedOnlyByAge`
assumes that no message outlives its retention, and then an accepted upload is processed
or still has a message, without exception.

*CandidateProofs.* `PubInv` adds to `TypeOK` and the three invariants of the table
that a caller past `reserve` finds its evidence in the row, under an epoch the row
has reached, and is the row's owner if that epoch is the current one (`HoldOK`), and
that its clock value is at most `MaxDelay` old (`ClockOK`). A takeover then makes
every older epoch smaller than the row's, which is why nobody else can finalize
under the new one. From it `PublicationCorrect` and `Stable`, which is `Immutable` and
`Respected` together.
`ListingCorrect` rests on `ListOK`: rows finalized before the listing began are shown,
hidden, reviewed, in hand, or still ahead of the scan position; rows shown lie at or
before that position, in the order of `finalized_at`; and a page is full only when
its last row is the one just looked at, so that the route's cursor and the
service's agree. Finalized rows are immutable (`Immutable`), which keeps the order
fixed while others write.

*ReviewProofs.* `LedgerInv` is `TypeInv` (`TypeOK` and which fields a call of each kind
has filled in), the projections being current (`ProjectionCorrect`), `OneEventPerKey`
(`KeysAreUnique`), `UnreadableOnlyByLegacyRace` (`ReadableUnlessRaced`) and
`AuditMatchesDecisions` (`AuditComplete`). Its centre is `ValidAppend`: a history that
passes the readers' check passes it after a guarded append, unless the new event is a
legacy approval on a pending candidate, and the guard re-checks the history, so a
history that stopped passing never grows again. On top of it `AnswersCorrect`: stored
events are never removed, and a final verdict admits no further event;
`PublishedDecisions`, because a publication once finalized stays; `ReadsCorrect`,
because a projection that is valid against the history read second counts the same
events as the table does and so is the current one; and `Implementation`, the
refinement of `DecisionRegister`, where the list of statuses of a candidate is empty,
or just "pending", exactly when the transition table lets it grow. `RecordsCorrect` and
`DecisionsCorrect` put the parts together as the run states them.

*BrowserProofs.* `IInv` is `TypeOK`, that a waiting call's clock value is at most
`MaxDelay` old and a waiting registration is valid (`CallsOK`), that every stored row can
be read and was last seen in the past (`RowsOK`), that what a row names is allocated
(`Allocated`), `OneIdentifierPerLogin`, and that no request for a spent identifier has
got past its select (`RequestsOK`). On top of it `ResolvedOK` (`GuardCorrect`): the row of a
resolved request and the row now stored under its identifier differ by touches and a
revocation, a relation that composes (`AgesFurther`) and that no rotation or registration
can break, since the identifier is spent. `Allocated` is the centre: a new pair must be
unallocated, so it cannot coincide with the identifier, token or login of any row.
`SpentForever` and `ExpiredForever` are proved action by action from it.

*CaptureProofs.* `IInv` is `TypeOK`, which fields are set at which await (`Control`), what
the recorder does there (`RecorderOK`), that an attempt with a result has put it on the
disk (`AttemptOK`), `PackageMatches`, that the API knows started sessions only and none that
is still active (`Known`), and `RetryMatchesRegistration`. The last one holds because a session is
registered only while its descriptor is cached, and the descriptor is dropped only with
the session.

For the event log `LogInv` is inductive on top of `IInv`: the log of an active session is
open (it alternates, in time order up to the present, and has no end), its parity is the
coordinator's pause flag, the time a tick carries across a recorder call still fits the
log it saw, and a finished log is closed. `LogCorrect` follows. The carried time is the
point: it was read before the await, and only because nothing else is logged meanwhile
does the log stay in order.

`DurationCorrect` is about what the pass over that log computes, for logs of any length.
`ActiveSums` is a recursive function on the positions of the log; `PassExists` and
`ActiveSumsPass` show that it is defined, and `Counted` says of each position that the
total is the number of time units before it in which the session was active, and that
the pending activation is the one the log shows (`CountedFirst`, `CountedNext`). It
carries through the log because a closed log alternates in time order (`LogAlternates`),
so each pause or end counts an interval that no earlier one overlaps (`UnitsGrow`). The
induction over the positions is `NatInductionSet`: well-founded induction on the natural
numbers with a set in the place of the predicate, which the prover cannot take. The
reference definition counts up to `MaxClock`, hence `DurationInv` also says that no
logged time lies beyond the clock's bound.

*WorkloadProofs.* `StepCases` reduces every step to one of five: a change of a principal,
a claim, a first write, an advancing write, or a quiet step. `EveryChangeAuthorized` is
inductive relative to `TypeOK`; its part about the requests in service is what carries a
claim over to the event that is written later (`ChangesAuthorized`). `RevocationHolds` needs
that claims are not in the future (`ClaimsInPast`), so that a revocation stamped now is
later than each of them but for its own wait (`Revocation`); with it `Fencing`, since a
claim's generation is bounded by the active one and a new claim is of the active one.
`HistoryComplete` rests on `HistoryInv`, which says of the capture authority that the
registration event is there (`AuthorityResolves`): a write adds its event to the log of its own
session and to no other, under the next version. `DurableAuthority` follows from it and
from rows keeping scope and owner: what `resolve_session_capture_authority` once
answered (ADR 0018) it answers forever.

Only model-checked: liveness (`PackagesSettle`, `ListingEnds`, `AgentFinishes`), which the
prover does not reach. Every other property of the passing runs is a theorem.

## Findings

1. *The cap on active leases* (`control_stale_heartbeat`). ADR 0003 calls "At most
   three unexpired active leases" a hard bound. `heartbeat` compares the expiry with
   a clock value read before it waited for the lock, so it can extend a lease that
   expired meanwhile and whose slot was granted to another job.
2. *Publishing after expiry* (`control_stale_completion`). `docs/ARCHITECTURE.md` says
   "Expired or superseded leases cannot publish results", and ADR 0003 requires an
   unexpired lease for the first completion. `complete` reads its clock before it waits
   for the lock in the same way, so a lease that expired during the wait still publishes.
   The code keeps the weaker promise that `LeaseTimesRespected` states and proves: less
   than the wait after the expiry, and only under the current token. Superseded leases
   never publish (`ImplementsFencedJobs`).
3. *Registration conflict* (`pipeline_conflict`). The client's test
   `RegistrationConflictWithExactRemoteIdentityContinuesUpload` expects a 409 to be
   reconciled by reading the session back; the API answers that read to reviewers only
   (`routes/sessions.py:200-204`), and ADR 0008 gives `capture_uploader` no read. An agent
   whose registration took effect and whose attempt failed afterwards, if only by a lost
   answer, meets 409 and the refusal on every tick: the package is never delivered, and
   the pending session blocks the coordinator's ticks until it is stopped.
4. *Legacy approval* (`review_legacy_race`). `_sqlite_approval_lock` is documented to
   "Bound the replay-check/append race with an advisory lock on the exact DB file", but
   the review route's writer does not take it. If a pending review commits between the
   wrapper's check and its append, the approval is stored in the older shape as the
   second event, and every later read, retry and review of that candidate is refused
   as corrupt. `ReadableUnlessRaced` shows that this is the only such way.

A workload proof can be claimed after it expired, by less than the claim's wait
(`ClaimsFenced`); ADR 0009 puts the freshness check before the transaction, so that is as
documented.

## Not modelled, and why

Schemas and migrations (`*_schema.py`), formatting, HTTP validation, Windows
recording and the web pages carry no protocol. How long a message waits is not
measured: it may expire at any moment, which covers every wait. The
contents of packages and timelines are abstracted to the build that computed them.
The validation of a candidate document (`_validate_candidate_skill_contract`) is a
pure check of its shape, and nothing in the program calls
`transition_candidate_skill_review` in its lifecycle form.
The remaining components are planned:

## Plan

1. `SafetySwitches` with dataset approval.
2. `Timeline`: the worker's pure operators against reference definitions.
3. `DecisionClient`: the web client's submission over `ReviewLedger`.

Proof modules stay separate, one for each of the state machines.
