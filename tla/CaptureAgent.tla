---------------------------- MODULE CaptureAgent ----------------------------
(***************************************************************************)
(* The capture agent's process: CaptureWorker's poll loop and shutdown,    *)
(* SessionCoordinator's tick and finalisation, and the attempts of         *)
(* SessionPackageWriter on the disk.                                       *)
(*                                                                         *)
(* "pc" is the await the worker stands at.  The code between two awaits    *)
(* is one step; at every await the callee may succeed, fail before or      *)
(* after its effect, or be cancelled, and time passes.  Recorder, window   *)
(* detector and file system are external.                                  *)
(***************************************************************************)
EXTENDS Integers, FiniteSets, Sequences

CONSTANTS
    Recordings,     \* contents a recording file can have
    Unusable,       \* a missing, empty, oversized or linked recording file
    None,           \* null
    GracePeriod,    \* ForegroundGraceSeconds, in clock units
    MaxSessions,    \* bound: sessions started
    MaxEvents,      \* bound: events of one session before its end
    MaxFaults,      \* bound: failures, changed files and crashes together
    MaxClock        \* bound: last clock value explored

ASSUME AgentAssumption ==
    /\ GracePeriod \in Nat /\ MaxSessions \in Nat /\ MaxEvents \in Nat
    /\ MaxFaults \in Nat /\ MaxClock \in Nat
    /\ None \notin Recordings \cup {Unusable} /\ Unusable \notin Recordings

VARIABLES
    clock,      \* wall-clock time
    pc,         \* the await the worker stands at
    caller,     \* whose exception handler applies: a tick's, or the shutdown's
    stopping,   \* the host's stopping token is cancelled
    approved,   \* TickAsync: an approved window was in front
    now,        \* TickAsync: the clock value it carries across a recorder call
    active,     \* _activeSession
    last,       \* _lastApprovedForegroundAt
    paused,     \* _recorderPaused
    pending,    \* _pendingFinishedSession
    duration,   \* its ActiveDurationSeconds
    package,    \* _pendingPackage
    attempt,    \* WriteAsync: the staged recording, the result and the primary error
    recorder,   \* what the recorder really does
    source,     \* the file at _pendingRecordingPath; None: no path
    disk,       \* the file at packagePath of each session
    registered, \* the package the API has registered for each session
    delivered,  \* sessions whose upload returned
    started,    \* sessions started so far
    faults      \* failures so far

coordinator == <<active, last, paused, pending, duration, package>>
tick == <<approved, now>>
api == <<registered, delivered>>
vars == <<clock, pc, caller, stopping, tick, coordinator, attempt, recorder,
          source, disk, api, started, faults>>

-----------------------------------------------------------------------------
(***************************************************************************)
(* Sessions (CaptureSession) and packages                                  *)
(***************************************************************************)

SessionIds == 1..MaxSessions
EventTypes == {"session_started", "session_paused", "session_resumed", "session_ended"}
CadEvent == [type: EventTypes, at: Nat]
Session == [id: SessionIds, events: Seq(CadEvent)]

\* The bytes of a package: the metadata and events of a finished session, named by its
\* id, and the staged copy of its recording.  A descriptor holds their digest, which
\* stands for the same value.
Package == [session: SessionIds, recording: Recordings \cup {None}]

WithEvent(session, type, at) ==
    [session EXCEPT !.events = Append(@, [type |-> type, at |-> at])]

Start(id, at) ==
    [id |-> id, events |-> <<[type |-> "session_started", at |-> at]>>]

ASSUME NoneAssumption == None \notin Session \cup Package \cup Nat

Activates(event) == event.type \in {"session_started", "session_resumed"}

\* activeSince and activeDuration before the first event.
NoActivity == [since |-> None, total |-> 0]

CountNeverReset(sum, event) ==
    IF Activates(event) THEN [sum EXCEPT !.since = event.at]
    ELSE [sum EXCEPT !.total = @ + event.at - sum.since]

\* One event of CalculateActiveDurationSeconds' loop.
CountEvent(sum, event) ==
    IF Activates(event) THEN [sum EXCEPT !.since = event.at]
    ELSE IF sum.since = None THEN sum
    ELSE [since |-> None, total |-> sum.total + event.at - sum.since]

\* activeSince and activeDuration after each of the first events of a log.
ActiveSums(events) ==
    LET sums[i \in 0..Len(events)] ==
          IF i = 0 THEN NoActivity ELSE CountEvent(sums[i - 1], events[i])
    IN sums

\* CalculateActiveDurationSeconds: one pass that remembers since when capture is active.
CalculateActiveDuration(events) == ActiveSums(events)[Len(events)].total

Finish(session, at) == WithEvent(session, "session_ended", at)

-----------------------------------------------------------------------------
(***************************************************************************)
(* Where control goes                                                      *)
(***************************************************************************)

\* The first await of FinishActiveSessionAsync, or its early return.
FinishEntry ==
    IF pending # None THEN (IF package = None THEN "write" ELSE "upload")
    ELSE IF active # None THEN "stop" ELSE "return"

Shutdown ==
    /\ caller' = "shutdown"
    /\ pc' = IF FinishEntry = "return" THEN "down" ELSE FinishEntry

\* An await fails: by a fault of its callee, or because its token was cancelled (the
\* stopping token of a tick, the timeout of the shutdown's finalisation).
Fails(cancelled) ==
    /\ cancelled \in BOOLEAN
    /\ IF cancelled THEN caller = "shutdown" \/ stopping ELSE faults < MaxFaults
    /\ faults' = IF cancelled THEN faults ELSE faults + 1

\* FinalizeFromTickAsync and ExecuteAsync's handlers: a failure of a tick is retried
\* after the poll delay if a finished session is pending, and ends the worker if not.
Raise(cancelled) ==
    IF caller = "shutdown" THEN pc' = "down" /\ UNCHANGED caller
    ELSE IF pending # None /\ ~cancelled THEN pc' = "delay" /\ caller' = "tick"
    ELSE Shutdown

-----------------------------------------------------------------------------
(***************************************************************************)
(* The poll loop and the tick                                              *)
(***************************************************************************)

PollWithoutDrain ==
    /\ pc = "delay"
    /\ IF stopping THEN Shutdown ELSE pc' = "detect" /\ UNCHANGED caller
    /\ UNCHANGED <<clock, stopping, tick, coordinator, attempt, recorder, source, disk,
                   api, started, faults>>

\* The delay ends: the loop's condition, then a tick, which drains a pending session
\* before it looks at the foreground.
Poll ==
    /\ pc = "delay"
    /\ IF stopping THEN Shutdown
       ELSE IF pending # None THEN caller' = "drain" /\ pc' = FinishEntry
       ELSE pc' = "detect" /\ UNCHANGED caller
    /\ UNCHANGED <<clock, stopping, tick, coordinator, attempt, recorder, source, disk,
                   api, started, faults>>

GraceOver(at) == at - last >= GracePeriod

PausesAfterGrace == ~paused /\ GraceOver(clock)

PausesAgain == TRUE

PausesNow == ~paused

Lapse(at) ==
    IF GraceOver(at) THEN caller' = "grace" /\ pc' = "stop"
                     ELSE pc' = "delay" /\ UNCHANGED caller

\* TickAsync up to its next await.
DetectApproved ==
    /\ pc = "detect"
    /\ approved' = TRUE /\ last' = clock
    /\ \/ /\ active = None /\ started < MaxSessions
          /\ started' = started + 1
          /\ active' = Start(started + 1, clock)
          /\ pc' = "start" /\ UNCHANGED now
       \/ /\ active # None /\ paused /\ Len(active.events) < MaxEvents
          /\ pc' = "resume" /\ now' = clock
          /\ UNCHANGED <<active, started>>
       \/ /\ active # None /\ ~paused
          /\ pc' = "delay"
          /\ UNCHANGED <<active, started, now>>
    /\ UNCHANGED <<clock, caller, stopping, paused, pending, duration, package, attempt,
                   recorder, source, disk, api, faults>>

DetectOther ==
    /\ pc = "detect"
    /\ approved' = FALSE
    /\ \/ /\ active = None \/ last = None
          /\ pc' = "delay" /\ UNCHANGED <<caller, now>>
       \/ /\ active # None /\ last # None /\ PausesNow /\ Len(active.events) < MaxEvents
          /\ pc' = "pause" /\ now' = clock /\ UNCHANGED caller
       \/ /\ active # None /\ last # None /\ ~PausesNow
          /\ Lapse(clock) /\ UNCHANGED now
    /\ UNCHANGED <<clock, stopping, coordinator, attempt, recorder, source, disk, api,
                   started, faults>>

DetectorFails ==
    /\ pc = "detect" /\ Fails(FALSE) /\ Raise(FALSE)
    /\ UNCHANGED <<clock, stopping, tick, coordinator, attempt, recorder, source, disk,
                   api, started>>

RecorderStarts ==
    /\ pc = "start"
    /\ recorder' = "recording" /\ pc' = "delay"
    /\ UNCHANGED <<clock, caller, stopping, tick, coordinator, attempt, source, disk,
                   api, started, faults>>

RecorderResumes ==
    /\ pc = "resume"
    /\ recorder' = "recording" /\ pc' = "delay"
    /\ active' = WithEvent(active, "session_resumed", now)
    /\ paused' = FALSE /\ now' = None
    /\ UNCHANGED <<clock, caller, stopping, approved, last, pending, duration, package,
                   attempt, source, disk, api, started, faults>>

RecorderPauses ==
    /\ pc = "pause"
    /\ recorder' = "paused"
    /\ active' = WithEvent(active, "session_paused", now)
    /\ paused' = TRUE /\ now' = None
    /\ Lapse(now)
    /\ UNCHANGED <<clock, stopping, approved, last, pending, duration, package, attempt,
                   source, disk, api, started, faults>>

\* What a recorder call does, if it gets that far.
Effect ==
    [start |-> "recording", resume |-> "recording", pause |-> "paused", stop |-> "idle"]

RecorderFails(cancelled) ==
    /\ pc \in {"start", "resume", "pause", "stop"}
    /\ Fails(cancelled) /\ Raise(cancelled)
    /\ recorder' \in {recorder, Effect[pc]}
    /\ now' = None
    /\ UNCHANGED <<clock, stopping, approved, coordinator, attempt, source, disk, api,
                   started>>

-----------------------------------------------------------------------------
(***************************************************************************)
(* Finalisation: FinishActiveSessionAsync and WriteAsync                   *)
(***************************************************************************)

\* StopAsync returns the path of a recording, or null.
RecorderStops ==
    /\ pc = "stop"
    /\ recorder' = "idle"
    /\ source' \in Recordings \cup {Unusable, None}
    /\ pending' = Finish(active, clock)
    /\ duration' = CalculateActiveDuration(pending'.events)
    /\ package' = None /\ active' = None /\ last' = None /\ paused' = FALSE
    /\ pc' = "write"
    /\ UNCHANGED <<clock, caller, stopping, tick, attempt, disk, api, started, faults>>

NoAttempt == [staged |-> None, result |-> None, error |-> "none"]

OpenUnchecked ==
    /\ pc = "write"
    /\ attempt' = NoAttempt
    /\ pc' = IF source = None THEN "zip" ELSE "stage"
    /\ UNCHANGED <<clock, caller, stopping, tick, coordinator, recorder, source, disk,
                   api, started, faults>>

\* ValidateRecordingSourcePath, the opener and ValidateOpenedSource throw.
Refused == source = Unusable

\* WriteAsync up to its first await: the recording, if there is one, is validated and
\* opened; from here to the clean-up no writer can open it.
OpenSource ==
    /\ pc = "write"
    /\ attempt' = [NoAttempt EXCEPT !.error = IF Refused THEN "fault" ELSE "none"]
    /\ pc' = IF source = None THEN "zip" ELSE IF Refused THEN "clean" ELSE "stage"
    /\ UNCHANGED <<clock, caller, stopping, tick, coordinator, recorder, source, disk,
                   api, started, faults>>

\* StageRecordingAsync and DescribeStagedRecordingAsync.
StageRecording ==
    /\ pc = "stage"
    /\ attempt' = [attempt EXCEPT !.staged = source]
    /\ pc' = "zip"
    /\ UNCHANGED <<clock, caller, stopping, tick, coordinator, recorder, source, disk,
                   api, started, faults>>

MovedIfAbsent(p) == [disk EXCEPT ![p.session] = IF @ = None THEN p ELSE @]

\* File.Move with overwrite.
Moved(p) == [disk EXCEPT ![p.session] = p]

\* CreatePackageAsync into a file of this attempt only, then the move.
CreatePackage ==
    LET p == [session |-> pending.id, recording |-> attempt.staged]
    IN /\ pc = "zip"
       /\ disk' = Moved(p)
       /\ attempt' = [attempt EXCEPT !.result = p]
       /\ pc' = "clean"
       /\ UNCHANGED <<clock, caller, stopping, tick, coordinator, recorder, source, api,
                      started, faults>>

WriteFails(cancelled) ==
    /\ pc \in {"stage", "zip"}
    /\ Fails(cancelled)
    /\ attempt' = [attempt EXCEPT !.error = IF cancelled THEN "cancelled" ELSE "fault"]
    /\ pc' = "clean"
    /\ UNCHANGED <<clock, caller, stopping, tick, coordinator, recorder, source, disk,
                   api, started>>

\* The finally block.  A failure to clean up counts only if nothing failed before; then
\* the package is in place but its descriptor is lost.
CleanUp ==
    /\ pc = "clean"
    /\ attempt' = NoAttempt
    /\ \/ /\ attempt.error # "none"
          /\ Raise(attempt.error = "cancelled") /\ UNCHANGED package
       \/ /\ attempt.error = "none"
          /\ package' = attempt.result
          /\ pc' = "upload" /\ UNCHANGED caller
    /\ UNCHANGED <<clock, stopping, tick, active, last, paused, pending, duration,
                   recorder, source, disk, api, started, faults>>

CleanUpFails ==
    /\ pc = "clean" /\ attempt.error = "none"
    /\ Fails(FALSE) /\ Raise(FALSE)
    /\ attempt' = NoAttempt
    /\ UNCHANGED <<clock, stopping, tick, coordinator, recorder, source, disk, api, started>>

\* The API registers the first package of a session and answers 409 to any other request.
\* UploadAsync then reads the session back, which only a reviewer may (routes/sessions.py,
\* require_reviewer_read): that read is refused, whichever package is registered.
Registrable == registered[pending.id] = None

Registered == [registered EXCEPT ![pending.id] = package]

\* UploadAsync returns once the API has the file with the registered digest; a drain
\* goes on with its tick.
Upload ==
    /\ pc = "upload"
    /\ Registrable /\ disk[pending.id] = package
    /\ registered' = Registered
    /\ delivered' = delivered \cup {pending.id}
    /\ pending' = None /\ duration' = 0 /\ package' = None /\ source' = None
    /\ pc' = [drain |-> "detect", grace |-> "delay", shutdown |-> "down"][caller]
    /\ caller' = IF caller = "shutdown" THEN caller ELSE "tick"
    /\ UNCHANGED <<clock, stopping, tick, active, last, paused, attempt, recorder, disk,
                   started, faults>>

UploadFailsRebuilding(cancelled) ==
    /\ pc = "upload"
    /\ Fails(cancelled) /\ Raise(cancelled)
    /\ registered' \in {registered} \cup IF Registrable THEN {Registered} ELSE {}
    /\ package' = None
    /\ UNCHANGED <<clock, stopping, tick, active, last, paused, pending, duration,
                   attempt, recorder, source, disk, delivered, started>>

UploadFailsForgetting(cancelled) ==
    /\ pc = "upload"
    /\ Fails(cancelled) /\ Raise(cancelled)
    /\ pending' = None /\ duration' = 0 /\ package' = None
    /\ UNCHANGED <<clock, stopping, tick, active, last, paused, attempt, recorder,
                   source, disk, api, started>>

\* UploadAsync throws on the answer to ReconcileExistingRegistrationAsync's read.
UploadRefused ==
    /\ pc = "upload" /\ ~Registrable
    /\ Raise(FALSE)
    /\ UNCHANGED <<clock, stopping, tick, coordinator, attempt, recorder, source, disk,
                   api, started, faults>>

\* UploadAsync throws, before or after the registration took effect.
UploadFails(cancelled) ==
    /\ pc = "upload"
    /\ Fails(cancelled) /\ Raise(cancelled)
    /\ registered' \in {registered} \cup IF Registrable THEN {Registered} ELSE {}
    /\ UNCHANGED <<clock, stopping, tick, coordinator, attempt, recorder, source, disk,
                   delivered, started>>

-----------------------------------------------------------------------------
(***************************************************************************)
(* The environment                                                         *)
(***************************************************************************)

Stop ==
    /\ pc # "down" /\ ~stopping
    /\ stopping' = TRUE
    /\ UNCHANGED <<clock, pc, caller, tick, coordinator, attempt, recorder, source, disk,
                   api, started, faults>>

\* Everything but the files and the API's tables is lost.
Forget ==
    /\ stopping' = FALSE /\ approved' = FALSE /\ now' = None
    /\ active' = None /\ last' = None /\ paused' = FALSE
    /\ pending' = None /\ duration' = 0 /\ package' = None /\ source' = None
    /\ attempt' = NoAttempt /\ recorder' = "idle" /\ caller' = "tick"
    /\ UNCHANGED <<clock, disk, api, started>>

Crash == pc # "down" /\ Fails(FALSE) /\ Forget /\ pc' = "down"

\* A new process does not look at the packages on the disk.
Restart == pc = "down" /\ Forget /\ pc' = "detect" /\ UNCHANGED faults

\* The recording is repaired, replaced or removed while nobody holds it open.
ChangeSource ==
    /\ source # None /\ pc \notin {"stage", "zip", "clean", "down"}
    /\ Fails(FALSE)
    /\ source' \in (Recordings \cup {Unusable}) \ {source}
    /\ UNCHANGED <<clock, pc, caller, stopping, tick, coordinator, attempt, recorder, disk,
                   api, started>>

Tick ==
    /\ clock < MaxClock
    /\ clock' = clock + 1
    /\ UNCHANGED <<pc, caller, stopping, tick, coordinator, attempt, recorder, source, disk,
                   api, started, faults>>

-----------------------------------------------------------------------------
Init ==
    /\ clock = 0 /\ started = 0 /\ faults = 0
    /\ pc = "detect" /\ caller = "tick" /\ stopping = FALSE
    /\ approved = FALSE /\ now = None
    /\ active = None /\ last = None /\ paused = FALSE
    /\ pending = None /\ duration = 0 /\ package = None /\ attempt = NoAttempt
    /\ recorder = "idle" /\ source = None
    /\ disk = [s \in SessionIds |-> None]
    /\ registered = [s \in SessionIds |-> None] /\ delivered = {}

\* The steps the worker takes by itself when no fault occurs.
Proceed ==
    \/ Poll \/ DetectApproved \/ DetectOther
    \/ RecorderStarts \/ RecorderResumes \/ RecorderPauses \/ RecorderStops
    \/ OpenSource \/ StageRecording \/ CreatePackage \/ CleanUp
    \/ Upload \/ UploadRefused

Failure ==
    \/ DetectorFails \/ CleanUpFails
    \/ \E cancelled \in BOOLEAN :
         RecorderFails(cancelled) \/ WriteFails(cancelled) \/ UploadFails(cancelled)

Next == Proceed \/ Failure \/ Stop \/ Crash \/ Restart \/ ChangeSource \/ Tick

Spec == Init /\ [][Next]_vars

\* The event loop runs every continuation whose await has ended.
FairSpec == Spec /\ WF_vars(Proceed)

-----------------------------------------------------------------------------
(***************************************************************************)
(* Properties                                                              *)
(***************************************************************************)

\* Every variable stays in its type; in particular no unusable recording is staged.
TypeOK ==
    /\ clock \in Nat /\ {now, last} \subseteq Nat \cup {None}
    /\ started \in 0..MaxSessions /\ faults \in 0..MaxFaults
    /\ pc \in {"delay", "detect", "start", "resume", "pause", "stop", "write", "stage",
               "zip", "clean", "upload", "down"}
    /\ caller \in {"tick", "drain", "grace", "shutdown"}
    /\ stopping \in BOOLEAN /\ approved \in BOOLEAN /\ paused \in BOOLEAN
    /\ {active, pending} \subseteq Session \cup {None}
    /\ package \in Package \cup {None}
    /\ attempt \in [staged: Recordings \cup {None}, result: Package \cup {None},
                    error: {"none", "fault", "cancelled"}]
    /\ recorder \in {"idle", "recording", "paused"}
    /\ source \in Recordings \cup {Unusable, None}
    /\ disk \in [SessionIds -> Package \cup {None}]
    /\ registered \in [SessionIds -> Package \cup {None}]
    /\ delivered \subseteq SessionIds

\* What the recorder is supposed to be doing, as the coordinator remembers it.
Intended == IF active = None THEN "idle" ELSE IF paused THEN "paused" ELSE "recording"

\* Whenever the agent sleeps between two ticks the recorder does what the coordinator
\* remembers, and records only if the last look at the screen found an approved window;
\* nothing is recorded while a finished session waits for its upload.
RecorderFollows ==
    /\ pc = "delay" => recorder = Intended /\ (recorder = "recording" => approved)
    /\ pending # None => active = None /\ recorder = "idle"

\* Clock units at which an event log says that capture was active.
ActiveUnits(events) ==
    {t \in 0..MaxClock :
        \E i \in 1..(Len(events) - 1) :
            Activates(events[i]) /\ events[i].at <= t /\ t < events[i + 1].at}

Ordered(events) ==
    /\ \A i \in 1..(Len(events) - 1) : events[i].at <= events[i + 1].at
    /\ \A i \in 1..(Len(events) - 1) : Activates(events[i]) <=> i % 2 = 1

\* However pauses, resumptions, failures and retries follow each other, the event log of
\* a session alternates between activation and pause, in time and up to the present, the
\* coordinator knows which comes next, and a finished log ends once.
LogAlternates ==
    /\ active # None =>
         /\ Ordered(Append(active.events, [type |-> "session_ended", at |-> clock]))
         /\ paused <=> Len(active.events) % 2 = 0
    /\ pending # None =>
         /\ Ordered(pending.events)
         /\ \A i \in DOMAIN pending.events :
              pending.events[i].type = "session_ended" <=> i = Len(pending.events)

\* The active duration of a finished session is the time its log says capture was
\* active: pauses are left out, an end while active counts, nothing counts twice.
DurationIsActiveTime ==
    pending # None => duration = Cardinality(ActiveUnits(pending.events))

\* The cached descriptor is about the pending session and describes the file on disk,
\* although an earlier attempt may have left another package at the same path.
PackageMatches ==
    package # None => /\ pending # None /\ package.session = pending.id
                      /\ disk[pending.id] = package

\* If the API has registered the pending session, the coordinator still holds the very
\* package it registered: no failure after a registration makes it build another one.
\* (This says nothing of the answer: every retry after a registration is refused.)
RetryMatchesRegistration ==
    pending # None /\ registered[pending.id] # None =>
        package = registered[pending.id]

Owned == {s.id : s \in {active, pending} \ {None}}

\* A session once started leaves the agent only by a delivered upload or with the
\* process, and however often its finalisation is retried it is finished only once.
NoSessionDropped ==
    [][/\ \A s \in Owned : s \in Owned' \/ s \in delivered' \/ "down" \in {pc, pc'}
       /\ pending # None /\ pending' # None => pending' = pending]_vars

\* A finished session is delivered in the end, unless its recording cannot be used, the
\* process ends, or an attempt got as far as registering it and no further: from then on
\* every retry is refused.
PendingDrains ==
    pending # None ~>
        (pending = None \/ pc = "down" \/ source = Unusable \/ registered[pending.id] # None)

\* A stopped agent ends, whatever it was doing and whatever fails meanwhile.
StopEnds == stopping ~> pc = "down"

\* The agent gets rid of its work: it delivers what it can and ends when it is told to.
AgentFinishes == PendingDrains /\ StopEnds
=============================================================================
