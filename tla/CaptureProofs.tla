---------------------------- MODULE CaptureProofs ----------------------------
(***************************************************************************)
(* Proofs about CaptureAgent for any number of sessions, events, failures  *)
(* and clock values: the recorder, the package and the event log, and that *)
(* the pass over the log adds up exactly the time the session was active.  *)
(***************************************************************************)
EXTENDS CaptureAgent, FiniteSetTheorems, WellFoundedInduction, TLAPS

-----------------------------------------------------------------------------
(***************************************************************************)
(* The inductive invariant                                                 *)
(***************************************************************************)

\* What the coordinator's fields are at every await.
Control ==
    /\ pc \in {"delay", "detect", "start", "resume", "pause"} => caller = "tick"
    /\ pc \in {"stop", "write", "stage", "zip", "clean", "upload"} => caller # "tick"
    /\ pc \in {"detect", "start", "resume", "pause", "stop"} => pending = None
    /\ pc \in {"start", "resume", "pause", "stop"} => active # None
    /\ pc \in {"resume", "pause"} => now \in Nat
    /\ pc \in {"write", "stage", "zip", "clean"} => pending # None /\ package = None
    /\ pc = "upload" => pending # None /\ package # None
    /\ active # None => last # None
    /\ active = None \/ pc = "start" => ~paused
    /\ source = Unusable => pc \notin {"stage", "zip"}

\* The recorder does what the coordinator remembers between two calls.
RecorderOK ==
    /\ pc \in {"delay", "detect"} => recorder = Intended
    /\ pc \in {"start", "resume"} => approved
    /\ pc = "delay" /\ recorder = "recording" => approved
    /\ pending # None => active = None /\ recorder = "idle"

\* An attempt that has a result has put it on the disk.
AttemptOK ==
    /\ pc \in {"stage", "zip"} => attempt.result = None /\ attempt.error = "none"
    /\ pc = "clean" /\ attempt.error = "none" => attempt.result # None
    /\ pc = "clean" /\ attempt.result # None =>
         attempt.result.session = pending.id /\ disk[pending.id] = attempt.result

\* The API knows only sessions that were started, and none that is still active.
Known ==
    /\ active # None => active.id <= started /\ registered[active.id] = None
    /\ pending # None => pending.id <= started
    /\ \A s \in SessionIds : s > started => registered[s] = None

IInv ==
    /\ TypeOK /\ Control /\ RecorderOK /\ AttemptOK
    /\ PackageMatches /\ Known /\ RetryMatchesRegistration

-----------------------------------------------------------------------------
(***************************************************************************)
(* Where a failure leads                                                   *)
(***************************************************************************)

\* The awaits at which finalisation is entered or left.
Landing ==
    \/ pc' = "down" /\ caller' \in {"tick", "drain", "grace", "shutdown"}
    \/ pc' = "delay" /\ caller' = "tick" /\ pending # None
    \/ caller' = "shutdown" /\ pc' = "stop" /\ pending = None /\ active # None
    \/ caller' = "shutdown" /\ pc' = "write" /\ pending # None /\ package = None
    \/ caller' = "shutdown" /\ pc' = "upload" /\ pending # None /\ package # None

LEMMA ShutdownLands ==
    ASSUME Shutdown
    PROVE  Landing /\ caller' = "shutdown"
BY DEF Shutdown, FinishEntry, Landing

LEMMA RaiseLands ==
    ASSUME NEW cancelled, Raise(cancelled), TypeOK
    PROVE  Landing
<1>1. CASE caller = "shutdown"
  BY <1>1 DEF Raise, Landing
<1>2. CASE caller # "shutdown" /\ pending # None /\ ~cancelled
  BY <1>2 DEF Raise, Landing
<1>3. CASE caller # "shutdown" /\ ~(pending # None /\ ~cancelled)
  BY <1>3, ShutdownLands DEF Raise
<1>4. QED
  BY <1>1, <1>2, <1>3

\* A failure that leaves the coordinator and the files alone keeps the invariant.
LEMMA LandingKeeps ==
    ASSUME IInv, Landing, UNCHANGED <<clock, stopping, approved, coordinator, source, disk,
                                      api, started>>,
           now' \in Nat \cup {None}, faults' \in 0..MaxFaults,
           attempt' \in [staged: Recordings \cup {None}, result: Package \cup {None},
                         error: {"none", "fault", "cancelled"}],
           recorder' \in {"idle", "recording", "paused"},
           pending # None => recorder' = recorder
    PROVE  IInv'
<1>1. TypeOK'
  BY DEF IInv, TypeOK, Landing, coordinator, api
<1>2. Control'
  BY DEF IInv, Control, Landing, coordinator
<1>3. RecorderOK'
  BY DEF IInv, RecorderOK, Landing, coordinator, Intended
<1>4. AttemptOK'
  BY DEF AttemptOK, Landing
<1>5. PackageMatches' /\ Known' /\ RetryMatchesRegistration'
  BY DEF IInv, PackageMatches, Known, RetryMatchesRegistration, coordinator, api
<1>6. QED
  BY <1>1, <1>2, <1>3, <1>4, <1>5 DEF IInv

\* A failure is counted.
LEMMA FailsCounted ==
    ASSUME TypeOK, NEW cancelled, Fails(cancelled)
    PROVE  faults' \in 0..MaxFaults
BY AgentAssumption DEF TypeOK, Fails

LEMMA NoAttemptType ==
    NoAttempt \in [staged: Recordings \cup {None}, result: Package \cup {None},
                   error: {"none", "fault", "cancelled"}]
BY DEF NoAttempt

LEMMA FailureKeeps ==
    ASSUME IInv, Failure
    PROVE  IInv'
<1>0. TypeOK /\ now \in Nat \cup {None}
      /\ attempt \in [staged: Recordings \cup {None}, result: Package \cup {None},
                      error: {"none", "fault", "cancelled"}]
      /\ recorder \in {"idle", "recording", "paused"}
  BY DEF IInv, TypeOK
<1>1. CASE DetectorFails
  <2>1. Landing /\ faults' \in 0..MaxFaults
    BY <1>0, <1>1, RaiseLands, FailsCounted DEF DetectorFails
  <2>2. QED
    BY <1>0, <1>1, <2>1, LandingKeeps DEF DetectorFails, tick
<1>2. CASE CleanUpFails
  <2>1. Landing /\ faults' \in 0..MaxFaults
    BY <1>0, <1>2, RaiseLands, FailsCounted DEF CleanUpFails
  <2>2. QED
    BY <1>0, <1>2, <2>1, LandingKeeps, NoAttemptType DEF CleanUpFails, tick
<1>3. ASSUME NEW cancelled \in BOOLEAN, RecorderFails(cancelled) PROVE IInv'
  <2>1. Landing /\ faults' \in 0..MaxFaults
    BY <1>0, <1>3, RaiseLands, FailsCounted DEF RecorderFails
  <2>2. pending = None
    BY <1>3 DEF RecorderFails, IInv, Control
  <2>3. recorder' \in {"idle", "recording", "paused"}
    BY <1>0, <1>3 DEF RecorderFails, Effect
  <2>4. QED
    BY <1>0, <1>3, <2>1, <2>2, <2>3, LandingKeeps DEF RecorderFails
<1>4. ASSUME NEW cancelled \in BOOLEAN, WriteFails(cancelled) PROVE IInv'
  <2>1. faults' \in 0..MaxFaults
    BY <1>0, <1>4, FailsCounted DEF WriteFails
  <2>2. /\ attempt' \in [staged: Recordings \cup {None}, result: Package \cup {None},
                         error: {"none", "fault", "cancelled"}]
        /\ attempt'.result = None /\ attempt'.error # "none"
    BY <1>0, <1>4 DEF WriteFails, IInv, AttemptOK
  <2>3. TypeOK'
    BY <1>4, <2>1, <2>2 DEF WriteFails, IInv, TypeOK, tick, coordinator, api
  <2>4. Control' /\ RecorderOK'
    BY <1>4 DEF WriteFails, IInv, Control, RecorderOK, Intended, tick, coordinator
  <2>5. AttemptOK'
    BY <1>4, <2>2 DEF WriteFails, AttemptOK
  <2>6. PackageMatches' /\ Known' /\ RetryMatchesRegistration'
    BY <1>4 DEF WriteFails, IInv, PackageMatches, Known, RetryMatchesRegistration, coordinator, api
  <2>7. QED
    BY <2>3, <2>4, <2>5, <2>6 DEF IInv
<1>5. ASSUME NEW cancelled \in BOOLEAN, UploadFails(cancelled) PROVE IInv'
  <2>1. Landing /\ faults' \in 0..MaxFaults
    BY <1>0, <1>5, RaiseLands, FailsCounted DEF UploadFails
  <2>2. /\ pending # None /\ package # None /\ pending.id \in SessionIds
        /\ pending.id <= started /\ package \in Package
        /\ started \in Nat /\ registered \in [SessionIds -> Package \cup {None}]
    BY <1>5, AgentAssumption DEF UploadFails, IInv, TypeOK, Control, Known, Session
  <2>3. registered' = registered \/ registered' = [registered EXCEPT ![pending.id] = package]
    BY <1>5 DEF UploadFails, Registered
  <2>4. TypeOK'
    BY <1>0, <1>5, <2>1, <2>2, <2>3 DEF UploadFails, TypeOK, Landing, tick, coordinator
  <2>5. Control' /\ RecorderOK'
    BY <1>5, <2>1, <2>2
       DEF UploadFails, IInv, Control, RecorderOK, Intended, Landing, tick, coordinator
  <2>6. AttemptOK' /\ PackageMatches'
    BY <1>5, <2>1 DEF UploadFails, IInv, AttemptOK, PackageMatches, Landing, coordinator
  <2>7. active = None
    BY <2>2 DEF IInv, RecorderOK
  <2>8. Known'
    <3>1. \A s \in SessionIds : s > started => registered'[s] = None
      <4>1. ASSUME NEW s \in SessionIds, s > started
            PROVE  s # pending.id /\ registered[s] = None
        BY <2>2, <4>1, AgentAssumption DEF IInv, Known, SessionIds
      <4>2. QED
        BY <2>2, <2>3, <4>1
    <3>2. QED
      BY <1>5, <2>7, <3>1 DEF UploadFails, IInv, Known, coordinator
  <2>9. RetryMatchesRegistration'
    BY <1>5, <2>2, <2>3 DEF UploadFails, IInv, RetryMatchesRegistration, coordinator
  <2>10. QED
    BY <2>4, <2>5, <2>6, <2>8, <2>9 DEF IInv
<1>6. QED
  BY <1>1, <1>2, <1>3, <1>4, <1>5 DEF Failure

-----------------------------------------------------------------------------
(***************************************************************************)
(* The steps of a tick                                                     *)
(***************************************************************************)

\* The parts of the invariant that the package, the disk and the API decide.
LEMMA PackagesUntouched ==
    ASSUME IInv, UNCHANGED <<pending, package, disk, registered, started>>,
           active' = active \/ active' = None
             \/ (active # None /\ active' # None /\ active'.id = active.id)
    PROVE  PackageMatches' /\ Known' /\ RetryMatchesRegistration'
BY DEF IInv, PackageMatches, Known, RetryMatchesRegistration

LEMMA SessionTypes ==
    ASSUME NEW session \in Session, NEW type \in EventTypes, NEW at \in Nat
    PROVE  /\ WithEvent(session, type, at) \in Session
           /\ WithEvent(session, type, at).id = session.id
           /\ WithEvent(session, type, at) # None
<1>1. [type |-> type, at |-> at] \in CadEvent
  BY DEF CadEvent
<1>2. Append(session.events, [type |-> type, at |-> at]) \in Seq(CadEvent)
  BY <1>1 DEF Session
<1>3. WithEvent(session, type, at) \in Session /\ WithEvent(session, type, at).id = session.id
  BY <1>2 DEF WithEvent, Session
<1>4. QED
  BY <1>3, NoneAssumption

LEMMA StartType ==
    ASSUME NEW id \in SessionIds, NEW at \in Nat
    PROVE  Start(id, at) \in Session /\ Start(id, at).id = id /\ Start(id, at) # None
<1>1. [type |-> "session_started", at |-> at] \in CadEvent
  BY DEF CadEvent, EventTypes
<1>2. <<[type |-> "session_started", at |-> at]>> \in Seq(CadEvent)
  BY <1>1
<1>3. Start(id, at) \in Session /\ Start(id, at).id = id
  BY <1>2 DEF Start, Session
<1>4. QED
  BY <1>3, NoneAssumption

LEMMA PollKeeps ==
    ASSUME IInv, Poll
    PROVE  IInv'
<1>0. caller = "tick" /\ pc = "delay"
  BY DEF Poll, IInv, Control
<1>1. CASE stopping
  <2>1. Landing
    BY <1>1, ShutdownLands DEF Poll
  <2>2. QED
    BY <2>1, LandingKeeps DEF Poll, tick, IInv, TypeOK
<1>2. CASE ~stopping
  <2>1. \/ /\ pending # None /\ caller' = "drain"
           /\ \/ pc' = "write" /\ package = None
              \/ pc' = "upload" /\ package # None
        \/ pending = None /\ pc' = "detect" /\ caller' = "tick"
    BY <1>0, <1>2 DEF Poll, FinishEntry
  <2>2. TypeOK'
    BY <2>1 DEF Poll, IInv, TypeOK, tick, coordinator, api
  <2>3. Control'
    BY <1>0, <2>1 DEF Poll, IInv, Control, tick, coordinator
  <2>4. RecorderOK' /\ AttemptOK'
    BY <1>0, <2>1 DEF Poll, IInv, RecorderOK, AttemptOK, Intended, tick, coordinator
  <2>5. PackageMatches' /\ Known' /\ RetryMatchesRegistration'
    BY PackagesUntouched DEF Poll, coordinator, api
  <2>6. QED
    BY <2>2, <2>3, <2>4, <2>5 DEF IInv
<1>3. QED
  BY <1>1, <1>2

LEMMA DetectApprovedKeeps ==
    ASSUME IInv, DetectApproved
    PROVE  IInv'
<1>0. /\ caller = "tick" /\ pending = None /\ clock \in Nat /\ recorder = Intended
      /\ TypeOK /\ started \in Nat /\ clock # None
  BY AgentAssumption, NoneAssumption
     DEF DetectApproved, IInv, TypeOK, Control, RecorderOK
<1>1. ASSUME active = None, started < MaxSessions, started' = started + 1,
             active' = Start(started + 1, clock), pc' = "start", UNCHANGED now
      PROVE  IInv'
  <2>1. started + 1 \in SessionIds
    BY <1>0, <1>1, AgentAssumption DEF SessionIds
  <2>2. active' \in Session /\ active'.id = started + 1 /\ active' # None
    BY <1>0, <1>1, <2>1, StartType
  <2>3. TypeOK'
    BY <1>0, <1>1, <2>2, AgentAssumption DEF DetectApproved, TypeOK, api
  <2>4. Control' /\ RecorderOK' /\ AttemptOK'
    BY <1>0, <1>1, <2>2 DEF DetectApproved, IInv, Control, RecorderOK, AttemptOK
  <2>5. PackageMatches' /\ RetryMatchesRegistration'
    BY <1>0 DEF DetectApproved, IInv, PackageMatches, RetryMatchesRegistration, api
  <2>6. registered[started + 1] = None
    BY <1>0, <2>1 DEF IInv, Known
  <2>7. \A s \in SessionIds : s > started + 1 => registered[s] = None
    BY <1>0, AgentAssumption DEF IInv, Known, SessionIds
  <2>8. Known'
    BY <1>0, <1>1, <2>2, <2>6, <2>7 DEF DetectApproved, Known, api
  <2>9. QED
    BY <2>3, <2>4, <2>5, <2>8 DEF IInv
<1>2. ASSUME active # None, paused, pc' = "resume", now' = clock, UNCHANGED <<active, started>>
      PROVE  IInv'
  <2>1. TypeOK'
    BY <1>0, <1>2 DEF DetectApproved, TypeOK, api
  <2>2. Control' /\ RecorderOK' /\ AttemptOK'
    BY <1>0, <1>2 DEF DetectApproved, IInv, Control, RecorderOK, AttemptOK
  <2>3. PackageMatches' /\ Known' /\ RetryMatchesRegistration'
    BY <1>2, PackagesUntouched DEF DetectApproved, api
  <2>4. QED
    BY <2>1, <2>2, <2>3 DEF IInv
<1>3. ASSUME active # None, ~paused, pc' = "delay", UNCHANGED <<active, started, now>>
      PROVE  IInv'
  <2>1. TypeOK'
    BY <1>0, <1>3 DEF DetectApproved, TypeOK, api
  <2>2. Control' /\ RecorderOK' /\ AttemptOK'
    BY <1>0, <1>3 DEF DetectApproved, IInv, Control, RecorderOK, AttemptOK, Intended
  <2>3. PackageMatches' /\ Known' /\ RetryMatchesRegistration'
    BY <1>3, PackagesUntouched DEF DetectApproved, api
  <2>4. QED
    BY <2>1, <2>2, <2>3 DEF IInv
<1>4. QED
  BY <1>1, <1>2, <1>3 DEF DetectApproved

LEMMA DetectOtherKeeps ==
    ASSUME IInv, DetectOther
    PROVE  IInv'
<1>0. /\ caller = "tick" /\ pending = None /\ clock \in Nat /\ recorder = Intended
      /\ TypeOK /\ (active # None => last # None)
  BY DEF DetectOther, IInv, TypeOK, Control, RecorderOK
<1>1. \/ active = None /\ pc' = "delay" /\ caller' = caller /\ now' = now
      \/ active # None /\ pc' = "pause" /\ now' = clock /\ caller' = caller
      \/ /\ active # None /\ paused /\ now' = now
         /\ \/ pc' = "stop" /\ caller' = "grace"
            \/ pc' = "delay" /\ caller' = caller
  BY <1>0 DEF DetectOther, PausesNow, Lapse
<1>a. /\ pc' \in {"delay", "pause", "stop"} /\ caller' \in {"tick", "grace"}
      /\ now' \in Nat \cup {None}
  BY <1>0, <1>1 DEF TypeOK
<1>b. approved' \in BOOLEAN /\ UNCHANGED <<stopping, paused>>
  BY DEF DetectOther, coordinator
<1>2. TypeOK'
  BY <1>0, <1>a, <1>b DEF DetectOther, TypeOK, coordinator, api
<1>3. Control' /\ RecorderOK' /\ AttemptOK'
  BY <1>0, <1>1 DEF DetectOther, IInv, Control, RecorderOK, AttemptOK, Intended, coordinator
<1>4. PackageMatches' /\ Known' /\ RetryMatchesRegistration'
  BY PackagesUntouched DEF DetectOther, coordinator, api
<1>5. QED
  BY <1>2, <1>3, <1>4 DEF IInv

LEMMA RecorderKeeps ==
    ASSUME IInv, RecorderStarts \/ RecorderResumes \/ RecorderPauses
    PROVE  IInv'
<1>0. TypeOK /\ active # None /\ pending = None /\ caller = "tick" /\ active \in Session
  BY DEF RecorderStarts, RecorderResumes, RecorderPauses, IInv, TypeOK, Control
<1>1. CASE RecorderStarts
  <2>1. TypeOK'
    BY <1>0, <1>1 DEF RecorderStarts, TypeOK, tick, coordinator, api
  <2>2. Control' /\ RecorderOK' /\ AttemptOK'
    BY <1>0, <1>1
       DEF RecorderStarts, IInv, Control, RecorderOK, AttemptOK, Intended, tick, coordinator
  <2>3. PackageMatches' /\ Known' /\ RetryMatchesRegistration'
    BY <1>1, PackagesUntouched DEF RecorderStarts, coordinator, api
  <2>4. QED
    BY <2>1, <2>2, <2>3 DEF IInv
<1>2. CASE RecorderResumes
  <2>1. now \in Nat
    BY <1>2 DEF RecorderResumes, IInv, Control
  <2>2. active' \in Session /\ active'.id = active.id /\ active' # None
    BY <1>0, <1>2, <2>1, SessionTypes DEF RecorderResumes, EventTypes
  <2>3. TypeOK'
    BY <1>0, <1>2, <2>2 DEF RecorderResumes, TypeOK, api
  <2>4. Control' /\ RecorderOK' /\ AttemptOK'
    BY <1>0, <1>2, <2>2
       DEF RecorderResumes, IInv, Control, RecorderOK, AttemptOK, Intended
  <2>5. PackageMatches' /\ Known' /\ RetryMatchesRegistration'
    BY <1>0, <1>2, <2>2, PackagesUntouched DEF RecorderResumes, api
  <2>6. QED
    BY <2>3, <2>4, <2>5 DEF IInv
<1>3. CASE RecorderPauses
  <2>1. now \in Nat
    BY <1>3 DEF RecorderPauses, IInv, Control
  <2>2. active' \in Session /\ active'.id = active.id /\ active' # None
    BY <1>0, <1>3, <2>1, SessionTypes DEF RecorderPauses, EventTypes
  <2>3. \/ pc' = "stop" /\ caller' = "grace"
        \/ pc' = "delay" /\ caller' = caller
    BY <1>3 DEF RecorderPauses, Lapse
  <2>4. TypeOK'
    BY <1>0, <1>3, <2>2, <2>3 DEF RecorderPauses, TypeOK, api
  <2>5. Control' /\ RecorderOK' /\ AttemptOK'
    BY <1>0, <1>3, <2>2, <2>3
       DEF RecorderPauses, IInv, Control, RecorderOK, AttemptOK, Intended
  <2>6. PackageMatches' /\ Known' /\ RetryMatchesRegistration'
    BY <1>0, <1>3, <2>2, PackagesUntouched DEF RecorderPauses, api
  <2>7. QED
    BY <2>4, <2>5, <2>6 DEF IInv
<1>4. QED
  BY <1>1, <1>2, <1>3

-----------------------------------------------------------------------------
(***************************************************************************)
(* Finalisation                                                            *)
(***************************************************************************)

LEMMA RecorderStopsKeeps ==
    ASSUME IInv, RecorderStops
    PROVE  IInv'
<1>0. /\ TypeOK /\ active # None /\ pending = None /\ active \in Session /\ clock \in Nat
      /\ caller # "tick" /\ active.id <= started /\ registered[active.id] = None
  BY DEF RecorderStops, IInv, TypeOK, Control, Known
<1>1. pending' \in Session /\ pending'.id = active.id /\ pending' # None
  BY <1>0, SessionTypes DEF RecorderStops, Finish, EventTypes
<1>2. TypeOK'
  BY <1>0, <1>1 DEF RecorderStops, TypeOK, tick, api
<1>3. Control' /\ RecorderOK' /\ AttemptOK'
  BY <1>0, <1>1 DEF RecorderStops, Control, RecorderOK, AttemptOK
<1>4. PackageMatches'
  BY DEF RecorderStops, PackageMatches
<1>5. Known' /\ RetryMatchesRegistration'
  BY <1>0, <1>1 DEF RecorderStops, IInv, Known, RetryMatchesRegistration, api
<1>6. QED
  BY <1>2, <1>3, <1>4, <1>5 DEF IInv

LEMMA WriteKeeps ==
    ASSUME IInv, OpenSource \/ StageRecording \/ CreatePackage
    PROVE  IInv'
<1>0. /\ TypeOK /\ pending # None /\ package = None /\ caller # "tick"
      /\ pending \in Session /\ pending.id \in SessionIds
  BY DEF OpenSource, Refused, StageRecording, CreatePackage, IInv, TypeOK, Control, Session
<1>1. CASE OpenSource
  <2>1. /\ attempt' \in [staged: Recordings \cup {None}, result: Package \cup {None},
                         error: {"none", "fault", "cancelled"}]
        /\ attempt'.result = None
        /\ pc' \in {"zip", "stage"} => attempt'.error = "none" /\ source # Unusable
        /\ pc' = "clean" => attempt'.error = "fault"
        /\ pc' \in {"zip", "stage", "clean"}
    BY <1>1, AgentAssumption DEF OpenSource, Refused, NoAttempt
  <2>2. TypeOK'
    BY <1>0, <1>1, <2>1 DEF OpenSource, Refused, TypeOK, tick, coordinator, api
  <2>3. Control' /\ RecorderOK' /\ AttemptOK'
    BY <1>0, <1>1, <2>1
       DEF OpenSource, Refused, IInv, Control, RecorderOK, AttemptOK, tick, coordinator
  <2>4. PackageMatches' /\ Known' /\ RetryMatchesRegistration'
    BY <1>1, PackagesUntouched DEF OpenSource, Refused, coordinator, api
  <2>5. QED
    BY <2>2, <2>3, <2>4 DEF IInv
<1>2. CASE StageRecording
  <2>1. source \in Recordings \cup {None}
    BY <1>0, <1>2 DEF StageRecording, TypeOK, IInv, Control
  <2>2. /\ attempt' \in [staged: Recordings \cup {None}, result: Package \cup {None},
                         error: {"none", "fault", "cancelled"}]
        /\ attempt'.result = None /\ attempt'.error = "none"
    BY <1>0, <1>2, <2>1 DEF StageRecording, TypeOK, IInv, AttemptOK
  <2>3. TypeOK'
    BY <1>0, <1>2, <2>2 DEF StageRecording, TypeOK, tick, coordinator, api
  <2>4. Control' /\ RecorderOK' /\ AttemptOK'
    BY <1>0, <1>2, <2>2
       DEF StageRecording, IInv, Control, RecorderOK, AttemptOK, tick, coordinator
  <2>5. PackageMatches' /\ Known' /\ RetryMatchesRegistration'
    BY <1>2, PackagesUntouched DEF StageRecording, coordinator, api
  <2>6. QED
    BY <2>3, <2>4, <2>5 DEF IInv
<1>3. CASE CreatePackage
  <2> DEFINE p == [session |-> pending.id, recording |-> attempt.staged]
  <2>1. p \in Package /\ p # None /\ p.session = pending.id
    BY <1>0, NoneAssumption DEF TypeOK, Package
  <2>2. /\ disk' = [disk EXCEPT ![pending.id] = p]
        /\ attempt' = [attempt EXCEPT !.result = p] /\ pc' = "clean"
    BY <1>3 DEF CreatePackage, Moved
  <2>3. /\ attempt' \in [staged: Recordings \cup {None}, result: Package \cup {None},
                         error: {"none", "fault", "cancelled"}]
        /\ attempt'.result = p
    BY <1>0, <2>1, <2>2 DEF TypeOK
  <2>4. disk' \in [SessionIds -> Package \cup {None}] /\ disk'[pending.id] = p
    BY <1>0, <2>1, <2>2 DEF TypeOK
  <2>5. TypeOK'
    BY <1>0, <1>3, <2>2, <2>3, <2>4 DEF CreatePackage, TypeOK, tick, coordinator, api
  <2>6. Control' /\ RecorderOK'
    BY <1>0, <1>3, <2>2
       DEF CreatePackage, IInv, Control, RecorderOK, tick, coordinator
  <2>7. AttemptOK'
    BY <1>3, <2>1, <2>2, <2>3, <2>4 DEF CreatePackage, AttemptOK, coordinator
  <2>8. PackageMatches' /\ Known' /\ RetryMatchesRegistration'
    BY <1>0, <1>3
       DEF CreatePackage, IInv, PackageMatches, Known, RetryMatchesRegistration, coordinator, api
  <2>9. QED
    BY <2>5, <2>6, <2>7, <2>8 DEF IInv
<1>4. QED
  BY <1>1, <1>2, <1>3

LEMMA CleanUpKeeps ==
    ASSUME IInv, CleanUp
    PROVE  IInv'
<1>0. TypeOK /\ pending # None /\ package = None /\ caller # "tick" /\ active = None
  BY DEF CleanUp, IInv, Control, RecorderOK
<1>1. CASE attempt.error # "none"
  <2>1. Landing
    BY <1>0, <1>1, RaiseLands DEF CleanUp
  <2>2. UNCHANGED coordinator
    BY <1>1 DEF CleanUp, coordinator
  <2>3. QED
    BY <1>0, <2>1, <2>2, LandingKeeps, NoAttemptType DEF CleanUp, tick, TypeOK
<1>2. CASE attempt.error = "none"
  <2>1. /\ package' = attempt.result /\ attempt.result # None
        /\ attempt.result.session = pending.id /\ disk[pending.id] = attempt.result
        /\ pc' = "upload" /\ caller' = caller /\ attempt' = NoAttempt
    BY <1>2 DEF CleanUp, IInv, AttemptOK
  <2>2. package' \in Package
    BY <1>0, <2>1 DEF TypeOK
  <2>3. TypeOK'
    BY <1>0, <2>1, <2>2, NoAttemptType DEF CleanUp, TypeOK, tick, api
  <2>4. Control' /\ RecorderOK' /\ AttemptOK'
    BY <1>0, <2>1 DEF CleanUp, IInv, Control, RecorderOK, AttemptOK, tick
  <2>5. PackageMatches'
    BY <1>0, <2>1 DEF CleanUp, PackageMatches
  <2>6. registered[pending.id] = None
    BY <1>0 DEF IInv, RetryMatchesRegistration
  <2>7. Known' /\ RetryMatchesRegistration'
    BY <1>0, <2>6 DEF CleanUp, IInv, Known, RetryMatchesRegistration, api
  <2>8. QED
    BY <2>3, <2>4, <2>5, <2>7 DEF IInv
<1>3. QED
  BY <1>1, <1>2

LEMMA UploadKeeps ==
    ASSUME IInv, Upload
    PROVE  IInv'
<1>0. /\ TypeOK /\ pending # None /\ package # None /\ active = None /\ recorder = "idle"
      /\ package \in Package /\ pending.id \in SessionIds /\ pending.id <= started
      /\ started \in Nat /\ caller \in {"drain", "grace", "shutdown"} /\ ~paused
  BY AgentAssumption DEF Upload, IInv, TypeOK, Control, RecorderOK, Known, Session
<1>1. \/ pc' = "detect" /\ caller' = "tick"
      \/ pc' = "delay" /\ caller' = "tick"
      \/ pc' = "down" /\ caller' = "shutdown"
  BY <1>0 DEF Upload
<1>2. registered' = [registered EXCEPT ![pending.id] = package]
  BY DEF Upload, Registered
<1>3. TypeOK'
  BY <1>0, <1>1, <1>2 DEF Upload, TypeOK, tick
<1>4. Control' /\ RecorderOK' /\ AttemptOK'
  BY <1>0, <1>1, AgentAssumption
     DEF Upload, Control, RecorderOK, AttemptOK, Intended, tick
<1>5. PackageMatches' /\ RetryMatchesRegistration'
  BY DEF Upload, PackageMatches, RetryMatchesRegistration
<1>6. Known'
  <2>1. ASSUME NEW s \in SessionIds, s > started PROVE registered'[s] = None
    <3>1. s # pending.id /\ registered[s] = None
      BY <1>0, <2>1, AgentAssumption DEF IInv, Known, SessionIds
    <3>2. QED
      BY <1>0, <1>2, <3>1 DEF TypeOK
  <2>2. QED
    BY <1>0, <2>1 DEF Upload, Known
<1>7. QED
  BY <1>3, <1>4, <1>5, <1>6 DEF IInv

\* A refused upload changes nothing but where control goes.
LEMMA UploadRefusedKeeps ==
    ASSUME IInv, UploadRefused
    PROVE  IInv'
<1>0. /\ TypeOK /\ now \in Nat \cup {None} /\ faults \in 0..MaxFaults
      /\ attempt \in [staged: Recordings \cup {None}, result: Package \cup {None},
                      error: {"none", "fault", "cancelled"}]
      /\ recorder \in {"idle", "recording", "paused"}
  BY DEF IInv, TypeOK
<1>1. Landing
  BY <1>0, RaiseLands DEF UploadRefused
<1>2. QED
  BY <1>0, <1>1, LandingKeeps DEF UploadRefused, tick

-----------------------------------------------------------------------------
(***************************************************************************)
(* The environment, and the induction                                      *)
(***************************************************************************)

LEMMA ForgetKeeps ==
    ASSUME IInv, Forget, pc' \in {"down", "detect"}, faults' \in 0..MaxFaults
    PROVE  IInv'
<1>1. TypeOK'
  BY NoAttemptType DEF Forget, IInv, TypeOK, api
<1>2. Control' /\ RecorderOK' /\ AttemptOK'
  BY AgentAssumption DEF Forget, Control, RecorderOK, AttemptOK, Intended
<1>3. PackageMatches' /\ Known' /\ RetryMatchesRegistration'
  BY DEF Forget, IInv, PackageMatches, Known, RetryMatchesRegistration, api
<1>4. QED
  BY <1>1, <1>2, <1>3 DEF IInv

LEMMA EnvironmentKeeps ==
    ASSUME IInv, Stop \/ Crash \/ Restart \/ ChangeSource \/ Tick \/ UNCHANGED vars
    PROVE  IInv'
<1>0. TypeOK
  BY DEF IInv
<1>1. CASE Crash
  BY <1>0, <1>1, ForgetKeeps, FailsCounted DEF Crash
<1>2. CASE Restart
  BY <1>0, <1>2, ForgetKeeps DEF Restart, TypeOK
<1>3. CASE Stop \/ Tick \/ UNCHANGED vars
  <2>1. /\ UNCHANGED <<pc, caller, tick, coordinator, attempt, recorder, source, disk,
                       api, started, faults>>
        /\ clock' \in Nat /\ stopping' \in BOOLEAN
    <3>1. CASE Stop
      BY <1>0, <3>1 DEF Stop, TypeOK
    <3>2. CASE Tick
      BY <1>0, <3>2 DEF Tick, TypeOK
    <3>3. CASE UNCHANGED vars
      BY <1>0, <3>3 DEF vars, TypeOK
    <3>4. QED
      BY <1>3, <3>1, <3>2, <3>3
  <2>2. TypeOK'
    BY <1>0, <2>1 DEF TypeOK, tick, coordinator, api
  <2>3. Control' /\ RecorderOK' /\ AttemptOK'
    BY <2>1 DEF IInv, Control, RecorderOK, AttemptOK, Intended, tick, coordinator
  <2>4. PackageMatches' /\ Known' /\ RetryMatchesRegistration'
    BY <2>1, PackagesUntouched DEF coordinator, api
  <2>5. QED
    BY <2>2, <2>3, <2>4 DEF IInv
<1>4. CASE ChangeSource
  <2>1. faults' \in 0..MaxFaults /\ source' \in Recordings \cup {Unusable}
    BY <1>0, <1>4, FailsCounted DEF ChangeSource
  <2>2. TypeOK'
    BY <1>0, <1>4, <2>1 DEF ChangeSource, TypeOK, tick, coordinator, api
  <2>3. Control' /\ RecorderOK' /\ AttemptOK'
    BY <1>4
       DEF ChangeSource, IInv, Control, RecorderOK, AttemptOK, Intended, tick, coordinator
  <2>4. PackageMatches' /\ Known' /\ RetryMatchesRegistration'
    BY <1>4, PackagesUntouched DEF ChangeSource, coordinator, api
  <2>5. QED
    BY <2>2, <2>3, <2>4 DEF IInv
<1>5. QED
  BY <1>1, <1>2, <1>3, <1>4

LEMMA InitIInv ==
    ASSUME Init
    PROVE  IInv
<1>0. /\ 0 \in Nat /\ 0 \in 0..MaxSessions /\ 0 \in 0..MaxFaults
      /\ [s \in SessionIds |-> None] \in [SessionIds -> Package \cup {None}]
  BY AgentAssumption
<1>1. TypeOK
  BY <1>0, NoAttemptType DEF Init, TypeOK
<1>2. Control /\ RecorderOK /\ AttemptOK
  BY AgentAssumption DEF Init, Control, RecorderOK, AttemptOK, Intended
<1>3. PackageMatches /\ Known /\ RetryMatchesRegistration
  BY DEF Init, PackageMatches, Known, RetryMatchesRegistration
<1>4. QED
  BY <1>1, <1>2, <1>3 DEF IInv

\* The inductive invariant of the agent holds in every reachable state.
THEOREM Inductive == Spec => []IInv
<1>1. Init => IInv
  BY InitIInv
<1>2. IInv /\ [Next]_vars => IInv'
  <2>1. ASSUME IInv, Proceed PROVE IInv'
    BY <2>1, PollKeeps, DetectApprovedKeeps, DetectOtherKeeps, RecorderKeeps,
       RecorderStopsKeeps, WriteKeeps, CleanUpKeeps, UploadKeeps, UploadRefusedKeeps DEF Proceed
  <2>2. QED
    BY <2>1, FailureKeeps, EnvironmentKeeps DEF Next
<1>3. QED
  BY <1>1, <1>2, PTL DEF Spec

\* Every variable stays in its type; no unusable recording is ever staged.
THEOREM TypeCorrect == Spec => []TypeOK
<1>1. IInv => TypeOK
  BY DEF IInv
<1>2. QED
  BY <1>1, Inductive, PTL

\* Between two ticks the recorder does what the coordinator remembers.
THEOREM RecorderCorrect == Spec => []RecorderFollows
<1>1. IInv => RecorderFollows
  BY DEF IInv, RecorderOK, RecorderFollows
<1>2. QED
  BY <1>1, Inductive, PTL

\* The cached descriptor describes the file on the disk.
THEOREM PackageCorrect == Spec => []PackageMatches
<1>1. IInv => PackageMatches
  BY DEF IInv
<1>2. QED
  BY <1>1, Inductive, PTL

\* The coordinator never holds another package than the one the API has registered.
THEOREM RetryCorrect == Spec => []RetryMatchesRegistration
<1>1. IInv => RetryMatchesRegistration
  BY DEF IInv
<1>2. QED
  BY <1>1, Inductive, PTL

-----------------------------------------------------------------------------
(***************************************************************************)
(* No session is dropped                                                   *)
(***************************************************************************)

\* The step property of NoSessionDropped.
Kept ==
    /\ \A s \in Owned : s \in Owned' \/ s \in delivered' \/ "down" \in {pc, pc'}
    /\ pending # None /\ pending' # None => pending' = pending

LEMMA KeptWhenSame ==
    ASSUME pending' = pending,
           active' = active \/ active = None
             \/ (active # None /\ active' # None /\ active'.id = active.id)
    PROVE  Kept
BY DEF Kept, Owned

LEMMA KeptNext ==
    ASSUME IInv, [Next]_vars
    PROVE  Kept
<1>0. TypeOK
  BY DEF IInv
<1>1. CASE UNCHANGED <<active, pending>>
  BY <1>1, KeptWhenSame
<1>2. CASE DetectApproved
  BY <1>2, KeptWhenSame DEF DetectApproved
<1>3. CASE RecorderResumes \/ RecorderPauses
  <2>1. active \in Session /\ active # None /\ now \in Nat
    BY <1>0, <1>3 DEF RecorderResumes, RecorderPauses, IInv, TypeOK, Control
  <2>2. active'.id = active.id /\ active' # None /\ pending' = pending
    BY <1>3, <2>1, SessionTypes DEF RecorderResumes, RecorderPauses, EventTypes
  <2>3. QED
    BY <2>1, <2>2, KeptWhenSame
<1>4. CASE RecorderStops
  <2>1. active \in Session /\ active # None /\ clock \in Nat /\ pending = None
    BY <1>0, <1>4 DEF RecorderStops, IInv, TypeOK, Control
  <2>2. pending'.id = active.id /\ pending' # None
    BY <1>4, <2>1, SessionTypes DEF RecorderStops, Finish, EventTypes
  <2>3. QED
    BY <2>1, <2>2 DEF Kept, Owned
<1>5. CASE Upload
  <2>1. active = None /\ pending # None
    BY <1>5 DEF Upload, IInv, Control, RecorderOK
  <2>2. QED
    BY <1>5, <2>1 DEF Upload, Kept, Owned
<1>6. CASE Crash \/ Restart
  BY <1>6 DEF Crash, Restart, Forget, Kept
<1>7. ASSUME \/ Poll \/ DetectOther \/ RecorderStarts
             \/ OpenSource \/ StageRecording \/ CreatePackage \/ CleanUp \/ UploadRefused
             \/ Stop \/ ChangeSource \/ Tick \/ UNCHANGED vars
      PROVE  UNCHANGED <<active, pending>>
  BY <1>7 DEF Poll, DetectOther, RecorderStarts, OpenSource, Refused, StageRecording, CreatePackage,
              CleanUp, UploadRefused, Stop, ChangeSource, Tick, vars, coordinator
<1>8. ASSUME Failure PROVE UNCHANGED <<active, pending>>
  BY <1>8 DEF Failure, DetectorFails, CleanUpFails, RecorderFails, WriteFails, UploadFails,
              coordinator
<1>9. QED
  BY <1>1, <1>2, <1>3, <1>4, <1>5, <1>6, <1>7, <1>8 DEF Next, Proceed

\* A started session leaves the agent only delivered or with the process, and is
\* finished only once.
THEOREM NothingDropped == Spec => NoSessionDropped
<1>1. IInv /\ [Next]_vars =>
        [/\ \A s \in Owned : s \in Owned' \/ s \in delivered' \/ "down" \in {pc, pc'}
         /\ pending # None /\ pending' # None => pending' = pending]_vars
  BY KeptNext DEF Kept
<1>2. QED
  BY <1>1, Inductive, PTL DEF Spec, NoSessionDropped

-----------------------------------------------------------------------------
(***************************************************************************)
(* The event log of a session                                              *)
(***************************************************************************)

\* The log of an active session, as it can stand at time t.
OpenLog(events, t) ==
    /\ Len(events) >= 1
    /\ \A i \in 1..Len(events) :
          /\ Activates(events[i]) <=> i % 2 = 1
          /\ events[i].type # "session_ended"
    /\ \A i \in 1..(Len(events) - 1) : events[i].at <= events[i + 1].at
    /\ events[Len(events)].at <= t

\* The log of a finished one.
ClosedLog(events) ==
    /\ Ordered(events)
    /\ \A i \in DOMAIN events : events[i].type = "session_ended" <=> i = Len(events)

\* A tick that awaits a resume or a pause carries a time that fits the log it saw.
LogInv ==
    /\ active # None =>
         OpenLog(active.events, clock) /\ (paused <=> Len(active.events) % 2 = 0)
    /\ pc \in {"resume", "pause"} =>
         OpenLog(active.events, now) /\ now <= clock /\ (paused <=> pc = "resume")
    /\ pending # None => ClosedLog(pending.events)

\* What WithEvent does to the log.
LEMMA WithEventLog ==
    ASSUME NEW session \in Session, NEW type \in EventTypes, NEW at \in Nat
    PROVE  /\ session.events \in Seq(CadEvent)
           /\ WithEvent(session, type, at).events
                = Append(session.events, [type |-> type, at |-> at])
BY DEF WithEvent, Session

\* A log stays a log of the same session as time passes.
LEMMA OpenLogLater ==
    ASSUME NEW events \in Seq(CadEvent), NEW t \in Nat, NEW u \in Nat, t <= u,
           OpenLog(events, t)
    PROVE  OpenLog(events, u)
<1>1. Len(events) \in 1..Len(events)
  BY DEF OpenLog
<1>2. events[Len(events)] \in CadEvent
  BY <1>1
<1>3. events[Len(events)].at \in Nat
  BY <1>2 DEF CadEvent
<1> QED
  BY <1>3 DEF OpenLog

\* What an appended event leaves of the log, and what it adds.
LEMMA AppendLog ==
    ASSUME NEW events \in Seq(CadEvent), NEW e \in CadEvent, NEW new, new = Append(events, e)
    PROVE  /\ new \in Seq(CadEvent) /\ Len(new) = Len(events) + 1 /\ Len(events) \in Nat
           /\ new[Len(new)] = e /\ DOMAIN new = 1..(Len(events) + 1)
           /\ \A i \in 1..Len(events) : new[i] = events[i]
OBVIOUS

\* The next event alternates: a pause after an activation, a resumption after a pause.
LEMMA OpenLogAppend ==
    ASSUME NEW events \in Seq(CadEvent), NEW t \in Nat, OpenLog(events, t),
           NEW e \in CadEvent, e.at = t, e.type # "session_ended",
           Activates(e) <=> Len(events) % 2 = 0
    PROVE  /\ OpenLog(Append(events, e), t)
           /\ Len(Append(events, e)) % 2 = 0 <=> ~(Len(events) % 2 = 0)
<1>1. PICK new : new = Append(events, e)
  OBVIOUS
<1>2. /\ Len(new) = Len(events) + 1 /\ Len(events) \in Nat /\ new[Len(new)] = e
      /\ \A i \in 1..Len(events) : new[i] = events[i]
  BY <1>1, AppendLog
<1>3. Len(new) % 2 = 1 <=> Len(events) % 2 = 0
  BY <1>2
<1>4. ASSUME NEW i \in 1..Len(new)
      PROVE  (Activates(new[i]) <=> i % 2 = 1) /\ new[i].type # "session_ended"
  <2>1. CASE i \in 1..Len(events)
    BY <1>2, <2>1 DEF OpenLog
  <2>2. CASE i = Len(new)
    BY <1>2, <1>3, <2>2
  <2> QED
    BY <1>2, <2>1, <2>2
<1>5. ASSUME NEW i \in 1..(Len(new) - 1)
      PROVE  new[i].at <= new[i + 1].at
  <2>1. CASE i \in 1..(Len(events) - 1)
    <3>1. i \in 1..Len(events) /\ i + 1 \in 1..Len(events)
      BY <1>2, <2>1
    <3> QED
      BY <1>2, <2>1, <3>1 DEF OpenLog
  <2>2. CASE i = Len(events)
    BY <1>2, <2>2 DEF OpenLog
  <2> QED
    BY <1>2, <2>1, <2>2
<1>6. new[Len(new)].at <= t /\ Len(new) >= 1
  BY <1>2
<1>7. Len(new) % 2 = 0 <=> ~(Len(events) % 2 = 0)
  BY <1>2
<1>8. OpenLog(new, t)
  BY <1>4, <1>5, <1>6 DEF OpenLog
<1> QED
  BY <1>1, <1>7, <1>8

\* Ending an open log closes it.
LEMMA LogEnds ==
    ASSUME NEW events \in Seq(CadEvent), NEW t \in Nat, OpenLog(events, t),
           NEW e \in CadEvent, e.at = t, e.type = "session_ended"
    PROVE  ClosedLog(Append(events, e))
<1>1. PICK new : new = Append(events, e)
  OBVIOUS
<1>2. /\ Len(new) = Len(events) + 1 /\ Len(events) \in Nat /\ new[Len(new)] = e
      /\ DOMAIN new = 1..(Len(events) + 1)
      /\ \A i \in 1..Len(events) : new[i] = events[i]
  BY <1>1, AppendLog
<1>3. ASSUME NEW i \in 1..(Len(new) - 1)
      PROVE  (Activates(new[i]) <=> i % 2 = 1) /\ new[i].at <= new[i + 1].at
  <2>1. i \in 1..Len(events) /\ (Activates(new[i]) <=> i % 2 = 1)
    BY <1>2 DEF OpenLog
  <2>2. CASE i \in 1..(Len(events) - 1)
    <3>1. i + 1 \in 1..Len(events)
      BY <1>2, <2>2
    <3> QED
      BY <1>2, <2>1, <2>2, <3>1 DEF OpenLog
  <2>3. CASE i = Len(events)
    BY <1>2, <2>1, <2>3 DEF OpenLog
  <2> QED
    BY <1>2, <2>1, <2>2, <2>3
<1>4. \A i \in DOMAIN new : new[i].type = "session_ended" <=> i = Len(new)
  BY <1>2 DEF OpenLog
<1>5. ClosedLog(new)
  BY <1>3, <1>4 DEF ClosedLog, Ordered
<1> QED
  BY <1>1, <1>5

\* A session starts with an open log.
LEMMA LogStarts ==
    ASSUME NEW id \in SessionIds, NEW t \in Nat
    PROVE  OpenLog(Start(id, t).events, t) /\ Len(Start(id, t).events) = 1
<1>1. PICK e : e = [type |-> "session_started", at |-> t]
  OBVIOUS
<1>2. Activates(e) /\ e.type # "session_ended" /\ e.at = t
  BY <1>1 DEF Activates
<1>3. Start(id, t).events = <<e>>
  BY <1>1 DEF Start
<1>4. Len(<<e>>) = 1 /\ <<e>>[1] = e
  OBVIOUS
<1>5. OpenLog(<<e>>, t)
  BY <1>2, <1>4 DEF OpenLog
<1> QED
  BY <1>3, <1>4, <1>5

\* Steps that leave the sessions as they are.
LEMMA LogUntouched ==
    ASSUME TypeOK, LogInv, UNCHANGED <<active, paused, pending>>,
           clock' \in Nat, clock <= clock',
           pc' \in {"resume", "pause"} => pc' = pc /\ now' = now /\ now \in Nat /\ active # None
    PROVE  LogInv'
<1>1. active # None => active.events \in Seq(CadEvent)
  BY DEF TypeOK, Session
<1>2. clock \in Nat
  BY DEF TypeOK
<1>3. active # None => OpenLog(active.events, clock')
  BY <1>1, <1>2, OpenLogLater DEF LogInv
<1>4. pc' \in {"resume", "pause"} =>
         OpenLog(active.events, now) /\ now <= clock' /\ (paused <=> pc = "resume")
  BY <1>2 DEF LogInv
<1> QED
  BY <1>3, <1>4 DEF LogInv, OpenLog, ClosedLog, Ordered, Activates

\* A tick reads the time its recorder call will log.
LEMMA LogRead ==
    ASSUME LogInv, UNCHANGED <<clock, active, paused, pending>>, clock \in Nat,
           active # None, now' = clock, paused <=> pc' = "resume"
    PROVE  LogInv'
<1>1. (active # None =>
         OpenLog(active.events, clock) /\ (paused <=> Len(active.events) % 2 = 0))'
  BY DEF LogInv, OpenLog, Activates
<1>2. (OpenLog(active.events, now) /\ now <= clock /\ (paused <=> pc = "resume"))'
  <2>1. OpenLog(active.events, clock)
    BY DEF LogInv
  <2>2. OpenLog(active.events, now)'
    BY <2>1 DEF OpenLog, Activates
  <2> QED
    BY <2>2
<1>3. (pending # None => ClosedLog(pending.events))'
  BY DEF LogInv, ClosedLog, Ordered, Activates
<1> QED
  BY <1>1, <1>2, <1>3 DEF LogInv

\* The session is handed over, or lost with the process.
LEMMA LogGone ==
    ASSUME LogInv, active' = None, pending' \in {None, pending},
           pc' \notin {"resume", "pause"}
    PROVE  LogInv'
BY DEF LogInv, ClosedLog, Ordered, Activates

\* The times and the log a recorder call of a tick works on.
LEMMA AtRecorder ==
    ASSUME IInv, pc \in {"resume", "pause"}
    PROVE  /\ active # None /\ active \in Session /\ active.events \in Seq(CadEvent)
           /\ now \in Nat /\ clock \in Nat /\ pending = None
BY DEF IInv, TypeOK, Control, Session

\* A pause or a resumption takes effect and is logged.
LEMMA LogRecorder ==
    ASSUME IInv, LogInv, RecorderResumes \/ RecorderPauses
    PROVE  LogInv'
<1>1. PICK type \in {"session_resumed", "session_paused"} :
        /\ active' = WithEvent(active, type, now)
        /\ type = "session_resumed" <=> pc = "resume"
        /\ paused' = (type = "session_paused")
        /\ pc \in {"resume", "pause"} /\ pc' \notin {"resume", "pause"}
        /\ UNCHANGED <<clock, pending>>
  <2>1. CASE RecorderResumes
    BY <2>1 DEF RecorderResumes
  <2>2. CASE RecorderPauses
    BY <2>2 DEF RecorderPauses, Lapse
  <2> QED
    BY <2>1, <2>2
<1>2. /\ active # None /\ active \in Session /\ active.events \in Seq(CadEvent)
      /\ now \in Nat /\ clock \in Nat /\ pending = None
  BY <1>1, AtRecorder
<1>3. PICK e : e = [type |-> type, at |-> now]
  OBVIOUS
<1>4. e \in CadEvent /\ e.at = now /\ e.type # "session_ended"
  BY <1>2, <1>3 DEF CadEvent, EventTypes
<1>5. Activates(e) <=> type = "session_resumed"
  BY <1>3 DEF Activates
<1>6. /\ OpenLog(active.events, now) /\ now <= clock
      /\ type = "session_resumed" <=> Len(active.events) % 2 = 0
  BY <1>1, <1>2 DEF LogInv
<1>7. /\ OpenLog(Append(active.events, e), now)
      /\ Len(Append(active.events, e)) % 2 = 0 <=> ~(Len(active.events) % 2 = 0)
  BY <1>2, <1>4, <1>5, <1>6, OpenLogAppend
<1>8. active'.events = Append(active.events, e)
  BY <1>1, <1>2, <1>3, WithEventLog DEF EventTypes
<1>9. Append(active.events, e) \in Seq(CadEvent)
  BY <1>2, <1>4
<1>10. OpenLog(active'.events, clock)
  BY <1>2, <1>6, <1>7, <1>8, <1>9, OpenLogLater
<1>11. paused' <=> Len(active'.events) % 2 = 0
  <2>1. Len(active'.events) % 2 = 0 <=> ~(type = "session_resumed")
    <3>1. Len(active'.events) % 2 = Len(Append(active.events, e)) % 2
      BY <1>8, Zenon
    <3>2. Len(Append(active.events, e)) % 2 = 0 <=> ~(Len(active.events) % 2 = 0)
      BY <1>7
    <3>3. type = "session_resumed" <=> Len(active.events) % 2 = 0
      BY <1>6
    <3> QED
      BY <3>1, <3>2, <3>3, Zenon
  <2>2. ~(type = "session_resumed") <=> type = "session_paused"
    OBVIOUS
  <2>3. paused' = (type = "session_paused")
    BY <1>1
  <2> QED
    BY <2>1, <2>2, <2>3, Zenon
<1> QED
  BY <1>1, <1>2, <1>10, <1>11 DEF LogInv, OpenLog, Activates

\* LogInv is inductive.
LEMMA LogStep ==
    ASSUME IInv, LogInv, [Next]_vars
    PROVE  LogInv'
<1>0. TypeOK /\ clock \in Nat
  BY DEF IInv, TypeOK
<1>1. CASE DetectApproved
  <2>1. ASSUME active = None, started < MaxSessions, active' = Start(started + 1, clock),
               pc' = "start"
        PROVE  LogInv'
    <3>1. started + 1 \in SessionIds /\ ~paused
      BY <1>0, <1>1, <2>1, AgentAssumption DEF TypeOK, SessionIds, IInv, Control
    <3>2. OpenLog(active'.events, clock) /\ Len(active'.events) = 1
      BY <1>0, <2>1, <3>1, LogStarts
    <3>3. UNCHANGED <<clock, paused, pending>>
      BY <1>1 DEF DetectApproved
    <3>4. (active # None =>
             OpenLog(active.events, clock) /\ (paused <=> Len(active.events) % 2 = 0))'
      BY <3>1, <3>2, <3>3 DEF OpenLog, Activates
    <3>5. (pending # None => ClosedLog(pending.events))'
      BY <3>3 DEF LogInv, ClosedLog, Ordered, Activates
    <3> QED
      BY <2>1, <3>4, <3>5 DEF LogInv
  <2>2. ASSUME active # None, paused, pc' = "resume", now' = clock, UNCHANGED active
        PROVE  LogInv'
    <3>1. UNCHANGED <<clock, paused, pending>>
      BY <1>1 DEF DetectApproved
    <3> QED
      BY <1>0, <2>2, <3>1, LogRead
  <2>3. ASSUME active # None, pc' = "delay", UNCHANGED active
        PROVE  LogInv'
    BY <1>0, <1>1, <2>3, LogUntouched DEF DetectApproved
  <2> QED
    BY <1>1, <2>1, <2>2, <2>3 DEF DetectApproved
<1>2. CASE DetectOther
  <2>0. UNCHANGED <<clock, active, paused, pending>>
    BY <1>2 DEF DetectOther, coordinator
  <2>1. ASSUME active # None, ~paused, pc' = "pause", now' = clock
        PROVE  LogInv'
    BY <1>0, <2>0, <2>1, LogRead
  <2>2. ASSUME pc' \notin {"resume", "pause"}
        PROVE  LogInv'
    BY <1>0, <2>0, <2>2, LogUntouched
  <2> QED
    BY <1>2, <2>1, <2>2 DEF DetectOther, PausesNow, Lapse
<1>3. CASE RecorderResumes \/ RecorderPauses
  BY <1>3, LogRecorder
<1>4. CASE RecorderStops
  <2>1. active \in Session /\ active.events \in Seq(CadEvent) /\ OpenLog(active.events, clock)
    BY <1>0, <1>4 DEF RecorderStops, IInv, TypeOK, Control, Session, LogInv
  <2>2. PICK e : e = [type |-> "session_ended", at |-> clock]
    OBVIOUS
  <2>3. e \in CadEvent /\ e.at = clock /\ e.type = "session_ended"
    BY <1>0, <2>2 DEF CadEvent, EventTypes
  <2>4. pending'.events = Append(active.events, e)
    BY <1>0, <1>4, <2>1, <2>2, WithEventLog DEF RecorderStops, Finish, EventTypes
  <2>5. ClosedLog(pending'.events)
    BY <1>0, <2>1, <2>3, <2>4, LogEnds
  <2> QED
    BY <1>4, <2>5 DEF RecorderStops, LogInv, ClosedLog, Ordered, Activates
<1>5. CASE Upload \/ Crash \/ Restart
  <2>1. active' = None /\ pending' = None /\ pc' \notin {"resume", "pause"}
    <3>1. CASE Upload
      <4>1. active = None /\ caller \in {"drain", "grace", "shutdown"}
        BY <3>1 DEF Upload, IInv, TypeOK, Control, RecorderOK
      <4> QED
        BY <3>1, <4>1 DEF Upload
    <3>2. CASE Crash \/ Restart
      BY <3>2 DEF Crash, Restart, Forget
    <3> QED
      BY <1>5, <3>1, <3>2
  <2> QED
    BY <2>1, LogGone
<1>6. CASE Failure
  <2>1. UNCHANGED <<clock, active, paused, pending>>
    BY <1>6 DEF Failure, DetectorFails, CleanUpFails, RecorderFails, WriteFails, UploadFails,
                coordinator
  <2>2. Landing \/ pc' = "clean"
    BY <1>0, <1>6, RaiseLands
       DEF Failure, DetectorFails, CleanUpFails, RecorderFails, WriteFails, UploadFails
  <2>3. pc' \notin {"resume", "pause"}
    BY <2>2 DEF Landing
  <2> QED
    BY <1>0, <2>1, <2>3, LogUntouched
<1>7. CASE \/ Poll \/ RecorderStarts \/ OpenSource \/ StageRecording \/ CreatePackage
           \/ CleanUp \/ UploadRefused
  <2>1. UNCHANGED <<clock, active, paused, pending>>
    BY <1>7 DEF Poll, RecorderStarts, OpenSource, StageRecording, CreatePackage, CleanUp,
                UploadRefused, coordinator
  <2>2. pc' \notin {"resume", "pause"}
    <3>1. CASE Poll
      BY <3>1 DEF Poll, Shutdown, FinishEntry
    <3>2. CASE CleanUp \/ UploadRefused
      BY <1>0, <3>2, RaiseLands DEF CleanUp, UploadRefused, Landing
    <3>3. CASE RecorderStarts \/ OpenSource \/ StageRecording \/ CreatePackage
      BY <3>3 DEF RecorderStarts, OpenSource, StageRecording, CreatePackage
    <3> QED
      BY <1>7, <3>1, <3>2, <3>3
  <2> QED
    BY <1>0, <2>1, <2>2, LogUntouched
<1>8. CASE Stop \/ ChangeSource \/ Tick \/ UNCHANGED vars
  <2>1. /\ UNCHANGED <<active, paused, pending, pc, now>>
        /\ clock' \in Nat /\ clock <= clock'
    <3>1. CASE Stop \/ ChangeSource \/ UNCHANGED vars
      <4>1. UNCHANGED <<clock, active, paused, pending, pc, now>>
        BY <3>1 DEF Stop, ChangeSource, vars, coordinator, tick
      <4> QED
        BY <1>0, <4>1
    <3>2. CASE Tick
      BY <1>0, <3>2 DEF Tick, coordinator, tick
    <3> QED
      BY <1>8, <3>1, <3>2
  <2> QED
    BY <1>0, <2>1, AtRecorder, LogUntouched
<1> QED
  BY <1>1, <1>2, <1>3, <1>4, <1>5, <1>6, <1>7, <1>8 DEF Next, Proceed

\* An open log that ended now would be in order.
LEMMA OpenLogOrdered ==
    ASSUME NEW events \in Seq(CadEvent), NEW t \in Nat, OpenLog(events, t)
    PROVE  Ordered(Append(events, [type |-> "session_ended", at |-> t]))
<1>1. PICK e : e = [type |-> "session_ended", at |-> t]
  OBVIOUS
<1>2. e \in CadEvent /\ e.at = t /\ e.type = "session_ended"
  BY <1>1 DEF CadEvent, EventTypes
<1> QED
  BY <1>1, <1>2, LogEnds DEF ClosedLog

\* The log of every session alternates, in time, and ends once.
THEOREM LogCorrect == Spec => []LogAlternates
<1>1. Init => LogInv
  BY DEF Init, LogInv
<1>2. IInv /\ LogInv /\ [Next]_vars => LogInv'
  BY LogStep
<1>3. IInv /\ LogInv => LogAlternates
  <2> SUFFICES ASSUME IInv, LogInv PROVE LogAlternates
    OBVIOUS
  <2>1. active # None =>
          Ordered(Append(active.events, [type |-> "session_ended", at |-> clock]))
    BY OpenLogOrdered DEF IInv, TypeOK, Session, LogInv
  <2> QED
    BY <2>1 DEF LogInv, ClosedLog, LogAlternates
<1> QED
  BY <1>1, <1>2, <1>3, Inductive, PTL DEF Spec

-----------------------------------------------------------------------------
(***************************************************************************)
(* Induction over the naturals.  The library's rule takes the predicate as *)
(* a parameter; here it is a set, which the provers can instantiate.       *)
(***************************************************************************)

NatLess == {pair \in Nat \X Nat : pair[1] < pair[2]}

LEMMA NatLessWellFounded == IsWellFoundedOn(NatLess, Nat)
BY NatLessThanWellFounded DEF OpToRel, NatLess

\* A set that has 0, and n + 1 with every n, has every natural number.
LEMMA NatInductionSet ==
    ASSUME NEW S, 0 \in S, \A n \in Nat : n \in S => n + 1 \in S
    PROVE  Nat \subseteq S
<1>1. SUFFICES ASSUME Nat \ S # {} PROVE FALSE
  OBVIOUS
<1>2. PICK n \in Nat \ S : \A m \in Nat \ S : ~(<<m, n>> \in NatLess)
  <2>1. Nat \ S \subseteq Nat
    OBVIOUS
  <2> QED
    BY <1>1, <2>1, NatLessWellFounded, WFMin
<1>3. n # 0 /\ n - 1 \in Nat /\ n - 1 < n
  BY <1>2
<1>4. <<n - 1, n>> \in NatLess
  BY <1>3 DEF NatLess
<1>5. n - 1 \in S
  BY <1>2, <1>3, <1>4
<1> QED
  BY <1>2, <1>3, <1>5

-----------------------------------------------------------------------------
(***************************************************************************)
(* The active duration                                                     *)
(***************************************************************************)

\* What one pass over a log makes of the results for its first events.
PassOver(f, events, n) ==
    [i \in 0..n |-> IF i = 0 THEN NoActivity ELSE CountEvent(f[i - 1], events[i])]

\* The pass over the first events of a log can be continued to any event.
LEMMA PassExists ==
    ASSUME NEW events, NEW n \in Nat
    PROVE  \E f : f = PassOver(f, events, n)
<1> DEFINE S == {k \in Nat : \E f : f = PassOver(f, events, k)}
<1>1. 0 \in S
  <2>1. PICK f : f = [i \in 0..0 |-> NoActivity]
    OBVIOUS
  <2>2. f = PassOver(f, events, 0)
    BY <2>1 DEF PassOver
  <2> QED
    BY <2>2
<1>2. ASSUME NEW k \in Nat, k \in S
      PROVE  k + 1 \in S
  <2>1. PICK f : f = PassOver(f, events, k)
    BY <1>2
  <2>2. PICK g : g = [i \in 0..(k + 1) |->
                        IF i = k + 1 THEN CountEvent(f[k], events[k + 1]) ELSE f[i]]
    OBVIOUS
  <2>3. \A i \in 0..k : g[i] = f[i] /\ f[i] = PassOver(f, events, k)[i]
    BY <2>1, <2>2
  <2>4. ASSUME NEW i \in 0..(k + 1)
        PROVE  g[i] = IF i = 0 THEN NoActivity ELSE CountEvent(g[i - 1], events[i])
    <3>1. CASE i = k + 1
      BY <2>2, <2>3, <3>1
    <3>2. CASE i \in 1..k
      <4>1. i \in 0..k /\ i - 1 \in 0..k /\ i # 0
        BY <3>2
      <4>2. f[i] = CountEvent(f[i - 1], events[i])
        BY <2>3, <4>1 DEF PassOver
      <4> QED
        BY <2>3, <4>1, <4>2
    <3>3. CASE i = 0
      <4>1. 0 \in 0..k
        OBVIOUS
      <4> QED
        BY <2>3, <3>3, <4>1 DEF PassOver
    <3> QED
      BY <3>1, <3>2, <3>3
  <2>5. g = PassOver(g, events, k + 1)
    BY <2>2, <2>4 DEF PassOver
  <2> QED
    BY <2>5
<1>3. Nat \subseteq S
  BY <1>1, <1>2, NatInductionSet
<1> QED
  BY <1>3

\* ActiveSums is the pass it is defined to be.
LEMMA ActiveSumsPass ==
    ASSUME NEW events, Len(events) \in Nat
    PROVE  /\ ActiveSums(events)[0] = NoActivity
           /\ \A i \in 1..Len(events) :
                ActiveSums(events)[i] = CountEvent(ActiveSums(events)[i - 1], events[i])
<1>1. \E f : f = PassOver(f, events, Len(events))
  BY PassExists
<1>2. ActiveSums(events) = PassOver(ActiveSums(events), events, Len(events))
  BY <1>1, Zenon DEF ActiveSums, PassOver
<1>3. PICK f : f = ActiveSums(events)
  OBVIOUS
<1>4. f = PassOver(f, events, Len(events))
  BY <1>2, <1>3
<1>5. f[0] = NoActivity
  <2>1. 0 \in 0..Len(events)
    OBVIOUS
  <2> QED
    BY <1>4, <2>1 DEF PassOver
<1>6. ASSUME NEW i \in 1..Len(events)
      PROVE  f[i] = CountEvent(f[i - 1], events[i])
  <2>1. i \in 0..Len(events) /\ i # 0
    OBVIOUS
  <2> QED
    BY <1>4, <2>1 DEF PassOver
<1> QED
  BY <1>3, <1>5, <1>6

\* Capture is active after the n-th event of a log, and has been between its first n.
ActiveAfter(events, n) == n >= 1 /\ Activates(events[n])

UnitsBefore(events, n) ==
    {t \in 0..MaxClock :
        \E i \in 1..(n - 1) :
            Activates(events[i]) /\ events[i].at <= t /\ t < events[i + 1].at}

\* A log whose units can be counted in one pass: in order, with a pause or an end after
\* every activation.
Countable(events) ==
    /\ events \in Seq(CadEvent) /\ Len(events) >= 1
    /\ \A i \in 1..Len(events) : events[i].at <= MaxClock
    /\ \A i \in 1..(Len(events) - 1) :
         /\ events[i].at <= events[i + 1].at
         /\ ~(Activates(events[i]) /\ Activates(events[i + 1]))

\* What the pass remembers after n events.
Counted(events, n) ==
    LET sum == ActiveSums(events)[n]
    IN  /\ sum.since = IF ActiveAfter(events, n) THEN events[n].at ELSE None
        /\ sum = [since |-> sum.since, total |-> sum.total]
        /\ IsFiniteSet(UnitsBefore(events, n))
        /\ sum.total = Cardinality(UnitsBefore(events, n))
        /\ n >= 1 => \A t \in UnitsBefore(events, n) : t < events[n].at

\* One more event counts exactly the units since the one before it, if it was active.
LEMMA UnitsGrow ==
    ASSUME NEW events, Countable(events), NEW n \in Nat, n + 1 <= Len(events)
    PROVE  UnitsBefore(events, n + 1) =
             UnitsBefore(events, n) \cup
               IF ActiveAfter(events, n) THEN events[n].at..(events[n + 1].at - 1) ELSE {}
<1> DEFINE last_units == IF ActiveAfter(events, n)
                         THEN events[n].at..(events[n + 1].at - 1) ELSE {}
<1>0. Len(events) \in Nat /\ n + 1 \in 1..Len(events)
  BY DEF Countable
<1>1. \A i \in 1..Len(events) : events[i].at \in Nat /\ events[i].at <= MaxClock
  <2>1. \A i \in 1..Len(events) : events[i] \in CadEvent
    BY DEF Countable
  <2> QED
    BY <2>1 DEF Countable, CadEvent
<1>2. ASSUME NEW t \in UnitsBefore(events, n + 1)
      PROVE  t \in UnitsBefore(events, n) \cup last_units
  <2>1. PICK i \in 1..n :
          Activates(events[i]) /\ events[i].at <= t /\ t < events[i + 1].at
    BY <1>2 DEF UnitsBefore
  <2>2. t \in 0..MaxClock
    BY <1>2 DEF UnitsBefore
  <2>3. CASE i = n
    <3>1. events[n].at \in Nat /\ events[n + 1].at \in Nat
      BY <1>0, <1>1, <2>3
    <3> QED
      BY <2>1, <2>2, <2>3, <3>1 DEF ActiveAfter
  <2>4. CASE i \in 1..(n - 1)
    BY <2>1, <2>2, <2>4 DEF UnitsBefore
  <2> QED
    BY <2>3, <2>4
<1>3. ASSUME NEW t \in UnitsBefore(events, n)
      PROVE  t \in UnitsBefore(events, n + 1)
  BY <1>3 DEF UnitsBefore
<1>4. ASSUME NEW t \in last_units
      PROVE  t \in UnitsBefore(events, n + 1)
  <2>1. ActiveAfter(events, n) /\ t \in events[n].at..(events[n + 1].at - 1)
    BY <1>4
  <2>2. n \in 1..Len(events)
    BY <1>0, <2>1 DEF ActiveAfter
  <2>3. /\ events[n].at \in Nat /\ events[n + 1].at \in Nat
        /\ events[n + 1].at <= MaxClock
    BY <1>0, <1>1, <2>2
  <2>4. t \in 0..MaxClock /\ events[n].at <= t /\ t < events[n + 1].at
    BY <2>1, <2>3, AgentAssumption
  <2>5. n \in 1..(n + 1 - 1)
    BY <2>2
  <2> QED
    BY <2>1, <2>4, <2>5 DEF UnitsBefore, ActiveAfter
<1> QED
  BY <1>2, <1>3, <1>4

LEMMA CountedFirst ==
    ASSUME NEW events, Countable(events)
    PROVE  Counted(events, 0)
<1>1. ActiveSums(events)[0] = NoActivity
  BY ActiveSumsPass DEF Countable
<1>2. UnitsBefore(events, 0) = {} /\ ~ActiveAfter(events, 0)
  BY DEF UnitsBefore, ActiveAfter
<1> QED
  BY <1>1, <1>2, FS_EmptySet DEF Counted, NoActivity

\* The pass counts one more event.
LEMMA CountedNext ==
    ASSUME NEW events, Countable(events), NEW n \in Nat, n + 1 <= Len(events),
           Counted(events, n)
    PROVE  Counted(events, n + 1)
<1> DEFINE sum == ActiveSums(events)[n]
           next == ActiveSums(events)[n + 1]
           units == UnitsBefore(events, n)
<1>0. Len(events) \in Nat /\ n + 1 \in 1..Len(events)
  BY DEF Countable
<1>1. /\ events[n + 1].at \in Nat
      /\ n >= 1 => /\ events[n].at \in Nat /\ events[n].at <= events[n + 1].at
                   /\ ~(Activates(events[n]) /\ Activates(events[n + 1]))
  <2>1. events[n + 1] \in CadEvent /\ (n >= 1 => events[n] \in CadEvent)
    BY <1>0 DEF Countable
  <2>2. n >= 1 => n \in 1..(Len(events) - 1)
    BY <1>0
  <2> QED
    BY <2>1, <2>2 DEF Countable, CadEvent
<1>2. next = CountEvent(sum, events[n + 1])
  BY <1>0, ActiveSumsPass
<1>3. /\ sum.since = IF ActiveAfter(events, n) THEN events[n].at ELSE None
      /\ sum = [since |-> sum.since, total |-> sum.total]
      /\ IsFiniteSet(units) /\ sum.total = Cardinality(units)
      /\ n >= 1 => \A t \in units : t < events[n].at
  BY DEF Counted
<1>4. /\ ActiveAfter(events, n + 1) <=> Activates(events[n + 1])
      /\ units \subseteq Nat /\ (n = 0 => units = {})
  BY DEF ActiveAfter, UnitsBefore
<1>5. CASE ~ActiveAfter(events, n)
  <2>1. UnitsBefore(events, n + 1) = units
    <3>1. UnitsBefore(events, n + 1) =
            units \cup IF ActiveAfter(events, n)
                       THEN events[n].at..(events[n + 1].at - 1) ELSE {}
      BY UnitsGrow
    <3>2. (IF ActiveAfter(events, n)
           THEN events[n].at..(events[n + 1].at - 1) ELSE {}) = {}
      BY <1>5
    <3> QED
      BY <3>1, <3>2
  <2>2. /\ next.total = sum.total /\ next = [since |-> next.since, total |-> next.total]
        /\ next.since = IF Activates(events[n + 1]) THEN events[n + 1].at ELSE None
    BY <1>2, <1>3, <1>5 DEF CountEvent
  <2>3. \A t \in units : t < events[n + 1].at
    BY <1>1, <1>3, <1>4
  <2> QED
    BY <1>3, <1>4, <2>1, <2>2, <2>3 DEF Counted
<1>6. CASE ActiveAfter(events, n)
  <2>0. n >= 1 /\ ~Activates(events[n + 1]) /\ sum.since = events[n].at
    BY <1>1, <1>3, <1>6 DEF ActiveAfter
  <2>1. next = [since |-> None, total |-> sum.total + events[n + 1].at - events[n].at]
    BY <1>1, <1>2, <2>0, NoneAssumption DEF CountEvent
  <2> DEFINE new_units == events[n].at..(events[n + 1].at - 1)
  <2>2. UnitsBefore(events, n + 1) = units \cup new_units
    <3>1. UnitsBefore(events, n + 1) =
            units \cup IF ActiveAfter(events, n) THEN new_units ELSE {}
      BY UnitsGrow
    <3>2. (IF ActiveAfter(events, n) THEN new_units ELSE {}) = new_units
      BY <1>6
    <3> QED
      BY <3>1, <3>2
  <2>3. /\ IsFiniteSet(new_units)
        /\ Cardinality(new_units) = events[n + 1].at - events[n].at
    <3>1. events[n].at \in Int /\ events[n + 1].at - 1 \in Int
      BY <1>1, <2>0
    <3>2. /\ IsFiniteSet(new_units)
          /\ Cardinality(new_units) =
               IF events[n].at > events[n + 1].at - 1 THEN 0
               ELSE events[n + 1].at - 1 - events[n].at + 1
      BY <3>1, FS_Interval
    <3> QED
      BY <1>1, <2>0, <3>2
  <2>4. units \cap new_units = {}
    BY <1>1, <1>3, <1>4, <2>0
  <2>5. /\ IsFiniteSet(units \cup new_units)
        /\ Cardinality(units \cup new_units) =
             Cardinality(units) + (events[n + 1].at - events[n].at)
    <3>1. Cardinality(units) \in Nat
      BY <1>3, FS_CardinalityType
    <3>2. /\ IsFiniteSet(units \cup new_units)
          /\ Cardinality(units \cup new_units) =
               Cardinality(units) + Cardinality(new_units) - Cardinality({})
      <4> HIDE DEF units, new_units
      <4>1. /\ IsFiniteSet(units \cup new_units)
            /\ Cardinality(units \cup new_units) =
                 Cardinality(units) + Cardinality(new_units) - Cardinality(units \cap new_units)
        BY <1>3, <2>3, FS_Union
      <4> QED
        BY <2>4, <4>1
    <3> QED
      BY <1>1, <2>0, <2>3, <3>1, <3>2, FS_EmptySet
  <2>6. \A t \in units \cup new_units : t < events[n + 1].at
    BY <1>1, <1>3, <1>4, <2>0
  <2>7. next.total = Cardinality(units \cup new_units)
    <3>1. Cardinality(units) \in Nat
      BY <1>3, FS_CardinalityType
    <3> QED
      BY <1>1, <1>3, <2>0, <2>1, <2>5, <3>1
  <2>8. next.since = None /\ next = [since |-> next.since, total |-> next.total]
    BY <2>1
  <2>9. ~ActiveAfter(events, n + 1)
    BY <1>4, <2>0
  <2> QED
    BY <2>2, <2>5, <2>6, <2>7, <2>8, <2>9, Zenon DEF Counted
<1> QED
  BY <1>5, <1>6

\* The one pass over a countable log counts its active units.
LEMMA DurationCounts ==
    ASSUME NEW events, Countable(events)
    PROVE  CalculateActiveDuration(events) = Cardinality(ActiveUnits(events))
<1> DEFINE S == {n \in Nat : n <= Len(events) => Counted(events, n)}
<1>0. Len(events) \in Nat
  BY DEF Countable
<1>1. 0 \in S
  BY CountedFirst
<1>2. ASSUME NEW n \in Nat, n \in S
      PROVE  n + 1 \in S
  <2> SUFFICES ASSUME n + 1 <= Len(events) PROVE Counted(events, n + 1)
    OBVIOUS
  <2>1. Counted(events, n)
    BY <1>0, <1>2
  <2> QED
    BY <2>1, CountedNext
<1>3. Nat \subseteq S
  <2> HIDE DEF S
  <2> QED
    BY <1>1, <1>2, NatInductionSet
<1>4. Counted(events, Len(events))
  BY <1>0, <1>3
<1>5. UnitsBefore(events, Len(events)) = ActiveUnits(events)
  BY DEF UnitsBefore, ActiveUnits
<1> QED
  BY <1>4, <1>5 DEF Counted, CalculateActiveDuration

\* No event is later than the last clock value.
Bounded(events) == \A i \in 1..Len(events) : events[i].at <= MaxClock

\* A log that is finished, and bounded, can be counted in one pass.
LEMMA ClosedLogCountable ==
    ASSUME NEW events \in Seq(CadEvent), Len(events) >= 1, ClosedLog(events), Bounded(events)
    PROVE  Countable(events)
<1>1. ASSUME NEW i \in 1..(Len(events) - 1)
      PROVE  ~(Activates(events[i]) /\ Activates(events[i + 1]))
  <2>1. CASE i + 1 = Len(events)
    <3>1. events[i + 1].type = "session_ended"
      BY <2>1 DEF ClosedLog
    <3> QED
      BY <3>1 DEF Activates
  <2>2. CASE i + 1 # Len(events)
    <3>1. i + 1 \in 1..(Len(events) - 1)
      BY <2>2
    <3>2. /\ Activates(events[i]) => i % 2 = 1
          /\ Activates(events[i + 1]) => (i + 1) % 2 = 1
      BY <3>1 DEF ClosedLog, Ordered
    <3> QED
      BY <3>2
  <2> QED
    BY <2>1, <2>2
<1> QED
  BY <1>1 DEF Countable, ClosedLog, Ordered, Bounded

LEMMA BoundedAppend ==
    ASSUME NEW events \in Seq(CadEvent), Bounded(events), NEW e \in CadEvent,
           e.at <= MaxClock
    PROVE  Bounded(Append(events, e))
<1>1. PICK new : new = Append(events, e)
  OBVIOUS
<1>2. /\ Len(new) = Len(events) + 1 /\ Len(events) \in Nat /\ new[Len(new)] = e
      /\ \A i \in 1..Len(events) : new[i] = events[i]
  BY <1>1, AppendLog
<1>3. \A i \in 1..Len(new) : i \in 1..Len(events) \/ i = Len(new)
  BY <1>2
<1> QED
  BY <1>1, <1>2, <1>3 DEF Bounded

\* What DurationIsActiveTime needs besides IInv and LogInv.
DurationInv ==
    /\ clock <= MaxClock
    /\ active # None => Bounded(active.events)
    /\ DurationIsActiveTime

\* Steps that log nothing and finish nothing.
LEMMA DurationUntouched ==
    ASSUME DurationInv, clock' <= MaxClock, active' \in {None, active},
           pending' = None \/ UNCHANGED <<pending, duration>>
    PROVE  DurationInv'
BY DEF DurationInv, DurationIsActiveTime, Bounded, ActiveUnits, Activates

\* A pause or a resumption is logged at a time that has passed.
LEMMA DurationRecorder ==
    ASSUME IInv, LogInv, DurationInv, RecorderResumes \/ RecorderPauses
    PROVE  DurationInv'
<1>1. PICK type \in {"session_resumed", "session_paused"} :
        /\ active' = WithEvent(active, type, now)
        /\ pc \in {"resume", "pause"}
        /\ UNCHANGED <<clock, pending, duration>>
  BY DEF RecorderResumes, RecorderPauses
<1>2. /\ active # None /\ active \in Session /\ active.events \in Seq(CadEvent)
      /\ now \in Nat /\ clock \in Nat /\ pending = None
  BY <1>1, AtRecorder
<1>3. PICK e : e = [type |-> type, at |-> now]
  OBVIOUS
<1>4. e \in CadEvent /\ e.at <= MaxClock
  <2>1. now <= clock /\ clock <= MaxClock
    BY <1>1 DEF LogInv, DurationInv
  <2> QED
    BY <1>2, <1>3, <2>1, AgentAssumption DEF CadEvent, EventTypes
<1>5. active'.events = Append(active.events, e)
  BY <1>1, <1>2, <1>3, WithEventLog DEF EventTypes
<1>6. Bounded(Append(active.events, e))
  BY <1>2, <1>4, BoundedAppend DEF DurationInv
<1>7. Bounded(active.events)'
  BY <1>5, <1>6 DEF Bounded
<1> QED
  BY <1>1, <1>2, <1>7 DEF DurationInv, DurationIsActiveTime

\* The recorder stops: the session is finished and its duration calculated.
LEMMA DurationFinish ==
    ASSUME IInv, LogInv, DurationInv, RecorderStops
    PROVE  DurationInv'
<1>1. /\ active # None /\ active.events \in Seq(CadEvent) /\ active \in Session
      /\ clock \in Nat /\ clock <= MaxClock /\ Bounded(active.events)
  BY DEF RecorderStops, IInv, TypeOK, Control, Session, DurationInv
<1>2. PICK e : e = [type |-> "session_ended", at |-> clock]
  OBVIOUS
<1>3. e \in CadEvent /\ e.at <= MaxClock
  BY <1>1, <1>2 DEF CadEvent, EventTypes
<1>4. PICK log : log = Append(active.events, e)
  OBVIOUS
<1>5. pending'.events = log
  BY <1>1, <1>2, <1>4, WithEventLog DEF RecorderStops, Finish, EventTypes
<1>6. log \in Seq(CadEvent) /\ Len(log) >= 1 /\ Bounded(log)
  BY <1>1, <1>3, <1>4, BoundedAppend
<1>7. ClosedLog(log)
  BY <1>1, <1>2, <1>3, <1>4, LogEnds DEF LogInv
<1>8. CalculateActiveDuration(log) = Cardinality(ActiveUnits(log))
  BY <1>6, <1>7, ClosedLogCountable, DurationCounts
<1>9. DurationIsActiveTime'
  BY <1>5, <1>8 DEF RecorderStops, DurationIsActiveTime, ActiveUnits, Activates
<1> QED
  BY <1>1, <1>9 DEF RecorderStops, DurationInv

LEMMA DurationStep ==
    ASSUME IInv, LogInv, DurationInv, [Next]_vars
    PROVE  DurationInv'
<1>0. clock <= MaxClock /\ clock \in Nat
  BY DEF DurationInv, IInv, TypeOK
<1>1. CASE DetectApproved
  <2>1. CASE UNCHANGED active
    BY <1>0, <1>1, <2>1, DurationUntouched DEF DetectApproved
  <2>2. CASE active' = Start(started + 1, clock)
    <3>1. PICK e : e = [type |-> "session_started", at |-> clock]
      OBVIOUS
    <3>2. active'.events = <<e>> /\ e.at = clock
      BY <2>2, <3>1 DEF Start
    <3>3. Bounded(active.events)'
      BY <1>0, <3>2 DEF Bounded
    <3> QED
      BY <1>0, <1>1, <3>3
         DEF DetectApproved, DurationInv, DurationIsActiveTime, ActiveUnits, Activates
  <2> QED
    BY <1>1, <2>1, <2>2 DEF DetectApproved
<1>2. CASE RecorderResumes \/ RecorderPauses
  BY <1>2, DurationRecorder
<1>3. CASE RecorderStops
  BY <1>3, DurationFinish
<1>4. CASE Upload \/ Crash \/ Restart
  BY <1>0, <1>4, DurationUntouched DEF Upload, Crash, Restart, Forget
<1>5. CASE Failure
  BY <1>0, <1>5, DurationUntouched
     DEF Failure, DetectorFails, CleanUpFails, RecorderFails, WriteFails, UploadFails,
         coordinator
<1>6. CASE \/ Poll \/ DetectOther \/ RecorderStarts \/ OpenSource \/ StageRecording
           \/ CreatePackage \/ CleanUp \/ UploadRefused \/ Stop \/ ChangeSource
           \/ UNCHANGED vars
  BY <1>0, <1>6, DurationUntouched
     DEF Poll, DetectOther, RecorderStarts, OpenSource, StageRecording, CreatePackage,
         CleanUp, UploadRefused, Stop, ChangeSource, vars, coordinator
<1>7. CASE Tick
  <2>1. clock' <= MaxClock
    BY <1>0, <1>7, AgentAssumption DEF Tick
  <2> QED
    BY <1>7, <2>1, DurationUntouched DEF Tick, coordinator
<1> QED
  BY <1>1, <1>2, <1>3, <1>4, <1>5, <1>6, <1>7 DEF Next, Proceed

\* The duration reported for a finished session is the time its log says it was active.
THEOREM DurationCorrect == Spec => []DurationIsActiveTime
<1>1. Init => LogInv /\ DurationInv
  BY AgentAssumption DEF Init, LogInv, DurationInv, DurationIsActiveTime
<1>2. IInv /\ LogInv /\ DurationInv /\ [Next]_vars => LogInv' /\ DurationInv'
  BY LogStep, DurationStep
<1>3. DurationInv => DurationIsActiveTime
  BY DEF DurationInv
<1> QED
  BY <1>1, <1>2, <1>3, Inductive, PTL DEF Spec
=============================================================================
