--------------------------- MODULE PipelineProofs ---------------------------
(***************************************************************************)
(* Theorems about SessionPipeline: type correctness, and the safety of the *)
(* hand-over from the capture agent to the worker.                         *)
(***************************************************************************)
EXTENDS SessionPipeline, TLAPS

\* A running call has a session, a sent message has one, and a busy worker holds a
\* message that was sent.
RefsOK ==
    /\ \A h \in Handlers : calls[h].pc \notin {"off", "idle"} => calls[h].session \in Sessions
    /\ \A m \in Messages : queue[m].at # "unsent" => queue[m].session \in Sessions
    /\ \A w \in Workers : worker[w].pc # "idle" =>
            worker[w].msg \in Messages /\ queue[worker[w].msg].at # "unsent"

-----------------------------------------------------------------------------
\* The agent's steps (UploadAsync) keep the agent record and the row well typed.
LEMMA AgentTypes ==
    ASSUME TypeOK, NEW s \in Sessions
    PROVE  /\ Restarted \in Agent
           /\ NextAttempt(s) \in Agent
           /\ Accepted \in Agent
           /\ \A pc \in {"register", "reconcile", "presign", "put", "complete", "crashed"} :
                GoTo(s, pc) => agent' \in [Sessions -> Agent]
           /\ Create(s) => rows' \in [Sessions -> Session]
<1>1. Restarted \in Agent
  BY PipelineAssumption DEF Restarted, Agent
<1>2. NextAttempt(s) \in Agent
  BY <1>1, PipelineAssumption DEF NextAttempt, AttemptsLeft, Agent, TypeOK
<1>3. Accepted \in Agent
  BY <1>1 DEF Accepted, Agent
<1>4. ASSUME NEW pc \in {"register", "reconcile", "presign", "put", "complete", "crashed"},
             GoTo(s, pc)
      PROVE  agent' \in [Sessions -> Agent]
  <2>1. [Restarted EXCEPT !.pc = pc] \in Agent
    BY <1>1 DEF Agent
  <2> QED  BY <2>1, <1>4 DEF GoTo, TypeOK
<1>5. Create(s) => rows' \in [Sessions -> Session]
  BY DEF Create, Session, TypeOK
<1> QED  BY <1>1, <1>2, <1>3, <1>4, <1>5

\* The end of a complete_upload call keeps the calls and the agents well typed.
LEMMA AnswerTypes ==
    ASSUME TypeOK, NEW h \in Handlers, calls[h].session \in Sessions
    PROVE  /\ Answer(h, NextAttempt(calls[h].session)) => calls' \in [Handlers -> Call] /\ agent' \in [Sessions -> Agent]
           /\ Answer(h, Restarted) => calls' \in [Handlers -> Call] /\ agent' \in [Sessions -> Agent]
           /\ Answer(h, Accepted) => calls' \in [Handlers -> Call] /\ agent' \in [Sessions -> Agent]
<1>1. NoCall \in Call
  BY DEF NoCall, Call
<1>2. NextAttempt(calls[h].session) \in Agent /\ Restarted \in Agent /\ Accepted \in Agent
  BY AgentTypes
<1> QED  BY <1>1, <1>2 DEF Answer, TypeOK

\* Every step of an agent keeps the types and the references.
LEMMA AgentStepTypes ==
    ASSUME TypeOK, RefsOK, NEW s \in Sessions, AgentStep(s)
    PROVE  TypeOK' /\ RefsOK'
<1>1. faults' \in Nat
  BY PipelineAssumption DEF AgentStep, Register, Reconcile, Presign, Put, CallComplete, Unanswered,
        AgentCrash, Fault, NoFault, TypeOK
<1> DEFINE Kept ==
           /\ agent' \in [Sessions -> Agent]
           /\ rows' \in [Sessions -> Session]
           /\ raw' \in SUBSET Sessions
           /\ artifact' = artifact /\ queue' = queue /\ worker' = worker
           /\ calls' \in [Handlers -> Call]
           /\ \A h \in Handlers : calls'[h].pc \notin {"off", "idle"} => calls'[h].session \in Sessions
<1>2. Kept
  <2>1. CASE Register(s)
    BY <2>1, AgentTypes DEF Register, TypeOK, RefsOK
  <2>2. CASE Reconcile(s)
    BY <2>2, AgentTypes DEF Reconcile, TypeOK, RefsOK
  <2>3. CASE Presign(s)
    BY <2>3, AgentTypes DEF Presign, TypeOK, RefsOK
  <2>4. CASE Put(s)
    BY <2>4, AgentTypes DEF Put, TypeOK, RefsOK
  <2>5. ASSUME NEW h \in Handlers, CallComplete(s, h)
        PROVE  Kept
    <3>1. [agent[s] EXCEPT !.pc = "waiting", !.call = h] \in Agent
      BY DEF TypeOK, Agent
    <3>2. agent' = [agent EXCEPT ![s] = [agent[s] EXCEPT !.pc = "waiting", !.call = h]]
      BY <2>5 DEF CallComplete, TypeOK
    <3>3. agent' \in [Sessions -> Agent]
      BY <3>1, <3>2 DEF TypeOK
    <3>4. [pc |-> "verify", session |-> s] \in Call
      BY DEF Call
    <3>5. /\ calls' \in [Handlers -> Call]
          /\ \A g \in Handlers : calls'[g].pc \notin {"off", "idle"} => calls'[g].session \in Sessions
      BY <2>5, <3>4 DEF CallComplete, TypeOK, RefsOK
    <3> QED  BY <2>5, <3>3, <3>5 DEF CallComplete, TypeOK
  <2>6. CASE Unanswered(s)
    BY <2>6, AgentTypes DEF Unanswered, TypeOK, RefsOK
  <2>7. CASE AgentCrash(s)
    BY <2>7, AgentTypes DEF AgentCrash, TypeOK, RefsOK
  <2> QED  BY <2>1, <2>2, <2>3, <2>4, <2>5, <2>6, <2>7 DEF AgentStep
<1> QED  BY <1>1, <1>2 DEF TypeOK, RefsOK

\* Every step of a complete_upload call does.
LEMMA CallStepTypes ==
    ASSUME TypeOK, RefsOK, NEW h \in Handlers, CallStep(h)
    PROVE  TypeOK' /\ RefsOK'
<1>1. faults' \in Nat
  BY PipelineAssumption DEF CallStep, Verify, MarkUploaded, Enqueue, CallCrash, Fault, NoFault, TypeOK
<1>2. calls[h].session \in Sessions
  BY DEF CallStep, Verify, MarkUploaded, Enqueue, CallCrash, RefsOK
<1>3. ASSUME \/ Answer(h, NextAttempt(calls[h].session))
             \/ Answer(h, Restarted) \/ Answer(h, Accepted)
      PROVE  \A g \in Handlers : calls'[g].pc \notin {"off", "idle"} => calls'[g].session \in Sessions
  BY <1>3 DEF Answer, NoCall, RefsOK, TypeOK
<1>4. ASSUME NEW pc \in {"mark", "enqueue"}, Advance(h, pc)
      PROVE  /\ calls' \in [Handlers -> Call]
             /\ \A g \in Handlers : calls'[g].pc \notin {"off", "idle"} => calls'[g].session \in Sessions
  BY <1>2, <1>4 DEF Advance, RefsOK, TypeOK, Call
<1>5. /\ agent' \in [Sessions -> Agent]
      /\ rows' \in [Sessions -> Session]
      /\ raw' = raw /\ artifact' = artifact /\ worker' = worker
      /\ calls' \in [Handlers -> Call]
      /\ \A g \in Handlers : calls'[g].pc \notin {"off", "idle"} => calls'[g].session \in Sessions
  <2>1. CASE Verify(h)
    <3>1. rows' = rows /\ raw' = raw /\ artifact' = artifact /\ worker' = worker
      BY <2>1 DEF Verify
    <3>2. CASE Advance(h, "mark")
      BY <3>1, <3>2, <1>4 DEF Advance, TypeOK
    <3>3. CASE Answer(h, NextAttempt(calls[h].session)) \/ Answer(h, Restarted)
      BY <3>1, <3>3, <1>2, <1>3, AnswerTypes DEF TypeOK
    <3> QED  BY <2>1, <3>2, <3>3 DEF Verify
  <2>2. CASE MarkUploaded(h)
    <3>1. rows' \in [Sessions -> Session]
      <4> DEFINE s == calls[h].session
                 row == [rows[s] EXCEPT !.status = IF @ = "registered" THEN "uploaded" ELSE @]
      <4>1. rows[s] \in Session
        BY <1>2 DEF TypeOK
      <4>2. row \in Session
        BY <4>1 DEF Session
      <4>3. rows' = [rows EXCEPT ![s] = row]
        BY <2>2, Zenon DEF MarkUploaded
      <4> QED  BY <4>2, <4>3 DEF TypeOK
    <3>2. \/ Answer(h, NextAttempt(calls[h].session)) \/ Answer(h, Accepted)
          \/ \E pc \in {"mark", "enqueue"} : Advance(h, pc)
      BY <2>2 DEF MarkUploaded
    <3>3. (\E pc \in {"mark", "enqueue"} : Advance(h, pc)) => agent' = agent
      BY DEF Advance
    <3>4. /\ agent' \in [Sessions -> Agent] /\ calls' \in [Handlers -> Call]
          /\ \A g \in Handlers : calls'[g].pc \notin {"off", "idle"} => calls'[g].session \in Sessions
      BY <1>2, <1>3, <1>4, <3>2, <3>3, AnswerTypes DEF TypeOK
    <3>5. UNCHANGED <<raw, artifact, worker>>
      BY <2>2 DEF MarkUploaded
    <3> QED  BY <3>1, <3>4, <3>5 DEF TypeOK
  <2>3. CASE Enqueue(h)
    <3>1. Answer(h, NextAttempt(calls[h].session)) \/ Answer(h, Accepted)
      BY <2>3, Zenon DEF Enqueue
    <3>2. /\ agent' \in [Sessions -> Agent] /\ calls' \in [Handlers -> Call]
          /\ \A g \in Handlers : calls'[g].pc \notin {"off", "idle"} => calls'[g].session \in Sessions
      BY <1>2, <1>3, <3>1, AnswerTypes
    <3>3. UNCHANGED <<rows, raw, artifact, worker>>
      BY <2>3 DEF Enqueue
    <3> QED  BY <3>2, <3>3 DEF TypeOK
  <2>4. CASE CallCrash(h)
    BY <2>4, <1>2, <1>3, AnswerTypes DEF CallCrash, TypeOK
  <2> QED  BY <2>1, <2>2, <2>3, <2>4 DEF CallStep
<1>6. queue' = queue \/ \E m \in Messages : Send(calls[h].session, m)
  BY DEF CallStep, Verify, MarkUploaded, Enqueue, CallCrash
<1> DEFINE Kept ==
           /\ queue' \in [Messages -> Message]
           /\ \A m \in Messages : queue'[m].at # "unsent" => queue'[m].session \in Sessions
           /\ \A m \in Messages : queue[m].at # "unsent" => queue'[m].at # "unsent"
<1>7. Kept
  <2>1. CASE queue' = queue
    BY <2>1 DEF TypeOK, RefsOK
  <2>2. ASSUME NEW m \in Messages, Send(calls[h].session, m)
        PROVE  Kept
    <3>1. [at |-> "visible", session |-> calls[h].session, receives |-> 0] \in Message
      BY <1>2, PipelineAssumption DEF Message
    <3> QED  BY <2>2, <3>1, <1>2 DEF Send, TypeOK, RefsOK
  <2> QED  BY <1>6, <2>1, <2>2
<1>8. \A w \in Workers : worker'[w].pc # "idle" =>
            worker'[w].msg \in Messages /\ queue'[worker'[w].msg].at # "unsent"
  BY <1>5, <1>7 DEF RefsOK
<1> QED  BY <1>1, <1>5, <1>7, <1>8 DEF TypeOK, RefsOK

\* A message changes only where it is and how often it was received.
LEMMA QueueStepTypes ==
    ASSUME TypeOK, RefsOK, NEW m \in Messages, QueueStep(m)
    PROVE  TypeOK' /\ RefsOK'
<1>1. faults' \in Nat
  BY PipelineAssumption DEF QueueStep, VisibilityTimeout, Redrive, Expire, Fault, NoFault, TypeOK
<1>2. \E at \in {"visible", "dead", "expired"} : queue' = [queue EXCEPT ![m].at = at]
  BY DEF QueueStep, VisibilityTimeout, Redrive, Expire
<1>3. UNCHANGED <<agent, calls, rows, raw, artifact, worker>>
  BY DEF QueueStep, VisibilityTimeout, Redrive, Expire
<1>4. queue[m].at # "unsent"
  BY DEF QueueStep, VisibilityTimeout, Redrive, Expire
<1>5. queue' \in [Messages -> Message]
  BY <1>2 DEF TypeOK, Message
<1>6. \A n \in Messages : /\ queue'[n].session = queue[n].session
                          /\ queue'[n].at = "unsent" <=> queue[n].at = "unsent"
  BY <1>2, <1>4 DEF TypeOK, Message
<1> QED  BY <1>1, <1>3, <1>5, <1>6 DEF TypeOK, RefsOK

\* The worker's own record stays well typed.
LEMMA WorkerTypes ==
    ASSUME TypeOK, RefsOK, NEW w \in Workers, WorkerStep(w)
    PROVE  /\ worker' \in [Workers -> Worker]
           /\ \A v \in Workers : worker'[v].pc # "idle" =>
                \/ worker[v].pc # "idle" /\ worker'[v].msg = worker[v].msg
                \/ worker'[v].msg \in Messages /\ queue[worker'[v].msg].at = "visible"
<1>1. Idle \in Worker
  BY PipelineAssumption DEF Idle, Worker
<1>2. ASSUME Abandon(w)
      PROVE  /\ worker' \in [Workers -> Worker]
             /\ \A v \in Workers : worker'[v].pc # "idle" =>
                    worker[v].pc # "idle" /\ worker'[v].msg = worker[v].msg
  BY <1>1, <1>2 DEF Abandon, Idle, TypeOK
<1>3. ASSUME NEW pc \in {"publish", "callback", "delete"}, Step(w, pc), worker[w].pc # "idle"
      PROVE  /\ worker' \in [Workers -> Worker]
             /\ \A v \in Workers : worker'[v].pc # "idle" =>
                    worker[v].pc # "idle" /\ worker'[v].msg = worker[v].msg
  BY <1>3 DEF Step, TypeOK, Worker
<1>4. CASE \E m \in Messages : Receive(w, m)
  <2>1. PICK m \in Messages : Receive(w, m)
    BY <1>4
  <2>2. queue[m].receives + 1 \in 0..MaxReceives
    BY <2>1, PipelineAssumption DEF Receive, TypeOK, Message
  <2>3. [pc |-> "process", msg |-> m, receipt |-> queue[m].receives + 1, attempt |-> 1] \in Worker
    BY <2>2, PipelineAssumption DEF Worker
  <2> QED  BY <2>1, <2>3 DEF Receive, TypeOK
<1>5. CASE Process(w)
  BY <1>5, <1>2, <1>3 DEF Process
<1>6. CASE Publish(w)
  BY <1>6, <1>2, <1>3 DEF Publish
<1>7. CASE Callback(w)
  <2>1. CASE Step(w, "delete") \/ Abandon(w)
    BY <2>1, <1>7, <1>2, <1>3 DEF Callback
  <2>2. CASE worker' = [worker EXCEPT ![w] = Idle]
    BY <2>2, <1>2 DEF Abandon
  <2>3. CASE /\ worker[w].attempt < MaxAttempts
             /\ worker' = [worker EXCEPT ![w] = [worker[w] EXCEPT !.attempt = @ + 1]]
    <3>1. worker[w].attempt + 1 \in 1..MaxAttempts
      BY <2>3, PipelineAssumption DEF TypeOK, Worker
    <3>2. [worker[w] EXCEPT !.attempt = @ + 1] \in Worker
      BY <3>1 DEF TypeOK, Worker
    <3> QED  BY <2>3, <3>2, <1>7 DEF TypeOK, Worker, Callback
  <2> QED  BY <1>7, <2>1, <2>2, <2>3 DEF Callback
<1>8. CASE Delete(w)
  BY <1>8, <1>2 DEF Delete
<1>9. CASE WorkerCrash(w)
  BY <1>9, <1>2 DEF WorkerCrash
<1> QED  BY <1>4, <1>5, <1>6, <1>7, <1>8, <1>9 DEF WorkerStep

\* A worker's step keeps everything else well typed too.
LEMMA WorkerStepTypes ==
    ASSUME TypeOK, RefsOK, NEW w \in Workers, WorkerStep(w)
    PROVE  TypeOK' /\ RefsOK'
<1>1. faults' \in Nat
  <2>1. Fault \/ NoFault
    BY DEF WorkerStep, Receive, Process, Publish, Callback, Delete, WorkerCrash
  <2> QED  BY <2>1, PipelineAssumption DEF Fault, NoFault, TypeOK
<1>2. UNCHANGED <<agent, calls, raw>>
  BY DEF WorkerStep, Receive, Process, Publish, Callback, Delete, WorkerCrash
<1>3. rows' \in [Sessions -> Session] /\ artifact' \in [Sessions -> Results \cup {None}]
  <2>1. CASE Publish(w)
    BY <2>1, PipelineAssumption DEF Publish, StoreIfAbsent, TypeOK
  <2>2. CASE Callback(w)
    <3>1. [status |-> "processed", completion |-> Build[w]] \in Session
      BY PipelineAssumption DEF Session
    <3> QED  BY <2>2, <3>1 DEF Callback, CompleteProcessing, TypeOK
  <2> QED  BY <2>1, <2>2 DEF WorkerStep, Receive, Process, Delete, WorkerCrash, TypeOK
<1>4. /\ queue' \in [Messages -> Message]
      /\ \A n \in Messages : /\ queue'[n].session = queue[n].session
                             /\ queue'[n].at = "unsent" <=> queue[n].at = "unsent"
  <2>1. CASE \E m \in Messages : Receive(w, m)
    <3>1. PICK m \in Messages : Receive(w, m)
      BY <2>1
    <3>2. queue[m].receives + 1 \in 0..MaxReceives
      BY <3>1, PipelineAssumption DEF Receive, TypeOK, Message
    <3>3. queue' = [queue EXCEPT ![m] = [queue[m] EXCEPT !.at = "inflight", !.receives = @ + 1]]
      BY <3>1 DEF Receive, TypeOK, Message
    <3>4. [queue[m] EXCEPT !.at = "inflight", !.receives = @ + 1] \in Message
      BY <3>2 DEF TypeOK, Message
    <3> QED  BY <3>1, <3>3, <3>4 DEF Receive, TypeOK, Message
  <2>2. CASE Delete(w)
    <3> DEFINE m == worker[w].msg
               deleted == [queue[m] EXCEPT !.at = "deleted"]
    <3>1. m \in Messages /\ queue[m].at # "unsent"
      BY <2>2 DEF Delete, RefsOK
    <3>2. UNCHANGED queue \/ queue' = [queue EXCEPT ![m] = deleted]
      BY <2>2, Zenon DEF Delete
    <3>3. queue[m] \in Message
      BY <3>1 DEF TypeOK
    <3>4. deleted \in Message /\ deleted.session = queue[m].session /\ deleted.at = "deleted"
      BY <3>3 DEF Message
    <3> HIDE DEF deleted, m
    <3>5. CASE UNCHANGED queue
      BY <3>5 DEF TypeOK
    <3>6. CASE queue' = [queue EXCEPT ![m] = deleted]
      BY <3>1, <3>4, <3>6 DEF TypeOK
    <3> QED  BY <3>2, <3>5, <3>6
  <2> QED  BY <2>1, <2>2 DEF WorkerStep, Process, Publish, Callback, WorkerCrash, TypeOK
<1>5. \A v \in Workers : worker'[v].pc # "idle" =>
            worker'[v].msg \in Messages /\ queue'[worker'[v].msg].at # "unsent"
  BY <1>4, WorkerTypes DEF RefsOK
<1> QED  BY <1>1, <1>2, <1>3, <1>4, <1>5, WorkerTypes DEF TypeOK, RefsOK

\* The types and references are inductive.
LEMMA TypeStep == TypeOK /\ RefsOK /\ [Next]_vars => TypeOK' /\ RefsOK'
<1> SUFFICES ASSUME TypeOK, RefsOK, [Next]_vars PROVE TypeOK' /\ RefsOK'
  OBVIOUS
<1>1. CASE Next
  BY <1>1, AgentStepTypes, CallStepTypes, QueueStepTypes, WorkerStepTypes DEF Next
<1>2. CASE UNCHANGED vars
  BY <1>2 DEF vars, TypeOK, RefsOK
<1> QED  BY <1>1, <1>2

\* The initial state has the types and references.
LEMMA InitTypes == Init => TypeOK /\ RefsOK
<1> SUFFICES ASSUME Init PROVE TypeOK /\ RefsOK
  OBVIOUS
<1>1. Restarted \in Agent /\ NoCall \in Call /\ Idle \in Worker
  BY PipelineAssumption DEF Restarted, Agent, NoCall, Call, Idle, Worker
<1>2. [at |-> "unsent", session |-> None, receives |-> 0] \in Message
  BY PipelineAssumption DEF Message
<1>3. [status |-> "absent", completion |-> None] \in Session
  BY DEF Session
<1>4. ASSUME NEW n \in Handlers
      PROVE  /\ Deployed(n) \in [Handlers -> Call]
             /\ \A h \in Handlers : Deployed(n)[h].pc \in {"off", "idle"}
  BY DEF Deployed, NoCall, Call
<1> QED  BY <1>1, <1>2, <1>3, <1>4 DEF Init, TypeOK, RefsOK, Idle

\* The pipeline never leaves its types: attempts and receive counts stay within their
\* limits, and every call, message and worker refers to something that exists.
THEOREM TypeCorrect == Spec => []TypeOK
<1>1. Spec => [](TypeOK /\ RefsOK)
  BY InitTypes, TypeStep, PTL DEF Spec
<1> QED  BY <1>1, PTL

-----------------------------------------------------------------------------
Marked == {"uploaded", "processed"}

\* What the rows say about everyone who acts on a session: registered before the agent
\* goes on, marked before anything is sent, processed exactly when a result is stored.
LifecycleOK ==
    /\ \A s \in Sessions :
        /\ agent[s].pc \notin {"register", "crashed"} => rows[s].status # "absent"
        /\ rows[s].status = "processed" <=> rows[s].completion # None
    /\ \A h \in Handlers :
        /\ calls[h].pc \notin {"off", "idle"} => rows[calls[h].session].status # "absent"
        /\ calls[h].pc = "enqueue" => rows[calls[h].session].status \in Marked
    /\ \A m \in Messages : queue[m].at # "unsent" => rows[queue[m].session].status \in Marked

\* A worker past the conditional put holds the published result, and one that may
\* delete its message has seen it stored.
PublishedOK ==
    /\ \A w \in Workers :
        /\ worker[w].pc \in {"callback", "delete"} => artifact[SessionOf(w)] = Build[w]
        /\ worker[w].pc = "delete" => rows[SessionOf(w)].status = "processed"
    /\ CompletionMatchesArtifact

\* Who writes a row: create, mark_uploaded, and a worker's callback.
LEMMA RowsChange ==
    ASSUME [Next]_vars
    PROVE  \/ rows' = rows
           \/ \E r \in Sessions : Create(r)
           \/ \E h \in Handlers : MarkUploaded(h)
           \/ \E w \in Workers : Callback(w)
<1>1. ASSUME NEW r \in Sessions, AgentStep(r)  PROVE rows' = rows \/ Create(r)
  BY <1>1 DEF AgentStep, Register, Reconcile, Presign, Put, CallComplete, Unanswered, AgentCrash
<1>2. ASSUME NEW h \in Handlers, CallStep(h)  PROVE rows' = rows \/ MarkUploaded(h)
  BY <1>2 DEF CallStep, Verify, Enqueue, CallCrash
<1>3. ASSUME NEW m \in Messages, QueueStep(m)  PROVE rows' = rows
  BY <1>3 DEF QueueStep, VisibilityTimeout, Redrive, Expire
<1>4. ASSUME NEW w \in Workers, WorkerStep(w)  PROVE rows' = rows \/ Callback(w)
  BY <1>4 DEF WorkerStep, Receive, Process, Publish, Delete, WorkerCrash
<1>5. CASE UNCHANGED vars
  BY <1>5 DEF vars
<1> QED  BY <1>1, <1>2, <1>3, <1>4, <1>5 DEF Next

\* A row only moves forward: create, mark_uploaded, and complete_processing by a
\* worker whose callback is under way.
LEMMA RowsMove ==
    ASSUME TypeOK, RefsOK, [Next]_vars, NEW s \in Sessions
    PROVE  \/ rows'[s] = rows[s]
           \/ /\ rows[s].status = "absent" /\ rows'[s].status = "registered"
              /\ rows'[s].completion = rows[s].completion
           \/ /\ rows[s].status = "registered" /\ rows'[s].status = "uploaded"
              /\ rows'[s].completion = rows[s].completion
           \/ /\ Completes(rows[s])
              /\ \E w \in Workers :
                    /\ worker[w].pc = "callback" /\ SessionOf(w) = s
                    /\ rows'[s] = [status |-> "processed", completion |-> Build[w]]
<1> DEFINE Goal == \/ rows'[s] = rows[s]
                   \/ /\ rows[s].status = "absent" /\ rows'[s].status = "registered"
                      /\ rows'[s].completion = rows[s].completion
                   \/ /\ rows[s].status = "registered" /\ rows'[s].status = "uploaded"
                      /\ rows'[s].completion = rows[s].completion
                   \/ /\ Completes(rows[s])
                      /\ \E w \in Workers :
                            /\ worker[w].pc = "callback" /\ SessionOf(w) = s
                            /\ rows'[s] = [status |-> "processed", completion |-> Build[w]]
<1>1. CASE rows' = rows
  BY <1>1
<1>2. ASSUME NEW r \in Sessions, Create(r)  PROVE Goal
  BY <1>2 DEF Create, TypeOK, Session
<1>3. ASSUME NEW h \in Handlers, MarkUploaded(h)  PROVE Goal
  <2>1. calls[h].session \in Sessions
    BY <1>3 DEF MarkUploaded, RefsOK
  <2> QED  BY <1>3, <2>1 DEF MarkUploaded, TypeOK, Session
<1>4. ASSUME NEW w \in Workers, Callback(w), rows' # rows  PROVE Goal
  <2>1. SessionOf(w) \in Sessions
    BY <1>4 DEF Callback, RefsOK, SessionOf
  <2>2. /\ worker[w].pc = "callback"
        /\ rows' = [rows EXCEPT ![SessionOf(w)] =
                        IF Completes(@) THEN [status |-> "processed", completion |-> Build[w]]
                        ELSE @]
    BY <1>4 DEF Callback, CompleteProcessing
  <2> QED  BY <2>1, <2>2 DEF TypeOK
<1> QED  BY <1>1, <1>2, <1>3, <1>4, RowsChange

\* A registered row stays registered or beyond, a marked one marked or beyond, a
\* completed one as it is.
LEMMA MarkedStays ==
    ASSUME TypeOK, RefsOK, [Next]_vars, NEW s \in Sessions
    PROVE  /\ rows[s].status # "absent" => rows'[s].status # "absent"
           /\ rows[s].status \in Marked => rows'[s].status \in Marked
           /\ rows[s].status = "processed" => rows'[s] = rows[s]
<1>1. CASE \E w \in Workers : /\ Completes(rows[s])
                              /\ rows'[s] = [status |-> "processed", completion |-> Build[w]]
  BY <1>1 DEF Completes, Marked
<1>2. CASE rows'[s] = rows[s]
  BY <1>2
<1>3. CASE rows[s].status = "absent" /\ rows'[s].status = "registered"
  BY <1>3 DEF Marked
<1>4. CASE rows[s].status = "registered" /\ rows'[s].status = "uploaded"
  BY <1>4 DEF Marked
<1> QED  BY <1>1, <1>2, <1>3, <1>4, RowsMove

\* The conditional put never replaces an artifact.
LEMMA ArtifactsStay ==
    ASSUME TypeOK, RefsOK, [Next]_vars, NEW s \in Sessions
    PROVE  artifact[s] # None => artifact'[s] = artifact[s]
<1>1. ASSUME NEW w \in Workers, Publish(w)  PROVE artifact[s] # None => artifact'[s] = artifact[s]
  BY <1>1 DEF Publish, StoreIfAbsent, TypeOK
<1>2. artifact' = artifact \/ \E w \in Workers : Publish(w)
  BY DEF Next, vars, AgentStep, Register, Reconcile, Presign, Put, CallComplete, Unanswered,
         AgentCrash, CallStep, Verify, MarkUploaded, Enqueue, CallCrash, QueueStep,
         VisibilityTimeout, Redrive, Expire, WorkerStep, Receive, Process, Callback, Delete, WorkerCrash
<1> QED  BY <1>1, <1>2

\* A message keeps its session, is deleted only by a worker, and expires for good.
LEMMA MessagesStay ==
    ASSUME TypeOK, RefsOK, [Next]_vars, NEW m \in Messages, queue[m].at # "unsent"
    PROVE  /\ queue'[m].session = queue[m].session
           /\ queue'[m].at # "unsent"
           /\ \/ queue[m].at = "deleted"
              \/ queue'[m].at # "deleted"
              \/ \E w \in Workers : worker[w].pc = "delete" /\ worker[w].msg = m
           /\ queue[m].at = "expired" => queue'[m].at = "expired"
<1> DEFINE Goal == /\ queue'[m].session = queue[m].session
                   /\ queue'[m].at # "unsent"
                   /\ \/ queue[m].at = "deleted"
                      \/ queue'[m].at # "deleted"
                      \/ \E w \in Workers : worker[w].pc = "delete" /\ worker[w].msg = m
                   /\ queue[m].at = "expired" => queue'[m].at = "expired"
<1>1. CASE queue' = queue
  BY <1>1
<1>2. ASSUME NEW h \in Handlers, NEW s, NEW n \in Messages, Send(s, n)  PROVE Goal
  BY <1>2 DEF Send, TypeOK, Message
<1>3. ASSUME NEW n \in Messages, QueueStep(n)  PROVE Goal
  BY <1>3 DEF QueueStep, VisibilityTimeout, Redrive, Expire, TypeOK, Message
<1>4. ASSUME NEW w \in Workers, NEW n \in Messages, Receive(w, n)  PROVE Goal
  <2>1. queue' = [queue EXCEPT ![n] = [queue[n] EXCEPT !.at = "inflight", !.receives = @ + 1]]
    BY <1>4 DEF Receive, TypeOK, Message
  <2> QED  BY <1>4, <2>1 DEF Receive, TypeOK, Message
<1>5. ASSUME NEW w \in Workers, Delete(w)  PROVE Goal
  BY <1>5 DEF Delete, TypeOK, Message, RefsOK
<1>6. \/ queue' = queue
      \/ \E h \in Handlers, n \in Messages : Send(calls[h].session, n)
      \/ \E n \in Messages : QueueStep(n)
      \/ \E w \in Workers, n \in Messages : Receive(w, n)
      \/ \E w \in Workers : Delete(w)
  BY DEF Next, vars, AgentStep, Register, Reconcile, Presign, Put, CallComplete, Unanswered,
         AgentCrash, CallStep, Verify, MarkUploaded, Enqueue, CallCrash,
         WorkerStep, Process, Publish, Callback, WorkerCrash
<1> QED  BY <1>1, <1>2, <1>3, <1>4, <1>5, <1>6

\* Who may be past registration: an agent that was, that just registered, or that an
\* ending call answered.
LEMMA AgentsMove ==
    ASSUME TypeOK, RefsOK, [Next]_vars, NEW s \in Sessions,
           agent'[s].pc \notin {"register", "crashed"}
    PROVE  \/ agent[s].pc \notin {"register", "crashed"}
           \/ agent[s].pc = "register" /\ rows'[s].status # "absent"
           \/ \E h \in Handlers : calls[h].pc \notin {"off", "idle"} /\ calls[h].session = s
<1> DEFINE Goal == \/ agent[s].pc \notin {"register", "crashed"}
                   \/ agent[s].pc = "register" /\ rows'[s].status # "absent"
                   \/ \E h \in Handlers : calls[h].pc \notin {"off", "idle"} /\ calls[h].session = s
<1>1. ASSUME NEW r \in Sessions, AgentStep(r), agent[r].pc \notin {"register", "crashed"}
      PROVE  Goal
  BY <1>1 DEF AgentStep, Register, Reconcile, Presign, Put, CallComplete, Unanswered, AgentCrash,
        GoTo, TypeOK, Agent
<1>2. ASSUME NEW r \in Sessions, Register(r)  PROVE Goal
  <2>1. \A q \in Sessions \ {r} : agent'[q] = agent[q]
    BY <1>2 DEF Register, GoTo, TypeOK
  <2>2. CASE s # r
    BY <2>1, <2>2
  <2>3. CASE s = r
    <3>1. agent[s].pc = "register" /\ (UNCHANGED agent \/ Create(s))
      BY <1>2, <2>3 DEF Register
    <3>2. Create(s) => rows'[s].status # "absent"
      BY DEF Create, TypeOK, Session
    <3> QED  BY <3>1, <3>2
  <2> QED  BY <2>2, <2>3
<1>3. ASSUME NEW r \in Sessions, AgentCrash(r)  PROVE Goal
  BY <1>3 DEF AgentCrash, GoTo, TypeOK, Agent, Restarted
<1>4. ASSUME NEW h \in Handlers, CallStep(h)  PROVE Goal
  <2>1. calls[h].pc \notin {"off", "idle"} /\ calls[h].session \in Sessions
    BY <1>4 DEF CallStep, Verify, MarkUploaded, Enqueue, CallCrash, RefsOK
  <2>2. \A r \in Sessions \ {calls[h].session} : agent'[r] = agent[r]
    BY <1>4, <2>1 DEF CallStep, Verify, MarkUploaded, Enqueue, CallCrash, Answer, Advance, TypeOK
  <2> QED  BY <2>1, <2>2
<1>5. CASE agent' = agent
  BY <1>5
<1>6. \/ agent' = agent
      \/ \E r \in Sessions : AgentStep(r)
      \/ \E h \in Handlers : CallStep(h)
  BY DEF Next, vars, QueueStep, VisibilityTimeout, Redrive, Expire, WorkerStep, Receive, Process, Publish,
         Callback, Delete, WorkerCrash
<1>7. ASSUME NEW r \in Sessions, AgentStep(r), agent[r].pc \in {"register", "crashed"}
      PROVE  Register(r) \/ AgentCrash(r)
  BY <1>7 DEF AgentStep, Reconcile, Presign, Put, CallComplete, Unanswered
<1> QED  BY <1>1, <1>2, <1>3, <1>4, <1>5, <1>6, <1>7

\* Who moves a call: the agent that starts it, and the handler itself.
LEMMA CallsChange ==
    ASSUME TypeOK, [Next]_vars, NEW h \in Handlers
    PROVE  \/ calls'[h] = calls[h]
           \/ \E s \in Sessions : CallComplete(s, h)
           \/ CallStep(h)
<1>1. ASSUME NEW s \in Sessions, NEW g \in Handlers, CallComplete(s, g), g # h
      PROVE  calls'[h] = calls[h]
  BY <1>1 DEF CallComplete, TypeOK
<1>2. ASSUME NEW g \in Handlers, CallStep(g), g # h  PROVE calls'[h] = calls[h]
  BY <1>2 DEF CallStep, Verify, MarkUploaded, Enqueue, CallCrash, Advance, Answer, TypeOK
<1>3. \/ calls' = calls
      \/ \E s \in Sessions, g \in Handlers : CallComplete(s, g)
      \/ \E g \in Handlers : CallStep(g)
  BY DEF Next, vars, AgentStep, Register, Reconcile, Presign, Put, Unanswered, AgentCrash,
       QueueStep, VisibilityTimeout, Redrive, Expire, WorkerStep, Receive, Process, Publish,
       Callback, Delete, WorkerCrash
<1> QED  BY <1>1, <1>2, <1>3

\* A call starts for an agent past registration and reaches the send only by marking.
LEMMA CallsMove ==
    ASSUME TypeOK, RefsOK, LifecycleOK, [Next]_vars, NEW h \in Handlers, calls'[h].pc \notin {"off", "idle"}
    PROVE  /\ calls'[h].session \in Sessions
           /\ rows[calls'[h].session].status # "absent"
           /\ calls'[h].pc = "enqueue" => rows'[calls'[h].session].status \in Marked
<1> DEFINE Goal == /\ calls'[h].session \in Sessions
                   /\ rows[calls'[h].session].status # "absent"
                   /\ calls'[h].pc = "enqueue" => rows'[calls'[h].session].status \in Marked
<1>1. ASSUME calls'[h] = calls[h]  PROVE Goal
  <2>1. calls[h].session \in Sessions /\ rows[calls[h].session].status # "absent"
    BY <1>1 DEF LifecycleOK, RefsOK
  <2>2. calls[h].pc = "enqueue" => rows[calls[h].session].status \in Marked
    BY DEF LifecycleOK
  <2>3. \A s \in Sessions : rows[s].status \in Marked => rows'[s].status \in Marked
    BY MarkedStays
  <2> QED  BY <1>1, <2>1, <2>2, <2>3
<1>2. ASSUME NEW s \in Sessions, CallComplete(s, h)  PROVE Goal
  BY <1>2 DEF CallComplete, LifecycleOK, TypeOK
<1>3. ASSUME CallStep(h)  PROVE Goal
  <2>1. calls[h].session \in Sessions /\ rows[calls[h].session].status # "absent"
    BY <1>3 DEF CallStep, Verify, MarkUploaded, Enqueue, CallCrash, RefsOK, LifecycleOK
  <2>2. CASE Verify(h)
    BY <2>1, <2>2 DEF Verify, Advance, Answer, NoCall, TypeOK, Call
  <2>3. CASE MarkUploaded(h)
    <3>1. Advance(h, "enqueue") /\ QueuePending(rows[calls[h].session].status)
      BY <2>3 DEF MarkUploaded, Answer, NoCall, TypeOK
    <3>2. rows'[calls[h].session].status \in Marked
      BY <2>1, <2>3, <3>1 DEF MarkUploaded, QueuePending, Marked, TypeOK, Session
    <3> QED  BY <2>1, <3>1, <3>2 DEF Advance, TypeOK, Call
  <2>4. CASE Enqueue(h) \/ CallCrash(h)
    BY <2>4 DEF Enqueue, CallCrash, Answer, NoCall, TypeOK
  <2> QED  BY <1>3, <2>2, <2>3, <2>4 DEF CallStep
<1> QED  BY <1>1, <1>2, <1>3, CallsChange

\* A message is sent only by a call that has marked its session.
LEMMA SendsFromCalls ==
    ASSUME TypeOK, RefsOK, [Next]_vars, NEW m \in Messages,
           queue[m].at = "unsent", queue'[m].at # "unsent"
    PROVE  \E h \in Handlers : calls[h].pc = "enqueue" /\ queue'[m].session = calls[h].session
<1>1. ASSUME NEW h \in Handlers, NEW n \in Messages, Enqueue(h), Send(calls[h].session, n)
      PROVE  calls[h].pc = "enqueue" /\ queue'[m].session = calls[h].session
  <2>1. n = m
    BY <1>1 DEF Send, TypeOK, Message
  <2> QED  BY <1>1, <2>1 DEF Enqueue, Send, TypeOK
<1>2. ASSUME NEW n \in Messages, QueueStep(n)  PROVE FALSE
  BY <1>2 DEF QueueStep, VisibilityTimeout, Redrive, Expire, TypeOK, Message
<1>3. ASSUME NEW w \in Workers, NEW n \in Messages, Receive(w, n)  PROVE FALSE
  BY <1>3 DEF Receive, TypeOK, Message
<1>4. ASSUME NEW w \in Workers, Delete(w)  PROVE FALSE
  BY <1>4 DEF Delete, TypeOK, Message, RefsOK
<1>5. \/ queue' = queue
      \/ \E h \in Handlers, n \in Messages : Enqueue(h) /\ Send(calls[h].session, n)
      \/ \E n \in Messages : QueueStep(n)
      \/ \E w \in Workers, n \in Messages : Receive(w, n)
      \/ \E w \in Workers : Delete(w)
  BY DEF Next, vars, AgentStep, Register, Reconcile, Presign, Put, CallComplete, Unanswered,
         AgentCrash, CallStep, Verify, MarkUploaded, Enqueue, CallCrash,
         WorkerStep, Process, Publish, Callback, WorkerCrash
<1> QED  BY <1>1, <1>2, <1>3, <1>4, <1>5

\* So it is sent only for a marked session.
LEMMA SendsMarked ==
    ASSUME TypeOK, RefsOK, LifecycleOK, [Next]_vars, NEW m \in Messages,
           queue[m].at = "unsent", queue'[m].at # "unsent"
    PROVE  queue'[m].session \in Sessions /\ rows[queue'[m].session].status \in Marked
BY SendsFromCalls DEF RefsOK, LifecycleOK

\* LifecycleOK is inductive.
LEMMA LifecycleStep ==
    ASSUME TypeOK, RefsOK, LifecycleOK, [Next]_vars
    PROVE  LifecycleOK'
<1>1. ASSUME NEW s \in Sessions, agent'[s].pc \notin {"register", "crashed"}
      PROVE  rows'[s].status # "absent"
  BY <1>1, AgentsMove, MarkedStays DEF LifecycleOK
<1>2. ASSUME NEW s \in Sessions
      PROVE  rows'[s].status = "processed" <=> rows'[s].completion # None
  <2>1. rows[s].status = "processed" <=> rows[s].completion # None
    BY DEF LifecycleOK
  <2>2. CASE \E w \in Workers : rows'[s] = [status |-> "processed", completion |-> Build[w]]
    BY <2>2, PipelineAssumption
  <2>3. CASE rows'[s] = rows[s]
    BY <2>1, <2>3
  <2>4. CASE /\ rows[s].status \in {"absent", "registered"}
             /\ rows'[s].status \in {"registered", "uploaded"}
             /\ rows'[s].completion = rows[s].completion
    BY <2>1, <2>4
  <2> QED  BY <2>2, <2>3, <2>4, RowsMove
<1>3. ASSUME NEW h \in Handlers
      PROVE  /\ calls'[h].pc \notin {"off", "idle"} => rows'[calls'[h].session].status # "absent"
             /\ calls'[h].pc = "enqueue" => rows'[calls'[h].session].status \in Marked
  BY CallsMove, MarkedStays
<1>4. ASSUME NEW m \in Messages, queue'[m].at # "unsent"
      PROVE  rows'[queue'[m].session].status \in Marked
  <2>1. CASE queue[m].at = "unsent"
    BY <2>1, <1>4, SendsMarked, MarkedStays
  <2>2. CASE queue[m].at # "unsent"
    BY <2>2, MessagesStay, MarkedStays DEF LifecycleOK, RefsOK
  <2> QED  BY <2>1, <2>2
<1> QED  BY <1>1, <1>2, <1>3, <1>4 DEF LifecycleOK, Marked

\* How a worker comes to its callback and to its deletion.
LEMMA WorkersMove ==
    ASSUME TypeOK, RefsOK, LifecycleOK, [Next]_vars, NEW w \in Workers,
           worker'[w].pc \in {"callback", "delete"}
    PROVE  /\ worker[w].pc \in {"publish", "callback", "delete"}
           /\ worker'[w].msg = worker[w].msg
           /\ worker[w].pc = "publish" =>
                /\ worker'[w].pc = "callback"
                /\ artifact'[SessionOf(w)] = Build[w]
           /\ worker[w].pc = "callback" /\ worker'[w].pc = "delete" =>
                /\ Accepts(rows[SessionOf(w)], Build[w])
                /\ CompleteProcessing(SessionOf(w), Build[w])
<1> DEFINE Goal == /\ worker[w].pc \in {"publish", "callback", "delete"}
                   /\ worker'[w].msg = worker[w].msg
                   /\ worker[w].pc = "publish" =>
                        /\ worker'[w].pc = "callback"
                        /\ artifact'[SessionOf(w)] = Build[w]
                   /\ worker[w].pc = "callback" /\ worker'[w].pc = "delete" =>
                        /\ Accepts(rows[SessionOf(w)], Build[w])
                        /\ CompleteProcessing(SessionOf(w), Build[w])
<1>1. CASE worker'[w] = worker[w]
  BY <1>1
<1>2. ASSUME NEW m \in Messages, Receive(w, m)  PROVE FALSE
  BY <1>2 DEF Receive, TypeOK
<1>3. ASSUME Abandon(w)  PROVE FALSE
  BY <1>3 DEF Abandon, Idle, TypeOK
<1>4. ASSUME Process(w)  PROVE FALSE
  BY <1>4, <1>3 DEF Process, Step, TypeOK, Worker
<1>5. ASSUME Publish(w)  PROVE Goal
  <2>1. worker[w].pc = "publish" /\ Step(w, "callback") /\ VerifyExisting(w)
    BY <1>5, <1>3 DEF Publish
  <2> QED  BY <2>1 DEF Step, VerifyExisting, TypeOK, Worker
<1>6. ASSUME Callback(w)  PROVE Goal
  <2>1. worker[w].pc = "callback"
    BY <1>6 DEF Callback
  <2>2. CASE /\ CompleteProcessing(SessionOf(w), Build[w])
             /\ Accepts(rows[SessionOf(w)], Build[w])
             /\ Step(w, "delete")
    BY <2>1, <2>2 DEF Step, TypeOK, Worker
  <2>3. CASE worker' = [worker EXCEPT ![w] = [worker[w] EXCEPT !.attempt = @ + 1]]
    BY <2>1, <2>3 DEF TypeOK, Worker
  <2>4. CASE worker' = [worker EXCEPT ![w] = Idle]
    BY <2>4, <1>3 DEF Abandon
  <2> QED  BY <1>6, <1>3, <2>2, <2>3, <2>4 DEF Callback
<1>7. ASSUME Delete(w) \/ WorkerCrash(w)  PROVE FALSE
  BY <1>7, <1>3 DEF Delete, WorkerCrash
<1>8. worker'[w] = worker[w] \/ WorkerStep(w)
  <2>1. ASSUME NEW v \in Workers, WorkerStep(v), v # w  PROVE worker'[w] = worker[w]
    BY <2>1 DEF WorkerStep, Receive, Process, Publish, Callback, Delete, WorkerCrash, Abandon, Step,
          TypeOK
  <2>2. worker' = worker \/ \E v \in Workers : WorkerStep(v)
    BY DEF Next, vars, AgentStep, Register, Reconcile, Presign, Put, CallComplete, Unanswered,
         AgentCrash, CallStep, Verify, MarkUploaded, Enqueue, CallCrash, QueueStep,
         VisibilityTimeout, Redrive, Expire
  <2> QED  BY <2>1, <2>2
<1> QED  BY <1>1, <1>2, <1>4, <1>5, <1>6, <1>7, <1>8 DEF WorkerStep

\* PublishedOK is inductive.
LEMMA PublishedStep ==
    ASSUME TypeOK, RefsOK, LifecycleOK, PublishedOK, [Next]_vars
    PROVE  PublishedOK'
<1>1. ASSUME NEW w \in Workers, worker'[w].pc \in {"callback", "delete"}
      PROVE  /\ SessionOf(w) \in Sessions
             /\ SessionOf(w)' = SessionOf(w)
             /\ artifact'[SessionOf(w)] = Build[w]
             /\ worker'[w].pc = "delete" => rows'[SessionOf(w)].status = "processed"
  <2>1. worker[w].pc \in {"publish", "callback", "delete"} /\ worker'[w].msg = worker[w].msg
    BY <1>1, WorkersMove
  <2>2. worker[w].msg \in Messages /\ queue[worker[w].msg].at # "unsent"
    BY <2>1 DEF RefsOK
  <2>3. SessionOf(w) \in Sessions /\ SessionOf(w)' = SessionOf(w)
    BY <2>1, <2>2, MessagesStay DEF SessionOf, RefsOK
  <2>4. artifact'[SessionOf(w)] = Build[w]
    <3>1. CASE worker[w].pc = "publish"
      BY <3>1, <1>1, WorkersMove
    <3>2. CASE worker[w].pc \in {"callback", "delete"}
      BY <3>2, <2>3, ArtifactsStay, PipelineAssumption DEF PublishedOK
    <3> QED  BY <2>1, <3>1, <3>2
  <2>5. ASSUME worker'[w].pc = "delete"
        PROVE  rows'[SessionOf(w)].status = "processed"
    <3>1. CASE worker[w].pc = "delete"
      BY <3>1, <2>3, MarkedStays DEF PublishedOK
    <3>2. CASE worker[w].pc = "callback"
      <4>1. /\ Accepts(rows[SessionOf(w)], Build[w])
            /\ CompleteProcessing(SessionOf(w), Build[w])
        BY <3>2, <2>5, <1>1, WorkersMove
      <4>2. CASE Completes(rows[SessionOf(w)])
        BY <4>1, <4>2, <2>3 DEF CompleteProcessing, TypeOK
      <4>3. CASE rows[SessionOf(w)].completion = Build[w]
        <5>1. rows[SessionOf(w)].status = "processed"
          BY <4>3, <2>3, PipelineAssumption DEF LifecycleOK
        <5> QED  BY <5>1, <2>3, MarkedStays
      <4> QED  BY <4>1, <4>2, <4>3 DEF Accepts
    <3> QED  BY <2>1, <2>5, <1>1, <3>1, <3>2, WorkersMove
  <2> QED  BY <2>3, <2>4, <2>5
<1>2. ASSUME NEW s \in Sessions, rows'[s].completion # None
      PROVE  rows'[s].completion = artifact'[s]
  <2>1. CASE rows'[s].completion = rows[s].completion
    BY <2>1, <1>2, ArtifactsStay DEF PublishedOK, CompletionMatchesArtifact
  <2>2. ASSUME NEW w \in Workers, worker[w].pc = "callback", SessionOf(w) = s,
               rows'[s] = [status |-> "processed", completion |-> Build[w]]
        PROVE  rows'[s].completion = artifact'[s]
    <3>1. artifact[s] = Build[w]
      BY <2>2 DEF PublishedOK
    <3>2. artifact'[s] = Build[w]
      BY <3>1, ArtifactsStay, PipelineAssumption
    <3> QED  BY <2>2, <3>2
  <2> QED  BY <2>1, <2>2, RowsMove
<1>3. CompletionMatchesArtifact'
  BY <1>2 DEF CompletionMatchesArtifact
<1> QED  BY <1>1, <1>3 DEF PublishedOK

\* An agent is told of success only by a call that found its session processed, or
\* that sent a message.
LEMMA Acceptance ==
    ASSUME TypeOK, RefsOK, [Next]_vars, NEW s \in Sessions,
           agent[s].pc # "done", agent'[s].pc = "done"
    PROVE  \E h \in Handlers :
                /\ calls[h].pc \notin {"off", "idle"} /\ calls[h].session = s
                /\ \/ MarkUploaded(h) /\ ~QueuePending(rows[s].status)
                   \/ \E m \in Messages : Send(s, m)
<1> DEFINE Goal == \E h \in Handlers :
                        /\ calls[h].pc \notin {"off", "idle"} /\ calls[h].session = s
                        /\ \/ MarkUploaded(h) /\ ~QueuePending(rows[s].status)
                           \/ \E m \in Messages : Send(s, m)
<1>1. ASSUME NEW r \in Sessions,
             NEW pc \in {"register", "reconcile", "presign", "put", "complete", "crashed"},
             GoTo(r, pc)
      PROVE  FALSE
  BY <1>1 DEF GoTo, TypeOK, Restarted
<1>2. \A r \in Sessions : NextAttempt(r).pc # "done" /\ Restarted.pc # "done"
  BY DEF NextAttempt, Restarted
<1>3. ASSUME NEW r \in Sessions, AgentStep(r)  PROVE FALSE
  <2>1. CASE Register(r)
    BY <2>1, <1>1 DEF Register
  <2>2. CASE Reconcile(r)
    BY <2>2, <1>1 DEF Reconcile
  <2>3. CASE Presign(r) \/ Put(r) \/ AgentCrash(r)
    BY <2>3, <1>1 DEF Presign, Put, AgentCrash
  <2>4. ASSUME NEW h \in Handlers, CallComplete(r, h)  PROVE FALSE
    BY <2>4 DEF CallComplete, TypeOK, Agent
  <2>5. CASE Unanswered(r)
    BY <2>5, <1>2 DEF Unanswered, TypeOK
  <2> QED  BY <1>3, <2>1, <2>2, <2>3, <2>4, <2>5 DEF AgentStep
<1>4. ASSUME NEW h \in Handlers, CallStep(h)  PROVE Goal
  <2>1. calls[h].pc \notin {"off", "idle"} /\ calls[h].session \in Sessions
    BY <1>4 DEF CallStep, Verify, MarkUploaded, Enqueue, CallCrash, RefsOK
  <2>2. ASSUME Answer(h, NextAttempt(calls[h].session))  PROVE FALSE
    <3>1. CASE agent' = agent
      BY <3>1
    <3>2. CASE agent' = [agent EXCEPT ![calls[h].session] = NextAttempt(calls[h].session)]
      BY <3>2, <1>2, <2>1 DEF TypeOK
    <3> QED  BY <2>2, <3>1, <3>2 DEF Answer
  <2>3. ASSUME Answer(h, Accepted)  PROVE calls[h].session = s
    <3>1. CASE agent' = agent
      BY <3>1
    <3>2. CASE agent' = [agent EXCEPT ![calls[h].session] = Accepted]
      BY <3>2, <2>1 DEF TypeOK
    <3> QED  BY <2>3, <3>1, <3>2 DEF Answer
  <2>4. ~Answer(h, Restarted)
    BY <1>2, <2>1 DEF Answer, TypeOK
  <2>5. CASE Verify(h) \/ CallCrash(h)
    BY <2>5, <2>2, <2>4 DEF Verify, CallCrash, Advance
  <2>6. CASE MarkUploaded(h)
    <3>1. ~QueuePending(rows[calls[h].session].status) /\ Answer(h, Accepted)
      BY <2>6, <2>2 DEF MarkUploaded, Advance
    <3> QED  BY <2>1, <2>3, <2>6, <3>1
  <2>7. CASE Enqueue(h)
    <3>1. Answer(h, Accepted) /\ \E m \in Messages : Send(calls[h].session, m)
      BY <2>7, <2>2 DEF Enqueue
    <3> QED  BY <2>1, <2>3, <3>1
  <2> QED  BY <1>4, <2>5, <2>6, <2>7 DEF CallStep
<1>5. \/ agent' = agent
      \/ \E r \in Sessions : AgentStep(r)
      \/ \E h \in Handlers : CallStep(h)
  BY DEF Next, vars, QueueStep, VisibilityTimeout, Redrive, Expire, WorkerStep, Receive, Process, Publish,
         Callback, Delete, WorkerCrash
<1> QED  BY <1>3, <1>4, <1>5

\* NoStrandedUpload is inductive on top of the other parts.
LEMMA StrandedStep ==
    ASSUME TypeOK, RefsOK, LifecycleOK, PublishedOK, NoStrandedUpload, [Next]_vars
    PROVE  NoStrandedUpload'
<1> SUFFICES ASSUME NEW s \in Sessions, agent'[s].pc = "done"
             PROVE  rows'[s].status = "processed" \/ Queued(s)' \/ Dropped(s)'
  BY DEF NoStrandedUpload
<1>1. CASE rows[s].status = "processed"
  BY <1>1, MarkedStays
<1>2. CASE Queued(s)
  <2>1. PICK m \in Messages : queue[m].session = s /\ queue[m].at \in {"visible", "inflight", "dead"}
    BY <1>2 DEF Queued
  <2>2. queue'[m].session = s /\ queue'[m].at # "unsent"
    BY <2>1, MessagesStay
  <2>3. CASE queue'[m].at # "deleted"
    <3>1. queue' \in [Messages -> Message]
      BY TypeStep DEF TypeOK
    <3> QED  BY <2>2, <2>3, <3>1 DEF Queued, Dropped, Message
  <2>4. CASE queue'[m].at = "deleted"
    <3>1. PICK w \in Workers : worker[w].pc = "delete" /\ worker[w].msg = m
      BY <2>1, <2>4, MessagesStay
    <3> QED  BY <2>1, <3>1, MarkedStays DEF PublishedOK, SessionOf
  <2> QED  BY <2>3, <2>4
<1>3. CASE Dropped(s)
  <2>1. PICK m \in Messages : queue[m].session = s /\ queue[m].at = "expired"
    BY <1>3 DEF Dropped
  <2>2. queue'[m].session = s /\ queue'[m].at = "expired"
    BY <2>1, MessagesStay
  <2> QED  BY <2>2 DEF Dropped
<1>4. CASE agent[s].pc # "done"
  <2>1. PICK h \in Handlers :
            /\ calls[h].pc \notin {"off", "idle"} /\ calls[h].session = s
            /\ \/ MarkUploaded(h) /\ ~QueuePending(rows[s].status)
               \/ \E m \in Messages : Send(s, m)
    BY <1>4, Acceptance
  <2>2. CASE ~QueuePending(rows[s].status)
    <3>1. rows[s].status # "absent"
      BY <2>1 DEF LifecycleOK
    <3> QED  BY <1>1, <2>2, <3>1 DEF QueuePending, TypeOK, Session
  <2>3. ASSUME NEW m \in Messages, Send(s, m)  PROVE Queued(s)'
    BY <2>3 DEF Send, Queued, TypeOK
  <2> QED  BY <2>1, <2>2, <2>3
<1> QED  BY <1>1, <1>2, <1>3, <1>4 DEF NoStrandedUpload

HandOverOK == TypeOK /\ RefsOK /\ LifecycleOK /\ PublishedOK /\ NoStrandedUpload

\* The inductive invariant of the hand-over.
LEMMA HandOver == Spec => []HandOverOK
<1>1. Init => HandOverOK
  <2> SUFFICES ASSUME Init PROVE HandOverOK
    OBVIOUS
  <2>1. TypeOK /\ RefsOK
    BY InitTypes
  <2>2. LifecycleOK
    BY DEF Init, LifecycleOK, Restarted, Deployed, NoCall
  <2>3. PublishedOK /\ NoStrandedUpload
    BY DEF Init, PublishedOK, CompletionMatchesArtifact, NoStrandedUpload, Restarted, Idle
  <2> QED  BY <2>1, <2>2, <2>3 DEF HandOverOK
<1>2. HandOverOK /\ [Next]_vars => HandOverOK'
  BY TypeStep, LifecycleStep, PublishedStep, StrandedStep DEF HandOverOK
<1> QED  BY <1>1, <1>2, PTL DEF Spec

\* With any number of agents, API processes, workers and failures: an accepted upload
\* is processed, has a message left or had one that expired, and the stored result is
\* the published one.
THEOREM NothingStranded == Spec => [](NoStrandedUpload /\ CompletionMatchesArtifact)
<1>1. HandOverOK => NoStrandedUpload /\ CompletionMatchesArtifact
  BY DEF HandOverOK, PublishedOK
<1> QED  BY <1>1, HandOver, PTL

NoneExpired == \A m \in Messages : queue[m].at # "expired"

\* While workers and operators look after the queue within its retention periods, an
\* accepted upload is processed or still has a message: nothing else strands it.
THEOREM StrandedOnlyByAge ==
    ASSUME ~MessagesExpire
    PROVE  Spec => [](\A s \in Sessions :
                        agent[s].pc = "done" => rows[s].status = "processed" \/ Queued(s))
<1>1. Init => NoneExpired
  BY DEF Init, NoneExpired
<1>2. HandOverOK /\ NoneExpired /\ [Next]_vars => NoneExpired'
  <2> SUFFICES ASSUME HandOverOK, NoneExpired, [Next]_vars, NEW m \in Messages
               PROVE  queue'[m].at # "expired"
    BY DEF NoneExpired
  <2>0. queue[m].at # "expired" /\ queue \in [Messages -> Message]
    BY DEF NoneExpired, HandOverOK, TypeOK
  <2>1. CASE queue' = queue
    BY <2>0, <2>1
  <2>2. ASSUME NEW h \in Handlers, NEW s, NEW n \in Messages, Send(s, n)
        PROVE  queue'[m].at # "expired"
    BY <2>0, <2>2 DEF Send
  <2>3. ASSUME NEW n \in Messages, QueueStep(n)  PROVE queue'[m].at # "expired"
    BY <2>0, <2>3 DEF QueueStep, VisibilityTimeout, Redrive, Expire, Message
  <2>4. ASSUME NEW w \in Workers, NEW n \in Messages, Receive(w, n)
        PROVE  queue'[m].at # "expired"
    <3>1. queue' = [queue EXCEPT ![n] = [queue[n] EXCEPT !.at = "inflight", !.receives = @ + 1]]
      BY <2>0, <2>4 DEF Receive, Message
    <3> QED  BY <2>0, <3>1 DEF Message
  <2>5. ASSUME NEW w \in Workers, Delete(w)  PROVE queue'[m].at # "expired"
    BY <2>0, <2>5 DEF Delete, Message
  <2>6. \/ queue' = queue
        \/ \E h \in Handlers, n \in Messages : Send(calls[h].session, n)
        \/ \E n \in Messages : QueueStep(n)
        \/ \E w \in Workers, n \in Messages : Receive(w, n)
        \/ \E w \in Workers : Delete(w)
    BY DEF Next, vars, AgentStep, Register, Reconcile, Presign, Put, CallComplete, Unanswered,
           AgentCrash, CallStep, Verify, MarkUploaded, Enqueue, CallCrash,
           WorkerStep, Process, Publish, Callback, WorkerCrash
  <2> QED  BY <2>1, <2>2, <2>3, <2>4, <2>5, <2>6
<1>3. HandOverOK /\ NoneExpired =>
        \A s \in Sessions :
            agent[s].pc = "done" => rows[s].status = "processed" \/ Queued(s)
  BY DEF HandOverOK, NoStrandedUpload, NoneExpired, Dropped
<1> QED  BY <1>1, <1>2, <1>3, HandOver, PTL DEF Spec

\* complete_processing never answers 409 to a queue worker.
THEOREM CallbackAccepted == Spec => []NoCompletionConflict
<1>1. HandOverOK => NoCompletionConflict
  <2> SUFFICES ASSUME HandOverOK, NEW w \in Workers, worker[w].pc = "callback"
               PROVE  Accepts(rows[SessionOf(w)], Build[w])
    BY DEF NoCompletionConflict
  <2>1. /\ SessionOf(w) \in Sessions
        /\ rows[SessionOf(w)].status \in Marked
        /\ artifact[SessionOf(w)] = Build[w]
    BY DEF HandOverOK, RefsOK, LifecycleOK, PublishedOK, SessionOf
  <2>2. CASE rows[SessionOf(w)].completion = None
    BY <2>1, <2>2 DEF HandOverOK, LifecycleOK, Accepts, Completes, Marked
  <2>3. CASE rows[SessionOf(w)].completion # None
    BY <2>1, <2>3 DEF HandOverOK, PublishedOK, CompletionMatchesArtifact, Accepts
  <2> QED  BY <2>2, <2>3
<1> QED  BY <1>1, HandOver, PTL

\* A session has one result, in its artifact, in its row and at every reporting worker.
THEOREM OneResultEver == Spec => []OneResult
<1> QED  BY NothingStranded, CallbackAccepted, PTL DEF OneResult

\* Results are final: the conditional put and the row's lifecycle together.
THEOREM FinalResults == Spec => ResultsAreFinal
<1>1. HandOverOK /\ [Next]_vars =>
        [\A s \in Sessions :
            /\ artifact[s] # None => artifact'[s] = artifact[s]
            /\ rows[s].completion # None => rows'[s] = rows[s]
            /\ rows[s].status = "uploaded" => rows'[s].status \in {"uploaded", "processed"}]_vars
  <2> SUFFICES ASSUME HandOverOK, [Next]_vars, NEW s \in Sessions
               PROVE  /\ artifact[s] # None => artifact'[s] = artifact[s]
                      /\ rows[s].completion # None => rows'[s] = rows[s]
                      /\ rows[s].status = "uploaded" => rows'[s].status \in {"uploaded", "processed"}
    OBVIOUS
  <2> QED  BY ArtifactsStay, MarkedStays DEF HandOverOK, LifecycleOK, Marked
<1> QED  BY <1>1, HandOver, PTL DEF Spec, ResultsAreFinal

-----------------------------------------------------------------------------
(***************************************************************************)
(* One API process                                                         *)
(***************************************************************************)

OneProcess == \A h, k \in Running : h = k

\* Between mark_uploaded and send_message the row stays as mark_uploaded left it.
SendsPending ==
    \A h \in Handlers : calls[h].pc = "enqueue" => rows[calls[h].session].status = "uploaded"

\* No step starts a process or takes one away.
LEMMA RunningStays ==
    ASSUME TypeOK, [Next]_vars
    PROVE  Running' = Running
<1> SUFFICES ASSUME NEW h \in Handlers
             PROVE  (calls'[h].pc = "off") <=> (calls[h].pc = "off")
  BY DEF Running
<1>1. ASSUME NEW s \in Sessions, CallComplete(s, h)
      PROVE  calls[h].pc = "idle" /\ calls'[h].pc = "verify"
  BY <1>1 DEF CallComplete, TypeOK
<1>2. ASSUME CallStep(h)
      PROVE  calls[h].pc # "off" /\ calls'[h].pc \in {"idle", "mark", "enqueue"}
  <2>1. calls[h].pc # "off"
    BY <1>2 DEF CallStep, Verify, MarkUploaded, Enqueue, CallCrash
  <2>2. \A next : Answer(h, next) => calls'[h].pc = "idle"
    BY DEF Answer, NoCall, TypeOK
  <2>3. \A pc : Advance(h, pc) => calls'[h].pc = pc
    BY DEF Advance, Call, TypeOK
  <2> QED  BY <1>2, <2>1, <2>2, <2>3 DEF CallStep, Verify, MarkUploaded, Enqueue, CallCrash
<1> QED  BY <1>1, <1>2, CallsChange

\* A completion needs a free process, so none runs during the only process's call.
LEMMA NothingCompletes ==
    ASSUME OneProcess, TypeOK, RefsOK, [Next]_vars,
           NEW h \in Handlers, calls[h].pc \notin {"off", "idle"},
           NEW s \in Sessions, rows[s].status = "uploaded"
    PROVE  rows'[s] = rows[s]
<1>1. ~ApiFree
  BY DEF ApiFree, OneProcess, Running
<1>2. ASSUME NEW w \in Workers, Callback(w)  PROVE rows' = rows
  BY <1>1, <1>2 DEF Callback, CompleteProcessing
<1>3. ASSUME NEW r \in Sessions, Create(r)  PROVE rows'[s] = rows[s]
  BY <1>3 DEF Create, TypeOK, Session
<1>4. ASSUME NEW g \in Handlers, MarkUploaded(g)  PROVE rows'[s] = rows[s]
  <2>1. calls[g].session \in Sessions
    BY <1>4 DEF MarkUploaded, RefsOK
  <2> QED  BY <1>4, <2>1 DEF MarkUploaded, TypeOK, Session
<1> QED  BY <1>2, <1>3, <1>4, RowsChange

\* SendsPending is inductive for one process.
LEMMA PendingStep ==
    ASSUME OneProcess, TypeOK, RefsOK, SendsPending, [Next]_vars
    PROVE  SendsPending'
<1> SUFFICES ASSUME NEW h \in Handlers, calls'[h].pc = "enqueue"
             PROVE  rows'[calls'[h].session].status = "uploaded"
  BY DEF SendsPending
<1>1. CASE calls'[h] = calls[h]
  <2>1. calls[h].session \in Sessions /\ rows[calls[h].session].status = "uploaded"
    BY <1>1 DEF SendsPending, RefsOK
  <2> QED  BY <1>1, <2>1, NothingCompletes
<1>2. CASE MarkUploaded(h)
  <2>1. calls[h].session \in Sessions
    BY <1>2 DEF MarkUploaded, RefsOK
  <2>2. Advance(h, "enqueue") /\ QueuePending(rows[calls[h].session].status)
    BY <1>2 DEF MarkUploaded, Answer, NoCall, TypeOK
  <2>3. rows'[calls[h].session].status = "uploaded"
    BY <1>2, <2>1, <2>2 DEF MarkUploaded, QueuePending, TypeOK, Session
  <2> QED  BY <2>2, <2>3 DEF Advance, TypeOK, Call
<1>3. ASSUME Verify(h) \/ Enqueue(h) \/ CallCrash(h)  PROVE FALSE
  BY <1>3 DEF Verify, Enqueue, CallCrash, Advance, Answer, NoCall, TypeOK, Call
<1>4. ASSUME NEW s \in Sessions, CallComplete(s, h)  PROVE FALSE
  BY <1>4 DEF CallComplete, TypeOK
<1> QED  BY <1>1, <1>2, <1>3, <1>4, CallsChange DEF CallStep

\* What holds of a deployment of one process.
AloneOK == OneProcess => SendsPending

\* With one API process, which is what the Dockerfile starts, a message is sent only
\* for a session that is uploaded and not yet processed.
THEOREM NeverRequeued == Spec => NotRequeuedOnceProcessed
<1>1. Init => AloneOK
  BY DEF Init, AloneOK, SendsPending, Deployed, NoCall
<1>2. HandOverOK /\ AloneOK /\ [Next]_vars => AloneOK'
  <2> SUFFICES ASSUME HandOverOK, AloneOK, [Next]_vars, OneProcess'
               PROVE  SendsPending'
    BY DEF AloneOK
  <2>1. OneProcess
    BY RunningStays DEF OneProcess, HandOverOK
  <2> QED  BY <2>1, PendingStep DEF HandOverOK, AloneOK
<1>3. HandOverOK /\ AloneOK /\ [Next]_vars =>
        [(\A h, k \in Running : h = k) =>
          \A m \in Messages : (queue[m].at = "unsent" /\ queue'[m].at # "unsent") =>
            rows[queue'[m].session].status = "uploaded"]_vars
  <2> SUFFICES ASSUME HandOverOK, AloneOK, [Next]_vars, OneProcess, NEW m \in Messages,
                      queue[m].at = "unsent", queue'[m].at # "unsent"
               PROVE  rows[queue'[m].session].status = "uploaded"
    BY DEF OneProcess
  <2>1. PICK h \in Handlers : calls[h].pc = "enqueue" /\ queue'[m].session = calls[h].session
    BY SendsFromCalls DEF HandOverOK
  <2> QED  BY <2>1 DEF SendsPending, AloneOK
<1> QED  BY <1>1, <1>2, <1>3, HandOver, PTL DEF Spec, NotRequeuedOnceProcessed

=============================================================================
