--------------------------- MODULE RetentionProofs ---------------------------
(***************************************************************************)
(* What RetentionLedger guarantees for every set of targets, copies, keys  *)
(* and stewards, every retention period and every lock wait.               *)
(***************************************************************************)
EXTENDS RetentionLedger, TLAPS

(***************************************************************************)
(* Type correctness                                                        *)
(***************************************************************************)

\* A request enters with the clock value of that moment and nothing else changes.
LEMMA RequestsType ==
    ASSUME TypeOK, Requests
    PROVE  /\ TypeOK'
           /\ UNCHANGED <<clock, tables>>
           /\ \A r \in pending' : r \in pending \/ r.now = clock
<1>1. PICK t \in Targets :
        RequestRegister(t) \/ RequestHold(t) \/ RequestStage(t) \/ RequestAttest(t)
    BY DEF Requests
<1>2. PICK type \in EventTypes, c \in Copies \cup {None}, listed \in SUBSET Copies,
           d \in Details \cup {None} :
        /\ Submit(type, t, c, listed, d)
        /\ type = "registered" => listed # {}
        /\ type \in {"trash_staged", "deletion_attested"} => c \in Copies
    <2>1. CASE RequestRegister(t)
        BY <2>1 DEF RequestRegister, EventTypes
    <2>2. CASE RequestHold(t)
        <3>1. CASE \E d \in Details : Submit("hold_placed", t, None, {}, d)
            BY <3>1 DEF EventTypes
        <3>2. CASE Submit("hold_released", t, None, {}, None)
            BY <3>2 DEF EventTypes
        <3> QED BY <2>2, <3>1, <3>2 DEF RequestHold
    <2>3. CASE RequestStage(t) BY <2>3 DEF RequestStage, EventTypes
    <2>4. CASE RequestAttest(t) BY <2>4 DEF RequestAttest, EventTypes
    <2> QED BY <1>1, <2>1, <2>2, <2>3, <2>4
<1>3. PICK s \in Stewards, k \in Keys :
        /\ pending' = pending \cup
             {[content |-> [type |-> type, target |-> t, copy |-> c, actor |-> s,
                            listed |-> listed, detail |-> d],
               key |-> k, now |-> clock]}
        /\ UNCHANGED <<clock, tables>>
    BY <1>2 DEF Submit
<1>4. [type |-> type, target |-> t, copy |-> c, actor |-> s, listed |-> listed,
       detail |-> d] \in Content
    BY <1>2 DEF Content
<1> QED BY <1>3, <1>4 DEF TypeOK, Request, tables

\* The fields of a pending request, and of the event it would append.
LEMMA RequestFields ==
    ASSUME TypeOK, NEW r \in pending
    PROVE  /\ r \in Request /\ r.content \in Content /\ r.key \in Keys /\ r.now \in Nat
           /\ r.content.target \in Targets /\ r.content.type \in EventTypes
           /\ r.content.actor \in Stewards /\ r.content.listed \in SUBSET Copies
           /\ r.content.type = "registered" => r.content.listed # {}
           /\ r.content.type \in {"trash_staged", "deletion_attested"} =>
                r.content.copy \in Copies
           /\ targets[r.content.target] \in Target
           /\ copies[r.content.target] \in [Copies -> CopyStates]
           /\ [content |-> r.content, key |-> r.key, at |-> r.now] \in Event
           /\ AuditOf(r.content, r.key) \in AuditRow
<1>1. r \in Request /\ r.content \in Content /\ r.key \in Keys /\ r.now \in Nat
    BY DEF TypeOK, Request
<1>2. /\ r.content.target \in Targets /\ r.content.type \in EventTypes
      /\ r.content.actor \in Stewards /\ r.content.listed \in SUBSET Copies
      /\ r.content.type = "registered" => r.content.listed # {}
      /\ r.content.type \in {"trash_staged", "deletion_attested"} => r.content.copy \in Copies
    BY <1>1 DEF Content
<1>3. Action(r.content.type) \in {"retention.register", "retention.hold",
                                  "retention.stage_trash", "retention.attest_delete"}
    BY <1>2 DEF Action, EventTypes
<1>4. AuditOf(r.content, r.key) \in AuditRow
    BY <1>1, <1>2, <1>3 DEF AuditOf, AuditRow
<1> QED BY <1>1, <1>2, <1>4 DEF TypeOK, Event

\* Every transaction keeps the tables in their types and only consumes its request.
LEMMA TransactionsType ==
    ASSUME TypeOK, NEW r \in pending,
           \/ Replay(r) \/ RegisterTarget(r) \/ SetLegalHold(r)
           \/ StageTrash(r) \/ AttestDeleted(r) \/ Rollback(r)
    PROVE  /\ TypeOK'
           /\ pending' = pending \ {r}
           /\ clock' = clock
<1> DEFINE t == r.content.target
<1> DEFINE c == r.content.copy
<1>1. /\ t \in Targets /\ r.now \in Nat /\ targets[t] \in Target
      /\ copies[t] \in [Copies -> CopyStates] /\ AuditOf(r.content, r.key) \in AuditRow
      /\ r.content.type \in {"trash_staged", "deletion_attested"} => c \in Copies
    BY RequestFields
<1>2. AppendRetentionEvent(r) => log' \in Seq(Event) /\ audit' \in SUBSET AuditRow
    <2>1. Append(log, [content |-> r.content, key |-> r.key, at |-> r.now]) \in Seq(Event)
        BY RequestFields DEF TypeOK
    <2> QED BY <1>1, <2>1 DEF AppendRetentionEvent, TypeOK
<1>3. CASE Replay(r)
    BY <1>1, <1>3 DEF Replay, Begin, TypeOK
<1>4. CASE RegisterTarget(r)
    <2>0. ExpiryOf(r.now) \in Nat
        BY <1>1, PeriodAssumption DEF ExpiryOf
    <2>1. [NoTarget EXCEPT !.registered = TRUE, !.expires = ExpiryOf(r.now)] \in Target
        BY <2>0 DEF NoTarget, Target
    <2>2. targets' \in [Targets -> Target]
        BY <1>1, <1>4, <2>1 DEF RegisterTarget, TypeOK
    <2>3. [x \in Copies |-> IF x \in r.content.listed THEN "active" ELSE "absent"]
            \in [Copies -> CopyStates]
        BY DEF CopyStates
    <2>4. copies' \in [Targets -> [Copies -> CopyStates]]
        BY <1>1, <1>4, <2>3 DEF RegisterTarget, TypeOK
    <2> QED BY <1>2, <1>4, <2>2, <2>4 DEF RegisterTarget, Begin, TypeOK
<1>5. CASE SetLegalHold(r)
    <2>1. \A h \in BOOLEAN : [targets[t] EXCEPT !.hold = h] \in Target
        BY <1>1 DEF Target
    <2>2. targets' \in [Targets -> Target]
        BY <1>1, <1>5, <2>1 DEF SetLegalHold, TypeOK
    <2> QED BY <1>2, <1>5, <2>2 DEF SetLegalHold, Begin, TypeOK
<1>6. CASE StageTrash(r)
    <2>1. [copies[t] EXCEPT ![c] = "trash_staged"] \in [Copies -> CopyStates]
        BY <1>1 DEF CopyStates
    <2>2. copies' \in [Targets -> [Copies -> CopyStates]]
        BY <1>1, <1>6, <2>1 DEF StageTrash, TypeOK
    <2> QED BY <1>2, <1>6, <2>2 DEF StageTrash, Begin, TypeOK
<1>7. CASE AttestDeleted(r)
    <2>1. [copies[t] EXCEPT ![c] = "deleted"] \in [Copies -> CopyStates]
        BY <1>1 DEF CopyStates
    <2>2. copies' \in [Targets -> [Copies -> CopyStates]]
        BY <1>1, <1>7, <2>1 DEF AttestDeleted, TypeOK
    <2>3. \A b \in BOOLEAN : [targets[t] EXCEPT !.completed = b] \in Target
        BY <1>1 DEF Target
    <2>4. (targets[t].completed \/ NoneRemaining(copies'[t])) \in BOOLEAN
        OBVIOUS
    <2>5. targets' \in [Targets -> Target]
        BY <1>1, <1>7, <2>3, <2>4 DEF AttestDeleted, TypeOK
    <2> QED BY <1>2, <1>7, <2>2, <2>5 DEF AttestDeleted, Begin, TypeOK
<1>8. CASE Rollback(r)
    BY <1>8 DEF Rollback, TypeOK, tables
<1> QED BY <1>3, <1>4, <1>5, <1>6, <1>7, <1>8
        DEF Replay, RegisterTarget, SetLegalHold, StageTrash, AttestDeleted, Rollback, Begin, tables

\* Every step of the ledger keeps the variables in their types.
LEMMA TypeStep == TypeOK /\ [Next]_vars => TypeOK'
<1> SUFFICES ASSUME TypeOK, [Next]_vars PROVE TypeOK'
    OBVIOUS
<1>1. CASE Tick BY <1>1 DEF Tick, TypeOK, tables
<1>2. CASE Requests BY <1>2, RequestsType
<1>3. CASE Transactions BY <1>3, TransactionsType DEF Transactions
<1>4. CASE Read
    <2>1. \A s \in Stewards : [action |-> "retention.read", target |-> None,
                               subject |-> s, key |-> None] \in AuditRow
        BY DEF AuditRow
    <2> QED BY <1>4, <2>1 DEF Read, TypeOK
<1>5. CASE UNCHANGED vars BY <1>5 DEF vars, TypeOK
<1> QED BY <1>1, <1>2, <1>3, <1>4, <1>5 DEF Next

\* Every table and every request in flight keeps its type.
THEOREM TypeCorrect == Spec => []TypeOK
<1>1. Init => TypeOK
    BY DEF Init, TypeOK, NoTarget, Target, CopyStates
<1> QED BY <1>1, TypeStep, PTL DEF Spec

-----------------------------------------------------------------------------
(***************************************************************************)
(* Clocks: how old a request's time may be, and what follows for the log   *)
(***************************************************************************)

\* No request in flight and no event carries a future time, and no request waits
\* longer than MaxDelay.
ClocksOK ==
    /\ \A r \in pending : r.now <= clock /\ clock <= r.now + MaxDelay
    /\ \A i \in DOMAIN log : log[i].at <= clock

\* What a transaction does to the log: nothing, or it appends the event of an unused
\* key together with its audit row.
LEMMA LogStep ==
    ASSUME TypeOK, NEW r \in pending,
           \/ Replay(r) \/ RegisterTarget(r) \/ SetLegalHold(r)
           \/ StageTrash(r) \/ AttestDeleted(r) \/ Rollback(r)
    PROVE  \/ log' = log
           \/ KeyUnused(r) /\ AppendRetentionEvent(r)
BY DEF Replay, RegisterTarget, SetLegalHold, StageTrash, AttestDeleted, Rollback, tables

\* An appended log keeps its events and ends in the new one.
LEMMA Appended ==
    ASSUME TypeOK, NEW r \in pending, AppendRetentionEvent(r)
    PROVE  /\ Len(log) \in Nat /\ Len(log') = Len(log) + 1
           /\ DOMAIN log = 1..Len(log)
           /\ DOMAIN log' = 1..(Len(log) + 1)
           /\ \A i \in 1..Len(log) : log'[i] = log[i]
           /\ log'[Len(log) + 1] = [content |-> r.content, key |-> r.key, at |-> r.now]
           /\ log'[Len(log) + 1].key = r.key /\ log'[Len(log) + 1].at = r.now
           /\ log'[Len(log) + 1].content = r.content
<1> DEFINE e == [content |-> r.content, key |-> r.key, at |-> r.now]
<1>1. log' = Append(log, e) /\ log \in Seq(Event)
    BY DEF AppendRetentionEvent, TypeOK
<1> HIDE DEF e
<1>2. /\ Len(log) \in Nat /\ Len(log') = Len(log) + 1
      /\ DOMAIN log = 1..Len(log)
      /\ DOMAIN log' = 1..(Len(log) + 1)
      /\ \A i \in 1..Len(log) : log'[i] = log[i]
      /\ log'[Len(log) + 1] = e
    BY <1>1
<1> QED BY <1>2 DEF e

\* Every time the ledger handles is a natural number.
LEMMA Times ==
    ASSUME TypeOK
    PROVE  /\ clock \in Nat /\ MaxDelay \in Nat
           /\ \A r \in pending : r.now \in Nat
           /\ \A i \in DOMAIN log : log[i].at \in Nat
<1>1. \A r \in pending : r.now \in Nat BY RequestFields
<1>2. ASSUME NEW i \in DOMAIN log PROVE log[i].at \in Nat
    <2>1. log[i] \in Event BY DEF TypeOK
    <2> QED BY <2>1 DEF Event
<1> QED BY <1>1, <1>2, PeriodAssumption DEF TypeOK

\* The clock bounds are kept by every step: Tick waits for the oldest request.
LEMMA ClockStep == TypeOK /\ ClocksOK /\ [Next]_vars => ClocksOK'
<1> SUFFICES ASSUME TypeOK, ClocksOK, [Next]_vars PROVE ClocksOK'
    OBVIOUS
<1>0. /\ clock \in Nat /\ MaxDelay \in Nat
      /\ \A r \in pending : r.now \in Nat
      /\ \A i \in DOMAIN log : log[i].at \in Nat
    BY Times
<1>1. CASE Tick BY <1>0, <1>1 DEF Tick, ClocksOK, tables
<1>2. CASE Requests
    <2>1. /\ UNCHANGED <<clock, log>>
          /\ \A r \in pending' : r \in pending \/ r.now = clock
        BY <1>2, RequestsType DEF tables
    <2> QED BY <1>0, <2>1 DEF ClocksOK
<1>3. CASE Transactions
    <2>1. PICK r \in pending :
            \/ Replay(r) \/ RegisterTarget(r) \/ SetLegalHold(r)
            \/ StageTrash(r) \/ AttestDeleted(r) \/ Rollback(r)
        BY <1>3 DEF Transactions
    <2>2. pending' \subseteq pending /\ clock' = clock
        BY <2>1, TransactionsType
    <2>3. CASE log' = log BY <2>2, <2>3 DEF ClocksOK
    <2>4. CASE AppendRetentionEvent(r)
        <3>1. PICK n \in Nat :
                /\ DOMAIN log = 1..n /\ DOMAIN log' = 1..(n + 1)
                /\ \A i \in 1..n : log'[i] = log[i]
                /\ log'[n + 1].at = r.now
            BY <2>4, Appended
        <3>2. r.now <= clock /\ \A i \in 1..n : log[i].at <= clock
            BY <3>1 DEF ClocksOK
        <3>3. \A i \in 1..(n + 1) : log'[i].at <= clock
            BY <1>0, <3>1, <3>2
        <3> QED BY <2>2, <3>1, <3>3 DEF ClocksOK
    <2> QED BY <2>1, <2>3, <2>4, LogStep
<1>4. CASE Read BY <1>4 DEF Read, ClocksOK
<1>5. CASE UNCHANGED vars BY <1>5 DEF vars, ClocksOK
<1> QED BY <1>1, <1>2, <1>3, <1>4, <1>5 DEF Next

\* The clock bounds hold in every reachable state.
LEMMA ClockInvariant == Spec => [](TypeOK /\ ClocksOK)
<1>1. Init => ClocksOK BY DEF Init, ClocksOK
<1> QED BY <1>1, ClockStep, TypeCorrect, PTL DEF Spec

\* The properties of the log alone.
LogOK == OneEventPerKey /\ EvidenceOrderWithinDelay

\* Every step keeps the keys unique and the recorded times in order up to MaxDelay.
LEMMA LogOKStep == TypeOK /\ ClocksOK /\ LogOK /\ [Next]_vars => LogOK'
<1> SUFFICES ASSUME TypeOK, ClocksOK, LogOK, [Next]_vars PROVE LogOK'
    OBVIOUS
<1>1. CASE log' = log BY <1>1 DEF LogOK, OneEventPerKey, EvidenceOrderWithinDelay
<1>2. CASE Transactions
    <2>1. PICK r \in pending :
            \/ Replay(r) \/ RegisterTarget(r) \/ SetLegalHold(r)
            \/ StageTrash(r) \/ AttestDeleted(r) \/ Rollback(r)
        BY <1>2 DEF Transactions
    <2>2. CASE KeyUnused(r) /\ AppendRetentionEvent(r)
        <3>0. PICK n \in Nat :
                /\ DOMAIN log = 1..n /\ DOMAIN log' = 1..(n + 1)
                /\ \A i \in 1..n : log'[i] = log[i]
                /\ log'[n + 1].key = r.key /\ log'[n + 1].at = r.now
            BY <2>2, Appended
        <3>1. OneEventPerKey'
            <4>1. /\ \A i \in 1..n : log'[i].key # r.key
                  /\ \A i, k \in 1..n : log'[i].key = log'[k].key => i = k
                BY <2>2, <3>0 DEF LogOK, OneEventPerKey, KeyUnused
            <4>2. ASSUME NEW i \in 1..(n + 1), NEW k \in 1..(n + 1),
                         log'[i].key = log'[k].key
                  PROVE  i = k
                <5>1. (i \in 1..n \/ i = n + 1) /\ (k \in 1..n \/ k = n + 1)
                    OBVIOUS
                <5> QED BY <3>0, <4>1, <4>2, <5>1
            <4> QED BY <3>0, <4>2 DEF OneEventPerKey
        <3>2. /\ clock \in Nat /\ MaxDelay \in Nat /\ r.now \in Nat
              /\ clock <= r.now + MaxDelay
              /\ \A i \in DOMAIN log : log[i].at \in Nat /\ log[i].at <= clock
            BY Times DEF ClocksOK
        <3>3. EvidenceOrderWithinDelay'
            <4>1. ASSUME NEW i \in 1..(n + 1), NEW k \in 1..(n + 1), i < k
                  PROVE  log'[i].at <= log'[k].at + MaxDelay
                <5>1. CASE k = n + 1
                    <6>1. i \in 1..n /\ log'[i].at = log[i].at /\ log'[k].at = r.now
                        BY <3>0, <4>1, <5>1
                    <6> QED BY <3>0, <3>2, <6>1
                <5>2. CASE k # n + 1
                    <6>1. i \in 1..n /\ k \in 1..n BY <4>1, <5>2
                    <6> QED BY <3>0, <4>1, <6>1 DEF LogOK, EvidenceOrderWithinDelay
                <5> QED BY <5>1, <5>2
            <4> QED BY <3>0, <4>1 DEF EvidenceOrderWithinDelay
        <3> QED BY <3>1, <3>3 DEF LogOK
    <2> QED BY <1>1, <2>1, <2>2, LogStep
<1>3. Tick \/ Requests \/ Read \/ UNCHANGED vars => log' = log
    BY RequestsType DEF Tick, Read, vars, tables
<1> QED BY <1>1, <1>2, <1>3 DEF Next

\* However requests are retried, reordered and delayed, a key is bound to one event,
\* and the times of the evidence run backwards by at most MaxDelay.
THEOREM EvidenceCorrect == Spec => []EvidenceSound
<1>1. Init => LogOK
    BY DEF Init, LogOK, OneEventPerKey, EvidenceOrderWithinDelay
<1>2. LogOK => EvidenceSound BY DEF LogOK, EvidenceSound
<1> QED BY <1>1, <1>2, LogOKStep, ClockInvariant, PTL DEF Spec

-----------------------------------------------------------------------------
(***************************************************************************)
(* The rows: what each transaction does to its own target                  *)
(***************************************************************************)

\* A target that was never registered has no rows, and a registered one has copies.
RowsExist ==
    \A t \in Targets :
        /\ ~targets[t].registered =>
             /\ ~targets[t].hold /\ ~targets[t].completed
             /\ \A c \in Copies : copies[t][c] = "absent"
        /\ targets[t].registered => \E c \in Copies : copies[t][c] # "absent"

RowsOK == RowsExist /\ NothingStagedEarly /\ CompleteIffAllDeleted

\* The effect of RegisterTarget(r) on its rows.
Registers(r) ==
    LET t == r.content.target
    IN /\ ~targets[t].registered
       /\ targets'[t].registered /\ ~targets'[t].hold /\ ~targets'[t].completed
       /\ \A c \in Copies :
            copies'[t][c] = IF c \in r.content.listed THEN "active" ELSE "absent"
       /\ r.content.listed # {} /\ r.content.listed \subseteq Copies

\* The effect of SetLegalHold(r) on its rows.
Holds(r) ==
    LET t == r.content.target
    IN /\ targets[t].registered /\ ~targets[t].completed
       /\ targets[t].hold # (r.content.type = "hold_placed")
       /\ targets'[t].hold = (r.content.type = "hold_placed")
       /\ targets'[t].registered /\ ~targets'[t].completed
       /\ targets'[t].expires = targets[t].expires
       /\ copies'[t] = copies[t]

\* The effect of StageTrash(r) on its rows.
Stages(r) ==
    LET t == r.content.target
    IN /\ targets[t].registered /\ ~targets[t].hold /\ ~targets[t].completed
       /\ targets[t].expires <= r.now
       /\ r.content.copy \in Copies /\ copies[t][r.content.copy] = "active"
       /\ copies'[t][r.content.copy] = "trash_staged"
       /\ \A c \in Copies \ {r.content.copy} : copies'[t][c] = copies[t][c]
       /\ targets'[t] = targets[t]

\* The effect of AttestDeleted(r) on its rows.
Attests(r) ==
    LET t == r.content.target
    IN /\ targets[t].registered /\ ~targets[t].hold /\ ~targets[t].completed
       /\ r.content.copy \in Copies /\ copies[t][r.content.copy] = "trash_staged"
       /\ copies'[t][r.content.copy] = "deleted"
       /\ \A c \in Copies \ {r.content.copy} : copies'[t][c] = copies[t][c]
       /\ targets'[t].registered /\ ~targets'[t].hold
       /\ targets'[t].expires = targets[t].expires
       /\ targets'[t].completed <=> NoneRemaining(copies'[t])

\* The rows of one target change in one of four ways; all others stay.
LEMMA RowChange ==
    ASSUME TypeOK, NEW r \in pending,
           \/ Replay(r) \/ RegisterTarget(r) \/ SetLegalHold(r)
           \/ StageTrash(r) \/ AttestDeleted(r) \/ Rollback(r)
    PROVE  \/ UNCHANGED <<targets, copies, log>>
           \/ /\ r.content.target \in Targets
              /\ KeyUnused(r) /\ AppendRetentionEvent(r)
              /\ \A x \in Targets \ {r.content.target} :
                    targets'[x] = targets[x] /\ copies'[x] = copies[x]
              /\ \/ r.content.type = "registered" /\ Registers(r)
                 \/ r.content.type \in {"hold_placed", "hold_released"} /\ Holds(r)
                 \/ r.content.type = "trash_staged" /\ Stages(r)
                 \/ r.content.type = "deletion_attested" /\ Attests(r)
<1> DEFINE t == r.content.target
<1> DEFINE c == r.content.copy
<1>1. /\ t \in Targets /\ targets[t] \in Target /\ copies[t] \in [Copies -> CopyStates]
      /\ r.content.type \in {"trash_staged", "deletion_attested"} => c \in Copies
      /\ r.content.listed \in SUBSET Copies
      /\ r.content.type = "registered" => r.content.listed # {}
    BY RequestFields
<1>2. targets \in [Targets -> Target] /\ copies \in [Targets -> [Copies -> CopyStates]]
    BY DEF TypeOK
<1>3. CASE Replay(r) BY <1>3 DEF Replay
<1>4. CASE RegisterTarget(r)
    <2>1. targets'[t] = [NoTarget EXCEPT !.registered = TRUE, !.expires = ExpiryOf(r.now)]
        BY <1>1, <1>2, <1>4 DEF RegisterTarget
    <2>2. /\ \A x \in Targets \ {t} : targets'[x] = targets[x] /\ copies'[x] = copies[x]
          /\ copies'[t] = [x \in Copies |-> IF x \in r.content.listed
                                            THEN "active" ELSE "absent"]
        BY <1>1, <1>2, <1>4 DEF RegisterTarget
    <2>3. r.content.type = "registered" /\ KeyUnused(r) /\ AppendRetentionEvent(r)
        BY <1>4 DEF RegisterTarget, Begin
    <2>4. Registers(r)
        <3>1. ~targets[t].registered
            BY <1>4 DEF RegisterTarget
        <3>2. targets'[t].registered /\ ~targets'[t].hold /\ ~targets'[t].completed
            BY <2>1 DEF NoTarget
        <3>3. \A x \in Copies :
                copies'[t][x] = IF x \in r.content.listed THEN "active" ELSE "absent"
            BY <2>2
        <3> QED BY <1>1, <2>3, <3>1, <3>2, <3>3, Zenon DEF Registers
    <2> QED BY <1>1, <2>2, <2>3, <2>4, Zenon
<1>5. CASE SetLegalHold(r)
    <2>1. targets'[t] = [targets[t] EXCEPT !.hold = (r.content.type = "hold_placed")]
        <3>1. targets' = [targets EXCEPT ![t] =
                            [targets[t] EXCEPT !.hold = (r.content.type = "hold_placed")]]
            BY <1>5, Zenon DEF SetLegalHold
        <3> QED BY <1>1, <1>2, <3>1, Zenon
    <2>2. /\ \A x \in Targets \ {t} : targets'[x] = targets[x] /\ copies'[x] = copies[x]
          /\ copies'[t] = copies[t]
        BY <1>1, <1>2, <1>5 DEF SetLegalHold
    <2>3. /\ r.content.type \in {"hold_placed", "hold_released"}
          /\ KeyUnused(r) /\ AppendRetentionEvent(r)
        BY <1>5 DEF SetLegalHold, Begin
    <2>4. Holds(r)
        BY <1>1, <1>5, <2>1, <2>2 DEF SetLegalHold, HoldMayChange, Holds, Target
    <2> QED BY <1>1, <2>2, <2>3, <2>4
<1>6. CASE StageTrash(r)
    <2>1. /\ r.content.type = "trash_staged" /\ KeyUnused(r) /\ AppendRetentionEvent(r)
          /\ c \in Copies
        BY <1>1, <1>6 DEF StageTrash, Begin
    <2>2. /\ copies'[t] = [copies[t] EXCEPT ![c] = "trash_staged"] /\ targets' = targets
          /\ \A x \in Targets \ {t} : copies'[x] = copies[x]
        BY <1>1, <1>2, <1>6 DEF StageTrash
    <2>3. Stages(r)
        BY <1>1, <1>6, <2>1, <2>2 DEF StageTrash, RequireNotHeldOrCompleted, Expired, Stages
    <2> QED BY <1>1, <2>1, <2>2, <2>3
<1>7. CASE AttestDeleted(r)
    <2>1. /\ r.content.type = "deletion_attested" /\ KeyUnused(r)
          /\ AppendRetentionEvent(r) /\ c \in Copies
        BY <1>1, <1>7 DEF AttestDeleted, Begin
    <2>2. /\ copies'[t] = [copies[t] EXCEPT ![c] = "deleted"]
          /\ targets'[t] = [targets[t] EXCEPT
                              !.completed = targets[t].completed \/ NoneRemaining(copies'[t])]
          /\ \A x \in Targets \ {t} : targets'[x] = targets[x] /\ copies'[x] = copies[x]
        BY <1>1, <1>2, <1>7 DEF AttestDeleted
    <2>3. Attests(r)
        <3>1. /\ targets[t].registered /\ ~targets[t].hold /\ ~targets[t].completed
              /\ copies[t][c] = "trash_staged"
            BY <1>7 DEF AttestDeleted, RequireNotHeldOrCompleted, Attestable
        <3>2. /\ targets'[t].registered = targets[t].registered
              /\ targets'[t].hold = targets[t].hold
              /\ targets'[t].expires = targets[t].expires
              /\ targets'[t].completed = (targets[t].completed \/ NoneRemaining(copies'[t]))
            BY <1>1, <2>2 DEF Target
        <3>3. /\ copies'[t][c] = "deleted"
              /\ \A x \in Copies \ {c} : copies'[t][x] = copies[t][x]
            BY <1>1, <2>1, <2>2
        <3> QED BY <2>1, <3>1, <3>2, <3>3 DEF Attests
    <2> QED BY <1>1, <2>1, <2>2, <2>3
<1>8. CASE Rollback(r) BY <1>8 DEF Rollback, tables
<1> QED BY <1>3, <1>4, <1>5, <1>6, <1>7, <1>8

\* Steps that are not transactions leave rows and log alone.
LEMMA OtherSteps ==
    ASSUME TypeOK, [Next]_vars, ~Transactions
    PROVE  /\ UNCHANGED <<targets, copies, log>>
           /\ clock' \in Nat /\ clock <= clock'
<1>1. CASE Tick BY <1>1 DEF Tick, TypeOK, tables
<1>2. CASE Requests BY <1>2, RequestsType DEF TypeOK, tables
<1>3. CASE Read BY <1>3 DEF Read, TypeOK
<1>4. CASE UNCHANGED vars BY <1>4 DEF vars, TypeOK
<1> QED BY <1>1, <1>2, <1>3, <1>4 DEF Next

\* The row invariant is inductive on top of types and clock bounds.
LEMMA RowsStep == TypeOK /\ ClocksOK /\ RowsOK /\ [Next]_vars => RowsOK'
<1> SUFFICES ASSUME TypeOK, ClocksOK, RowsOK, [Next]_vars PROVE RowsOK'
    OBVIOUS
<1>0. /\ clock \in Nat /\ \A x \in Targets : targets[x].expires \in Nat
      /\ \A x \in Targets, c \in Copies : copies[x][c] \in CopyStates
    BY DEF TypeOK, Target
<1>1. ASSUME UNCHANGED <<targets, copies>>, clock' \in Nat, clock <= clock'
      PROVE  RowsOK'
    BY <1>0, <1>1 DEF RowsOK, RowsExist, NothingStagedEarly, CompleteIffAllDeleted
<1>2. CASE Transactions
    <2>1. PICK r \in pending :
            \/ Replay(r) \/ RegisterTarget(r) \/ SetLegalHold(r)
            \/ StageTrash(r) \/ AttestDeleted(r) \/ Rollback(r)
        BY <1>2 DEF Transactions
    <2> DEFINE t == r.content.target
    <2>2. clock' = clock /\ r.now \in Nat /\ r.now <= clock
        BY <2>1, TransactionsType, Times DEF ClocksOK
    <2>3. CASE UNCHANGED <<targets, copies>>
        BY <1>0, <1>1, <2>2, <2>3
    <2>4. CASE /\ t \in Targets
               /\ \A x \in Targets \ {t} : targets'[x] = targets[x] /\ copies'[x] = copies[x]
               /\ Registers(r) \/ Holds(r) \/ Stages(r) \/ Attests(r)
        <3>1. /\ ~targets'[t].registered =>
                    /\ ~targets'[t].hold /\ ~targets'[t].completed
                    /\ \A c \in Copies : copies'[t][c] = "absent"
              /\ targets'[t].registered => \E c \in Copies : copies'[t][c] # "absent"
              /\ targets'[t].completed <=>
                    /\ \E c \in Copies : copies'[t][c] # "absent"
                    /\ \A c \in Copies : copies'[t][c] \in {"absent", "deleted"}
              /\ targets'[t].completed => ~targets'[t].hold
              /\ \A c \in Copies : copies'[t][c] \in {"trash_staged", "deleted"} =>
                    targets'[t].expires <= clock
            <4>1. CASE Registers(r) BY <2>4, <4>1 DEF Registers
            <4>2. CASE Holds(r)
                BY <2>4, <4>2 DEF Holds, RowsOK, RowsExist, NothingStagedEarly, CompleteIffAllDeleted
            <4>3. CASE Stages(r)
                BY <1>0, <2>2, <2>4, <4>3
                   DEF Stages, RowsOK, RowsExist, NothingStagedEarly, CompleteIffAllDeleted
            <4>4. CASE Attests(r)
                <5>1. /\ targets[t].registered /\ r.content.copy \in Copies
                      /\ copies[t][r.content.copy] = "trash_staged"
                      /\ copies'[t][r.content.copy] = "deleted"
                      /\ \A c \in Copies \ {r.content.copy} : copies'[t][c] = copies[t][c]
                      /\ targets'[t].registered /\ ~targets'[t].hold
                      /\ targets'[t].expires = targets[t].expires
                      /\ targets'[t].completed <=> NoneRemaining(copies'[t])
                    BY <4>4 DEF Attests
                <5>2. \A c \in Copies : copies[t][c] \in {"trash_staged", "deleted"} =>
                        targets[t].expires <= clock
                    BY <2>4 DEF RowsOK, NothingStagedEarly
                <5>3. \A c \in Copies : copies'[t][c] \in {"trash_staged", "deleted"} =>
                        targets'[t].expires <= clock
                    BY <5>1, <5>2
                <5>4. targets'[t].completed <=>
                        /\ \E c \in Copies : copies'[t][c] # "absent"
                        /\ \A c \in Copies : copies'[t][c] \in {"absent", "deleted"}
                    BY <5>1 DEF NoneRemaining
                <5> QED BY <5>1, <5>3, <5>4
            <4> QED BY <2>4, <4>1, <4>2, <4>3, <4>4
        <3> HIDE DEF t
        <3>2. RowsExist'
            BY <2>4, <3>1 DEF RowsOK, RowsExist
        <3>3. NothingStagedEarly'
            BY <2>2, <2>4, <3>1 DEF RowsOK, NothingStagedEarly
        <3>4. CompleteIffAllDeleted'
            BY <2>4, <3>1 DEF RowsOK, CompleteIffAllDeleted
        <3> QED BY <3>2, <3>3, <3>4 DEF RowsOK
    <2> QED BY <2>1, <2>3, <2>4, RowChange
<1> QED BY <1>1, <1>2, OtherSteps

\* The row invariant holds in every reachable state.
LEMMA RowsInvariant == Spec => [](TypeOK /\ ClocksOK /\ RowsOK)
<1>1. Init => RowsOK
    BY DEF Init, RowsOK, RowsExist, NothingStagedEarly, CompleteIffAllDeleted, NoTarget
<1> QED BY <1>1, RowsStep, ClockInvariant, PTL DEF Spec

\* Nothing is staged before its time, completion is exactly the deletion of every
\* copy, and every target the overdue list names has work left.
THEOREM RowsCorrect == Spec => []RowsSound
<1>1. TypeOK /\ RowsOK => NothingStagedEarly /\ CompleteIffAllDeleted /\ OverdueHasWork
    BY DEF RowsOK, RowsExist, CompleteIffAllDeleted, OverdueHasWork, Overdue, TypeOK, CopyStates
<1>2. TypeOK /\ RowsOK => RowsSound
    BY <1>1 DEF RowsSound
<1> QED BY <1>2, RowsInvariant, PTL

\* What one step may do to a target and its copies: nothing to the copies of a held
\* target, nothing at all to a completed one, and otherwise one stage forward.
LEMMA RowActions ==
    ASSUME TypeOK, RowsOK, [Next]_vars, NEW t \in Targets
    PROVE  /\ targets[t].hold => copies'[t] = copies[t]
           /\ targets[t].completed =>
                /\ targets'[t] = targets[t] /\ copies'[t] = copies[t]
                /\ Len(log') > Len(log) => log'[Len(log')].content.target # t
           /\ \A c \in Copies : copies'[t][c] # copies[t][c] =>
                \/ copies[t][c] = "absent" /\ copies'[t][c] = "active" /\ ~targets[t].registered
                \/ copies[t][c] = "active" /\ copies'[t][c] = "trash_staged"
                \/ copies[t][c] = "trash_staged" /\ copies'[t][c] = "deleted"
<1>0. /\ ~targets[t].registered => /\ ~targets[t].hold /\ ~targets[t].completed
                                   /\ \A c \in Copies : copies[t][c] = "absent"
      /\ targets[t].completed => ~targets[t].hold
      /\ Len(log) \in Nat
    BY DEF RowsOK, RowsExist, CompleteIffAllDeleted, TypeOK
<1>1. CASE UNCHANGED <<targets, copies, log>> BY <1>0, <1>1
<1>2. CASE Transactions
    <2>1. PICK r \in pending :
            \/ Replay(r) \/ RegisterTarget(r) \/ SetLegalHold(r)
            \/ StageTrash(r) \/ AttestDeleted(r) \/ Rollback(r)
        BY <1>2 DEF Transactions
    <2>2. CASE /\ AppendRetentionEvent(r)
               /\ \A x \in Targets \ {r.content.target} :
                    targets'[x] = targets[x] /\ copies'[x] = copies[x]
               /\ Registers(r) \/ Holds(r) \/ Stages(r) \/ Attests(r)
        <3>1. Len(log') = Len(log) + 1 /\ log'[Len(log')].content = r.content
            BY <2>2, Appended
        <3>2. CASE t # r.content.target BY <2>2, <3>1, <3>2
        <3>3. CASE t = r.content.target
            <4>1. ~targets[t].completed
                BY <1>0, <2>2, <3>3 DEF Registers, Holds, Stages, Attests
            <4>2. CASE Registers(r) BY <1>0, <3>3, <4>1, <4>2 DEF Registers
            <4>3. CASE Holds(r) BY <3>3, <4>1, <4>3 DEF Holds
            <4>4. CASE Stages(r) BY <3>3, <4>1, <4>4 DEF Stages
            <4>5. CASE Attests(r) BY <3>3, <4>1, <4>5 DEF Attests
            <4> QED BY <2>2, <4>2, <4>3, <4>4, <4>5
        <3> QED BY <3>2, <3>3
    <2> QED BY <1>1, <2>1, <2>2, RowChange
<1> QED BY <1>1, <1>2, OtherSteps

\* A hold freezes the copies of its target against every request in flight.
THEOREM HoldFreezes == Spec => HoldFreezesCopies
<1>1. TypeOK /\ RowsOK /\ [Next]_vars =>
        [\A t \in Targets : targets[t].hold => copies'[t] = copies[t]]_vars
    BY RowActions
<1> QED BY <1>1, RowsInvariant, PTL DEF Spec, HoldFreezesCopies

\* A completed target is final.
THEOREM CompletedForever == Spec => CompletedTargetFrozen
<1>1. TypeOK /\ RowsOK /\ [Next]_vars =>
        [\A t \in Targets : targets[t].completed =>
            /\ targets'[t] = targets[t] /\ copies'[t] = copies[t]
            /\ Len(log') > Len(log) => log'[Len(log')].content.target # t]_vars
    BY RowActions
<1> QED BY <1>1, RowsInvariant, PTL DEF Spec, CompletedTargetFrozen

\* A copy goes through its stages in order.
THEOREM StagesInOrder == Spec => CopyLifecycle
<1>1. TypeOK /\ RowsOK /\ [Next]_vars =>
        [\A t \in Targets, c \in Copies : copies'[t][c] # copies[t][c] =>
            \/ copies[t][c] = "absent" /\ copies'[t][c] = "active" /\ ~targets[t].registered
            \/ copies[t][c] = "active" /\ copies'[t][c] = "trash_staged"
            \/ copies[t][c] = "trash_staged" /\ copies'[t][c] = "deleted"]_vars
    BY RowActions
<1> QED BY <1>1, RowsInvariant, PTL DEF Spec, CopyLifecycle

-----------------------------------------------------------------------------
(***************************************************************************)
(* The log determines the rows, and the audit trail matches the log        *)
(***************************************************************************)

\* Appending an event about another target changes nothing for this one, and the
\* events about this target and copy afterwards are the old ones and the new one.
LEMMA ReplayStep ==
    TypeOK /\ RowsOK /\ LogReplaysToState /\ [Next]_vars => LogReplaysToState'
<1> SUFFICES ASSUME TypeOK, RowsOK, LogReplaysToState, [Next]_vars PROVE LogReplaysToState'
    OBVIOUS
<1>1. CASE UNCHANGED <<targets, copies, log>>
    BY <1>1 DEF LogReplaysToState, Is, IsOf
<1>2. CASE Transactions
    <2>1. PICK r \in pending :
            \/ Replay(r) \/ RegisterTarget(r) \/ SetLegalHold(r)
            \/ StageTrash(r) \/ AttestDeleted(r) \/ Rollback(r)
        BY <1>2 DEF Transactions
    <2> DEFINE u == r.content.target
    <2>2. CASE /\ u \in Targets /\ AppendRetentionEvent(r)
               /\ \A x \in Targets \ {u} : targets'[x] = targets[x] /\ copies'[x] = copies[x]
               /\ \/ r.content.type = "registered" /\ Registers(r)
                  \/ r.content.type \in {"hold_placed", "hold_released"} /\ Holds(r)
                  \/ r.content.type = "trash_staged" /\ Stages(r)
                  \/ r.content.type = "deletion_attested" /\ Attests(r)
        <3>1. PICK n \in Nat :
                /\ DOMAIN log = 1..n /\ DOMAIN log' = 1..(n + 1)
                /\ \A i \in 1..n : log'[i] = log[i]
                /\ log'[n + 1].content = r.content
            BY <2>2, Appended
        <3> SUFFICES ASSUME NEW t \in Targets
                     PROVE  /\ targets'[t].registered <=>
                                 \E i \in DOMAIN log' : Is(i, "registered", t)'
                            /\ targets'[t].hold <=>
                                 \E i \in DOMAIN log' :
                                    /\ Is(i, "hold_placed", t)'
                                    /\ \A k \in DOMAIN log' :
                                         k > i => ~Is(k, "hold_released", t)'
                            /\ \A c \in Copies :
                                 /\ copies'[t][c] \in {"trash_staged", "deleted"} <=>
                                      \E i \in DOMAIN log' : IsOf(i, "trash_staged", t, c)'
                                 /\ copies'[t][c] = "deleted" <=>
                                      \E i \in DOMAIN log' : IsOf(i, "deletion_attested", t, c)'
            BY DEF LogReplaysToState
        <3>2. /\ \A i \in 1..n, type \in EventTypes : Is(i, type, t)' <=> Is(i, type, t)
              /\ \A i \in 1..n, type \in EventTypes, c \in Copies :
                    IsOf(i, type, t, c)' <=> IsOf(i, type, t, c)
              /\ \A type \in EventTypes :
                    Is(n + 1, type, t)' <=> r.content.type = type /\ u = t
              /\ \A type \in EventTypes, c \in Copies :
                    IsOf(n + 1, type, t, c)' <=>
                        r.content.type = type /\ u = t /\ r.content.copy = c
            BY <3>1 DEF Is, IsOf
        <3>3. {"registered", "hold_placed", "hold_released", "trash_staged",
               "deletion_attested"} = EventTypes
            BY DEF EventTypes
        <3>4. \A i \in 1..(n + 1) : i \in 1..n \/ i = n + 1
            OBVIOUS
        <3>5. /\ targets[t].registered <=> \E i \in 1..n : Is(i, "registered", t)
              /\ targets[t].hold <=>
                   \E i \in 1..n : /\ Is(i, "hold_placed", t)
                                   /\ \A k \in 1..n : k > i => ~Is(k, "hold_released", t)
              /\ \A c \in Copies :
                   /\ copies[t][c] \in {"trash_staged", "deleted"} <=>
                        \E i \in 1..n : IsOf(i, "trash_staged", t, c)
                   /\ copies[t][c] = "deleted" <=>
                        \E i \in 1..n : IsOf(i, "deletion_attested", t, c)
            BY <3>1 DEF LogReplaysToState
        <3>6. /\ (\E i \in DOMAIN log' : Is(i, "registered", t)') <=>
                    \/ \E i \in 1..n : Is(i, "registered", t)
                    \/ r.content.type = "registered" /\ u = t
              /\ \A c \in Copies, type \in EventTypes :
                   (\E i \in DOMAIN log' : IsOf(i, type, t, c)') <=>
                    \/ \E i \in 1..n : IsOf(i, type, t, c)
                    \/ r.content.type = type /\ u = t /\ r.content.copy = c
            BY <3>1, <3>2, <3>3, <3>4
        <3>7. targets'[t].registered <=> \E i \in DOMAIN log' : Is(i, "registered", t)'
            BY <2>2, <3>5, <3>6 DEF Registers, Holds, Stages, Attests
        <3>8. targets'[t].hold <=>
                \E i \in DOMAIN log' : /\ Is(i, "hold_placed", t)'
                                       /\ \A k \in DOMAIN log' :
                                            k > i => ~Is(k, "hold_released", t)'
            <4>1. CASE r.content.type = "hold_placed" /\ u = t
                <5>1. targets'[t].hold BY <2>2, <4>1 DEF Holds
                <5>2. Is(n + 1, "hold_placed", t)' BY <3>2, <3>3, <4>1
                <5>3. n + 1 \in DOMAIN log' /\ \A k \in DOMAIN log' : ~(k > n + 1)
                    BY <3>1
                <5> QED BY <5>1, <5>2, <5>3
            <4>2. CASE r.content.type = "hold_released" /\ u = t
                <5>1. ~targets'[t].hold BY <2>2, <4>2 DEF Holds
                <5>2. Is(n + 1, "hold_released", t)' /\ ~Is(n + 1, "hold_placed", t)'
                    BY <3>2, <3>3, <4>2
                <5>3. n + 1 \in DOMAIN log' /\ \A i \in DOMAIN log' : i = n + 1 \/ n + 1 > i
                    BY <3>1
                <5> QED BY <5>1, <5>2, <5>3
            <4>3. CASE ~(r.content.type \in {"hold_placed", "hold_released"} /\ u = t)
                <5>1. targets'[t].hold <=> targets[t].hold
                    BY <2>2, <4>3 DEF Registers, Holds, Stages, Attests, RowsOK, RowsExist
                <5>2. ~Is(n + 1, "hold_placed", t)' /\ ~Is(n + 1, "hold_released", t)'
                    BY <3>2, <3>3, <4>3
                <5> QED BY <3>1, <3>2, <3>3, <3>4, <3>5, <5>1, <5>2
            <4> QED BY <4>1, <4>2, <4>3
        <3>9. ASSUME NEW c \in Copies
              PROVE  /\ copies'[t][c] \in {"trash_staged", "deleted"} <=>
                          \E i \in DOMAIN log' : IsOf(i, "trash_staged", t, c)'
                     /\ copies'[t][c] = "deleted" <=>
                          \E i \in DOMAIN log' : IsOf(i, "deletion_attested", t, c)'
            <4> DEFINE New(type) == r.content.type = type /\ u = t /\ r.content.copy = c
            <4>1. /\ (\E i \in DOMAIN log' : IsOf(i, "trash_staged", t, c)') <=>
                        copies[t][c] \in {"trash_staged", "deleted"} \/ New("trash_staged")
                  /\ (\E i \in DOMAIN log' : IsOf(i, "deletion_attested", t, c)') <=>
                        copies[t][c] = "deleted" \/ New("deletion_attested")
                BY <3>3, <3>5, <3>6, <3>9
            <4>2. /\ copies'[t][c] \in {"trash_staged", "deleted"} <=>
                        copies[t][c] \in {"trash_staged", "deleted"} \/ New("trash_staged")
                  /\ copies'[t][c] = "deleted" <=>
                        copies[t][c] = "deleted" \/ New("deletion_attested")
                <5>1. CASE u # t BY <2>2, <5>1
                <5>2. CASE u = t /\ r.content.type = "registered" /\ Registers(r)
                    BY <3>9, <5>2 DEF Registers, RowsOK, RowsExist
                <5>3. CASE /\ u = t /\ Holds(r)
                           /\ r.content.type \in {"hold_placed", "hold_released"}
                    BY <3>9, <5>3 DEF Holds
                <5>4. CASE u = t /\ r.content.type = "trash_staged" /\ Stages(r)
                    BY <3>9, <5>4 DEF Stages
                <5>5. CASE u = t /\ r.content.type = "deletion_attested" /\ Attests(r)
                    BY <3>9, <5>5 DEF Attests
                <5> QED BY <2>2, <5>1, <5>2, <5>3, <5>4, <5>5
            <4> QED BY <4>1, <4>2
        <3> QED BY <3>7, <3>8, <3>9
    <2> QED BY <1>1, <2>1, <2>2, RowChange
<1> QED BY <1>1, <1>2, OtherSteps

\* The rows can be rebuilt from the append-only events in every reachable state.
THEOREM LogIsAuthoritative == Spec => []LogReplaysToState
<1>1. Init => LogReplaysToState
    BY DEF Init, LogReplaysToState, NoTarget
<1> QED BY <1>1, ReplayStep, RowsInvariant, PTL DEF Spec

\* Every step keeps the audit trail and the log in step.
LEMMA AuditStep == TypeOK /\ AuditMatchesLog /\ [Next]_vars => AuditMatchesLog'
<1> SUFFICES ASSUME TypeOK, AuditMatchesLog, [Next]_vars PROVE AuditMatchesLog'
    OBVIOUS
<1>1. CASE UNCHANGED <<audit, log>> BY <1>1 DEF AuditMatchesLog
<1>2. CASE Transactions
    <2>1. PICK r \in pending :
            \/ Replay(r) \/ RegisterTarget(r) \/ SetLegalHold(r)
            \/ StageTrash(r) \/ AttestDeleted(r) \/ Rollback(r)
        BY <1>2 DEF Transactions
    <2> DEFINE a == AuditOf(r.content, r.key)
    <2>2. a.key # None
        BY RequestFields, NullAssumption DEF AuditOf
    <2> HIDE DEF a
    <2>3. CASE Replay(r)
        <3>1. a \in {AuditOf(log[i].content, log[i].key) : i \in DOMAIN log}
            BY <2>3 DEF Replay, Replays, a
        <3>2. audit' = audit \cup {a} /\ log' = log BY <2>3 DEF Replay, a
        <3> QED BY <3>1, <3>2 DEF AuditMatchesLog
    <2>4. CASE AppendRetentionEvent(r)
        <3>1. PICK n \in Nat :
                /\ DOMAIN log = 1..n /\ DOMAIN log' = 1..(n + 1)
                /\ \A i \in 1..n : log'[i] = log[i]
                /\ log'[n + 1].content = r.content /\ log'[n + 1].key = r.key
            BY <2>4, Appended
        <3>2. AuditOf(log'[n + 1].content, log'[n + 1].key) = a BY <3>1 DEF a
        <3>3. {AuditOf(log'[i].content, log'[i].key) : i \in DOMAIN log'} =
                {AuditOf(log[i].content, log[i].key) : i \in DOMAIN log} \cup {a}
            <4>1. \A i \in 1..n : AuditOf(log'[i].content, log'[i].key) =
                                    AuditOf(log[i].content, log[i].key)
                BY <3>1
            <4>2. 1..(n + 1) = (1..n) \cup {n + 1} OBVIOUS
            <4> QED BY <3>1, <3>2, <4>1, <4>2
        <3>4. audit' = audit \cup {a} BY <2>4 DEF AppendRetentionEvent, a
        <3> QED BY <2>2, <3>3, <3>4 DEF AuditMatchesLog
    <2>5. CASE Rollback(r) BY <1>1, <2>5 DEF Rollback, tables
    <2> QED BY <2>1, <2>3, <2>4, <2>5
            DEF RegisterTarget, SetLegalHold, StageTrash, AttestDeleted
<1>3. CASE Read
    <2>1. PICK s \in Stewards : audit' = audit \cup
            {[action |-> "retention.read", target |-> None, subject |-> s, key |-> None]}
        BY <1>3 DEF Read
    <2>2. {x \in audit' : x.key # None} = {x \in audit : x.key # None} BY <2>1
    <2> QED BY <1>3, <2>2 DEF Read, AuditMatchesLog
<1>4. Tick \/ Requests \/ UNCHANGED vars => UNCHANGED <<audit, log>>
    BY RequestsType DEF Tick, vars, tables
<1> QED BY <1>1, <1>2, <1>3, <1>4 DEF Next

\* Events and accepted audit rows are written together or not at all.
THEOREM AuditComplete == Spec => []AuditMatchesLog
<1>1. Init => AuditMatchesLog
    BY DEF Init, AuditMatchesLog
<1> QED BY <1>1, AuditStep, TypeCorrect, PTL DEF Spec

\* The log of retention events explains both the mutable rows and the audit trail.
THEOREM TablesCorrect == Spec => []TablesAgree
<1> QED BY LogIsAuthoritative, AuditComplete, PTL DEF TablesAgree
=============================================================================
