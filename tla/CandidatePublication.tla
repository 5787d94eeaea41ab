------------------------ MODULE CandidatePublication ------------------------
(***************************************************************************)
(* Candidate publication and discovery: CandidatePublicationService over   *)
(* SQLiteCandidatePublicationStore, and the paged listing of finalized,    *)
(* unreviewed candidates by CandidateDiscoveryService and its route        *)
(* (apps/api/src/workflow_api/candidate_publication_*.py,                  *)
(* candidate_discovery_service.py, routes/candidate_discovery.py).         *)
(*                                                                         *)
(* A publication key is its job id.  The derivation evidence determines    *)
(* the candidate bytes and the review target, so a row carries only the    *)
(* evidence.  As in the control store the clock is read before a           *)
(* transaction waits for its lock.  Reviews live in another database; here *)
(* they are the growing set of targets that have a review event.           *)
(***************************************************************************)
EXTENDS Integers, FiniteSets

CONSTANTS
    Jobs,           \* job ids, numbers in the order of their publication keys
    Evidence,       \* derivation envelopes somebody may present for a job
    Owners,         \* reservation owner ids
    Callers,        \* concurrent callers of publish
    Readers,        \* clients that page through the discovery route
    Leases,         \* lease durations callers ask for, in clock units
    Limit,          \* page size a reader asks for
    Batch,          \* DISCOVERY_SCAN_BATCH
    MaxEpoch,       \* MAX_EPOCH
    MaxDelay,       \* how old a clock value may be when its transaction runs
    MaxClock,       \* bound: last clock value explored
    MaxHidden,      \* bound: review reads that fail, per listing
    None

ASSUME PublicationAssumption ==
    /\ Jobs \subseteq Nat /\ IsFiniteSet(Jobs)
    /\ Leases \subseteq Nat \ {0}
    /\ Limit \in Nat \ {0} /\ Batch \in Nat \ {0} /\ MaxEpoch \in Nat \ {0}
    /\ MaxDelay \in Nat /\ MaxClock \in Nat /\ MaxHidden \in Nat
    /\ None \notin Jobs \cup Evidence \cup Owners

VARIABLES
    clock,      \* wall-clock time
    pubs,       \* table candidate_publications
    caller,     \* per caller: where its publish call is
    reviewed,   \* review targets with an event in the control database
    reader      \* per reader: its listing

vars == <<clock, pubs, caller, reviewed, reader>>

-----------------------------------------------------------------------------
Row == [state: {"absent", "reserved", "finalized"}, evidence: Evidence \cup {None},
        owner: Owners \cup {None}, epoch: Nat, expires: Nat,
        reserved: Nat, updated: Nat, finalized: Nat]

NoRow == [state |-> "absent", evidence |-> None, owner |-> None, epoch |-> 0,
          expires |-> 0, reserved |-> 0, updated |-> 0, finalized |-> 0]

Call == [pc: {"idle", "reserve", "reserved", "commit", "published"},
         job: Jobs \cup {None}, evidence: Evidence \cup {None},
         owner: Owners \cup {None}, lease: Nat, epoch: Nat, now: Nat]

NoCall == [pc |-> "idle", job |-> None, evidence |-> None, owner |-> None,
           lease |-> 0, epoch |-> 0, now |-> 0]

Finalized == {j \in Jobs : pubs[j].state = "finalized"}

-----------------------------------------------------------------------------
(***************************************************************************)
(* publish: prepare the bytes, reserve, finalize                           *)
(***************************************************************************)

Publish(p) ==
    /\ caller[p].pc \in {"idle", "published"}
    /\ \E j \in Jobs, e \in Evidence, o \in Owners, l \in Leases :
         caller' = [caller EXCEPT ![p] =
             [NoCall EXCEPT !.pc = "reserve", !.job = j, !.evidence = e, !.owner = o,
                            !.lease = l, !.now = clock]]
    /\ UNCHANGED <<clock, pubs, reviewed, reader>>

ExpiredEarly(row, now) == row.expires <= now + 1

Expired(row, now) == row.expires <= now

SameEvidence(row, c) == row.evidence = c.evidence

LeaseBackwards(c) == c.now - c.lease

LeaseExpiry(c) == c.now + c.lease

\* The caller continues under the epoch the store answered with.
Holding(p, epoch) ==
    caller' = [caller EXCEPT ![p].pc = "reserved", ![p].epoch = epoch]

\* The store's answer was verified to be this caller's own evidence.
Published(p) == caller' = [caller EXCEPT ![p].pc = "published"]

ReserveNew(p) ==
    LET c == caller[p]
    IN /\ c.pc = "reserve"
       /\ pubs[c.job].state = "absent"
       /\ pubs' = [pubs EXCEPT ![c.job] =
            [NoRow EXCEPT !.state = "reserved", !.evidence = c.evidence, !.owner = c.owner,
                          !.epoch = 1, !.expires = LeaseExpiry(c),
                          !.reserved = c.now, !.updated = c.now]]
       /\ Holding(p, 1)
       /\ UNCHANGED <<clock, reviewed, reader>>

\* The live reservation of the same owner id is handed out again, not extended.
ReserveAgain(p) ==
    LET c == caller[p]
        row == pubs[c.job]
    IN /\ c.pc = "reserve"
       /\ row.state = "reserved" /\ SameEvidence(row, c)
       /\ ~Expired(row, c.now)
       /\ row.owner = c.owner
       /\ Holding(p, row.epoch)
       /\ UNCHANGED <<clock, pubs, reviewed, reader>>

EpochKept(row) == row.epoch

NextEpoch(row) == row.epoch + 1

TakenOver(row, c) ==
    [row EXCEPT !.owner = c.owner, !.epoch = NextEpoch(row), !.expires = LeaseExpiry(c),
                !.updated = c.now]

ReserveExpired(p) ==
    LET c == caller[p]
        row == pubs[c.job]
    IN /\ c.pc = "reserve"
       /\ row.state = "reserved" /\ SameEvidence(row, c)
       /\ Expired(row, c.now)
       /\ row.epoch < MaxEpoch
       /\ pubs' = [pubs EXCEPT ![c.job] = TakenOver(row, c)]
       /\ Holding(p, NextEpoch(row))
       /\ UNCHANGED <<clock, reviewed, reader>>

\* Reserving or finalizing a finalized row is a replay of the same evidence.
Replay(p) ==
    LET c == caller[p]
    IN /\ c.pc \in {"reserve", "reserved", "commit"}
       /\ pubs[c.job].state = "finalized" /\ SameEvidence(pubs[c.job], c)
       /\ Published(p)
       /\ UNCHANGED <<clock, pubs, reviewed, reader>>

\* _assert_live_reservation
LiveReservation(row, c, now) ==
    /\ row.state = "reserved"
    /\ row.owner = c.owner /\ row.epoch = c.epoch
    /\ ~Expired(row, now)

\* finalize reads the clock and checks the row outside any transaction.  The row's epoch
\* counts its changes, so reading both at one moment loses nothing.
Finalize(p) ==
    LET c == caller[p]
    IN /\ c.pc = "reserved"
       /\ LiveReservation(pubs[c.job], c, clock)
       /\ caller' = [caller EXCEPT ![p].pc = "commit", ![p].now = clock]
       /\ UNCHANGED <<clock, pubs, reviewed, reader>>

FinalizedRow(row, now) ==
    [row EXCEPT !.state = "finalized", !.expires = 0, !.finalized = now, !.updated = now]

\* The transaction checks again, and that the clock has not run backwards.
FinalizeCommit(p) ==
    LET c == caller[p]
        row == pubs[c.job]
    IN /\ c.pc = "commit"
       /\ LiveReservation(row, c, c.now)
       /\ row.updated <= c.now
       /\ pubs' = [pubs EXCEPT ![c.job] = FinalizedRow(row, c.now)]
       /\ Published(p)
       /\ UNCHANGED <<clock, reviewed, reader>>

\* Any refusal, error or crash ends the call; what its transactions committed stays.
Fail(p) ==
    /\ caller[p].pc \in {"reserve", "reserved", "commit"}
    /\ caller' = [caller EXCEPT ![p] = NoCall]
    /\ UNCHANGED <<clock, pubs, reviewed, reader>>

Tick ==
    /\ clock < MaxClock
    /\ \A p \in Callers :
         caller[p].pc \in {"reserve", "commit"} => clock + 1 <= caller[p].now + MaxDelay
    /\ clock' = clock + 1
    /\ UNCHANGED <<pubs, caller, reviewed, reader>>

\* append_candidate_review_event commits the first review of a target.  The approval
\* wrapper reviews candidates that were never published too.
Review ==
    /\ \E j \in Jobs, e \in Evidence : reviewed' = reviewed \cup {<<j, e>>}
    /\ UNCHANGED <<clock, pubs, caller, reader>>

-----------------------------------------------------------------------------
(***************************************************************************)
(* Discovery.  The store scans batches after a cursor and drops reviewed   *)
(* rows; the service reads every row's review once more; the route hands   *)
(* out the last row of a full page as the next cursor.                     *)
(***************************************************************************)

Listing ==
    [pc: {"idle", "scan", "check", "recheck", "page"},
     cursor: Jobs \cup {None},   \* the service's scan_cursor, the last row it looked at
     scan: Jobs \cup {None},     \* the store's scan_cursor
     batch: SUBSET Jobs,         \* rows of the current batch not yet checked
     last: BOOLEAN,              \* the batch was shorter than DISCOVERY_SCAN_BATCH
     rows: SUBSET Jobs,          \* rows the store returns and the service has not re-read
     found: SUBSET Jobs,         \* the page so far
     listed: SUBSET Jobs,        \* rows of the earlier pages
     hidden: SUBSET Jobs,        \* rows dropped because their review could not be read
     before: SUBSET Jobs,        \* rows finalized when the listing began
     known: SUBSET Jobs]         \* those of them that were reviewed by then

NoListing ==
    [pc |-> "idle", cursor |-> None, scan |-> None, batch |-> {}, last |-> FALSE,
     rows |-> {}, found |-> {}, listed |-> {}, hidden |-> {}, before |-> {}, known |-> {}]

\* order by finalized_at_us, publication_key
Precedes(i, j) ==
    \/ pubs[i].finalized < pubs[j].finalized
    \/ pubs[i].finalized = pubs[j].finalized /\ i < j

PastOrAt(c, j) == c = None \/ ~Precedes(j, c)

Past(c, j) == c = None \/ Precedes(c, j)

After(c) == {j \in Finalized : Past(c, j)}

\* select ... order by ... limit DISCOVERY_SCAN_BATCH
IsBatch(batch, rows) ==
    /\ \A i \in batch, j \in rows \ batch : Precedes(i, j)
    /\ Cardinality(batch) <= Batch
    /\ batch # rows => Cardinality(batch) = Batch

IsFirst(j, rows) == j \in rows /\ \A i \in rows : i = j \/ Precedes(j, i)

ReviewedRow(j) == <<j, pubs[j].evidence>> \in reviewed

Others == <<clock, pubs, caller, reviewed>>

Update(r, listing) == reader' = [reader EXCEPT ![r] = listing]

NewListing ==
    [NoListing EXCEPT !.pc = "scan", !.before = Finalized,
                      !.known = {j \in Finalized : ReviewedRow(j)}]

StartListing(r) ==
    /\ reader[r].pc = "idle"
    /\ Update(r, NewListing)
    /\ UNCHANGED Others

Returned(rows) == IF rows = {} THEN "page" ELSE "recheck"

ShortOrFull(batch) == Cardinality(batch) <= Batch

Short(batch) == Cardinality(batch) < Batch

Scanned(l, batch) ==
    [l EXCEPT !.pc = IF batch = {} THEN Returned(l.rows) ELSE "check",
              !.batch = batch, !.last = Short(batch)]

Scan(r) ==
    LET l == reader[r]
        rows == After(l.scan)
    IN /\ l.pc = "scan"
       /\ \E batch \in SUBSET rows : IsBatch(batch, rows) /\ Update(r, Scanned(l, batch))
       /\ UNCHANGED Others

\* The next row j is kept if its review was read and there is none.
Keep(rows, j, readable) == IF readable /\ ~ReviewedRow(j) THEN rows \cup {j} ELSE rows

\* A review that cannot be read suppresses the row.
Hide(hidden, j, readable) == IF readable THEN hidden ELSE hidden \cup {j}

MayHide(l) == Cardinality(l.hidden) < MaxHidden

\* The store goes on until the page is full or the table is at its end.
AfterCheck(l, rows, batch) ==
    IF Cardinality(rows) + Cardinality(l.found) = Limit THEN "recheck"
    ELSE IF batch # {} THEN "check"
    ELSE IF l.last THEN Returned(rows) ELSE "scan"

Checked(l, j, readable) ==
    LET rows == Keep(l.rows, j, readable)
        batch == l.batch \ {j}
    IN [l EXCEPT !.pc = AfterCheck(l, rows, batch), !.scan = j, !.batch = batch, !.rows = rows,
                 !.hidden = Hide(@, j, readable)]

\* _review_is_effectively_unreviewed for the next row of the batch.  Its two selects see
\* different moments, which answers as one read at the second.
Check(r) ==
    LET l == reader[r]
    IN /\ l.pc = "check"
       /\ \E j \in l.batch, readable \in BOOLEAN :
            /\ IsFirst(j, l.batch)
            /\ readable \/ MayHide(l)
            /\ Update(r, Checked(l, j, readable))
       /\ UNCHANGED Others

AfterRecheck(found, rows) ==
    IF Cardinality(found) = Limit THEN "page" ELSE IF rows # {} THEN "recheck" ELSE "scan"

Rechecked(l, j, readable) ==
    LET found == Keep(l.found, j, readable)
        rows == l.rows \ {j}
    IN [l EXCEPT !.pc = AfterRecheck(found, rows), !.scan = j, !.cursor = j, !.batch = {},
                 !.rows = rows, !.found = found, !.hidden = Hide(@, j, readable)]

\* _still_unreviewed for the next row the store returned; when none is left the service
\* asks the store again after the last row it looked at.
Recheck(r) ==
    LET l == reader[r]
    IN /\ l.pc = "recheck"
       /\ \E j \in l.rows, readable \in BOOLEAN :
            /\ IsFirst(j, l.rows)
            /\ readable \/ MayHide(l)
            /\ Update(r, Rechecked(l, j, readable))
       /\ UNCHANGED Others

Turned(l, j) ==
    [l EXCEPT !.pc = "scan", !.cursor = j, !.scan = j, !.rows = {}, !.found = {},
              !.listed = l.listed \cup l.found]

\* A full page carries the cursor of its last row; the reader asks for the next one.
NextPage(r) ==
    LET l == reader[r]
    IN /\ l.pc = "page"
       /\ Cardinality(l.found) = Limit
       /\ \E j \in l.found :
            /\ \A i \in l.found : i = j \/ Precedes(i, j)
            /\ Update(r, Turned(l, j))
       /\ UNCHANGED Others

Complete(l) == l.pc = "page" /\ Cardinality(l.found) < Limit

\* The listing ended with a page that was not full.
EndListing(r) ==
    /\ Complete(reader[r])
    /\ Update(r, NoListing)
    /\ UNCHANGED Others

\* An authority check or the store fails: 503, and the reader starts over.
AbortListing(r) ==
    /\ reader[r].pc # "idle"
    /\ Update(r, NoListing)
    /\ UNCHANGED Others

-----------------------------------------------------------------------------
Init ==
    /\ clock = 0
    /\ pubs = [j \in Jobs |-> NoRow]
    /\ caller = [p \in Callers |-> NoCall]
    /\ reviewed = {}
    /\ reader = [r \in Readers |-> NoListing]

CallerStep(p) ==
    \/ Publish(p) \/ ReserveNew(p) \/ ReserveAgain(p) \/ ReserveExpired(p)
    \/ Replay(p) \/ Finalize(p) \/ FinalizeCommit(p) \/ Fail(p)

Paging(r) == Scan(r) \/ Check(r) \/ Recheck(r) \/ NextPage(r)

ReaderStep(r) == StartListing(r) \/ Paging(r) \/ EndListing(r) \/ AbortListing(r)

Next ==
    \/ Tick
    \/ Review
    \/ \E p \in Callers : CallerStep(p)
    \/ \E r \in Readers : ReaderStep(r)

Spec == Init /\ [][Next]_vars

\* A listing is a loop inside one request, and the reader asks for the next page.
FairSpec == Spec /\ \A r \in Readers : WF_vars(Paging(r))

-----------------------------------------------------------------------------
(***************************************************************************)
(* Properties                                                              *)
(***************************************************************************)

\* Every variable stays in its type.
TypeOK ==
    /\ clock \in Nat
    /\ pubs \in [Jobs -> Row]
    /\ caller \in [Callers -> Call]
    /\ reviewed \in SUBSET (Jobs \X Evidence)
    /\ reader \in [Readers -> Listing]

\* The table's CHECK constraints hold by the store's own logic, whatever stale clock
\* values its transactions carry: no commit is ever aborted by them.
SchemaChecksHold ==
    \A j \in Jobs :
        LET row == pubs[j]
        IN /\ row.state = "reserved" => row.reserved <= row.updated /\ row.updated < row.expires
           /\ row.state = "finalized" =>
                row.reserved <= row.updated /\ row.updated <= row.finalized
           /\ row.state # "absent" => row.epoch \in 1..MaxEpoch

\* Callers that hold the same epoch of a publication are the same owner with the same
\* evidence, and no caller holds an epoch the row has not reached.
EpochNamesOwner ==
    \A p, q \in Callers :
        LET c == caller[p]
            d == caller[q]
        IN (c.pc \in {"reserved", "commit"} /\ d.pc \in {"reserved", "commit"} /\ c.job = d.job)
           => /\ c.epoch <= pubs[c.job].epoch
              /\ c.epoch = d.epoch => c.owner = d.owner /\ c.evidence = d.evidence

\* Whoever was told that its candidate is published finds exactly that candidate
\* finalized, now and later: never another caller's.
PublishedIsStored ==
    \A p \in Callers : caller[p].pc = "published" =>
        LET row == pubs[caller[p].job]
        IN row.state = "finalized" /\ row.evidence = caller[p].evidence

\* What the callers of one publication may rely on while reservations expire and are
\* taken over between their steps: commits that the table admits, epochs that identify
\* their owner, and a success that is about their own candidate.
PublicationSound == SchemaChecksHold /\ EpochNamesOwner /\ PublishedIsStored

\* A finalized row never changes, and the evidence of a reserved one is never replaced.
PublicationImmutable ==
    [][\A j \in Jobs :
        /\ pubs[j].state = "finalized" => pubs'[j] = pubs[j]
        /\ pubs[j].state = "reserved" => pubs'[j].evidence = pubs[j].evidence]_vars

\* A reservation is taken over only after it has really expired, and finalized at most
\* MaxDelay after that, by the latest epoch.
ReservationRespected ==
    [][\A j \in Jobs : pubs[j].state = "reserved" =>
        /\ pubs'[j].epoch # pubs[j].epoch => pubs[j].expires <= clock
        /\ pubs'[j].state = "finalized" => /\ clock < pubs[j].expires + MaxDelay
                                           /\ pubs'[j].finalized < pubs[j].expires]_vars

\* No step rewrites what was published, and none takes a reservation before its time.
PublicationStable == PublicationImmutable /\ ReservationRespected

\* A listing that ends has shown every candidate finalized before it began, unless its
\* review exists by now or could not be read, although reviews and publications went on
\* between its reads.
ListingComplete ==
    \A r \in Readers : LET l == reader[r] IN
        Complete(l) => \A j \in l.before :
            j \in l.listed \cup l.found \cup l.hidden \/ ReviewedRow(j)

\* No candidate is listed twice, and none that was reviewed before the listing began.
ListedOnce ==
    \A r \in Readers : LET l == reader[r] IN
        l.listed \cap l.found = {} /\ (l.listed \cup l.found) \cap l.known = {}

\* A listing shows exactly what it owes its reader: nothing missed, nothing twice.
ListingSound == ListingComplete /\ ListedOnce

\* Paging always comes to an end: the cursor moves past rows that keep losing the race.
ListingEnds ==
    \A r \in Readers :
        reader[r].pc = "scan" ~> (Complete(reader[r]) \/ reader[r].pc = "idle")
=============================================================================
