--------------------------- MODULE CandidateProofs ---------------------------
(***************************************************************************)
(* Theorems about CandidatePublication: the reservations, and the paged    *)
(* listing that runs beside them.                                          *)
(***************************************************************************)
EXTENDS CandidatePublication, FiniteSetTheorems, TLAPS

(***************************************************************************)
(* The inductive invariant of the publication table and its callers        *)
(***************************************************************************)

Active == {"reserve", "reserved", "commit", "published"}

\* A call that runs names its job, evidence and owner, and a lease of positive length.
CallOK(c) ==
    c.pc \in Active => /\ c.job \in Jobs /\ c.evidence \in Evidence /\ c.owner \in Owners
                       /\ c.lease \in Nat \ {0}

\* The clock value carried into a transaction is not in the future and not too old.
ClockOK(c) ==
    c.pc \in {"reserve", "commit"} => c.now <= clock /\ clock <= c.now + MaxDelay

\* A caller past reserve has its evidence in the row, under an epoch the row has reached,
\* and is the row's owner if that epoch is the current one.
HoldOK(c) ==
    c.pc \in {"reserved", "commit"} =>
        /\ pubs[c.job].state # "absent"
        /\ pubs[c.job].evidence = c.evidence
        /\ c.epoch <= pubs[c.job].epoch
        /\ c.epoch = pubs[c.job].epoch => pubs[c.job].owner = c.owner

CallsOK == \A p \in Callers : CallOK(caller[p]) /\ ClockOK(caller[p]) /\ HoldOK(caller[p])

PubInv == TypeOK /\ SchemaChecksHold /\ CallsOK /\ EpochNamesOwner /\ PublishedIsStored

(***************************************************************************)
(* The inductive invariant of a listing                                    *)
(***************************************************************************)

\* What the reader has been shown, or will never have to be.
Settled(l, j) == j \in l.listed \cup l.found \cup l.hidden \/ ReviewedRow(j)

AtOrBefore(i, c) == c # None /\ (i = c \/ Precedes(i, c))

\* The listing refers to finalized rows only, which never change.
RefsOK(l) ==
    /\ l.before \subseteq Finalized /\ l.batch \subseteq Finalized
    /\ l.rows \subseteq Finalized /\ l.found \subseteq Finalized
    /\ l.listed \subseteq Finalized
    /\ l.cursor \in Finalized \cup {None} /\ l.scan \in Finalized \cup {None}
    /\ \A j \in l.known : j \in Finalized /\ ReviewedRow(j)

\* Rows shown lie at or before the scan position, and before all rows still in hand.
OrderOK(l) ==
    /\ \A i \in l.listed \cup l.found : AtOrBefore(i, l.scan)
    /\ \A i \in l.listed \cup l.found, j \in l.rows : Precedes(i, j)
    /\ l.pc \in {"scan", "check"} => \A i \in l.rows : AtOrBefore(i, l.scan)
    /\ l.pc = "check" => \A j \in l.batch : Past(l.scan, j)

\* Whatever was finalized before the listing began is settled, in hand, or still ahead.
AheadOK(l) ==
    /\ l.pc = "scan" => \A j \in l.before : Settled(l, j) \/ j \in l.rows \/ Past(l.scan, j)
    /\ l.pc = "check" => \A j \in l.before :
         \/ Settled(l, j) \/ j \in l.rows \cup l.batch
         \/ ~l.last /\ Past(l.scan, j) /\ \A i \in l.batch : Precedes(i, j)
    /\ l.pc = "recheck" => \A j \in l.before :
         Settled(l, j) \/ j \in l.rows \/ \A i \in l.rows : Precedes(i, j)
    /\ l.pc = "page" => \A j \in l.before :
         Settled(l, j) \/ (Cardinality(l.found) = Limit /\ Past(l.cursor, j))

\* A page is full exactly when its last row is the one just looked at.
PageOK(l) ==
    /\ l.pc \in {"scan", "check", "recheck"} => Cardinality(l.found) # Limit
    /\ l.pc = "page" /\ Cardinality(l.found) = Limit =>
         l.scan = l.cursor /\ l.cursor \in l.found

ListOK(l) ==
    /\ RefsOK(l) /\ OrderOK(l) /\ AheadOK(l) /\ PageOK(l)
    /\ l.listed \cap l.found = {} /\ (l.listed \cup l.found) \cap l.known = {}

ListInv == \A r \in Readers : ListOK(reader[r])

(***************************************************************************)
(* Steps of the callers                                                    *)
(***************************************************************************)

\* Publication steps keep the clock, the reviews and the listings, and touch one call.
LEMMA CallerFrame ==
    ASSUME TypeOK, NEW p \in Callers, CallerStep(p)
    PROVE  /\ UNCHANGED <<clock, reviewed, reader>>
           /\ \A q \in Callers : q # p => caller'[q] = caller[q]
BY DEF CallerStep, Publish, ReserveNew, ReserveAgain, ReserveExpired, Replay, Finalize,
       FinalizeCommit, Fail, Holding, Published, TypeOK

\* A publication step leaves a typed call behind that still names job, evidence and owner,
\* with a clock value that is fresh or was carried along.
LEMMA CallerType ==
    ASSUME PubInv, NEW p \in Callers, CallerStep(p)
    PROVE  caller' \in [Callers -> Call] /\ CallOK(caller'[p]) /\ ClockOK(caller[p])'
<1> USE PublicationAssumption
<1>1. /\ caller \in [Callers -> Call] /\ caller[p] \in Call /\ clock \in Nat
      /\ CallOK(caller[p]) /\ ClockOK(caller[p]) /\ pubs \in [Jobs -> Row]
    BY DEF PubInv, TypeOK, CallsOK
<1>2. NoCall \in Call /\ CallOK(NoCall)
    BY DEF NoCall, Call, CallOK, Active
<1>3. CASE Publish(p)
    <2>1. PICK j \in Jobs, e \in Evidence, o \in Owners, l \in Leases :
            caller' = [caller EXCEPT ![p] =
                [NoCall EXCEPT !.pc = "reserve", !.job = j, !.evidence = e, !.owner = o,
                               !.lease = l, !.now = clock]]
        BY <1>3 DEF Publish
    <2>2. clock' = clock
        BY <1>3 DEF Publish
    <2>3. [NoCall EXCEPT !.pc = "reserve", !.job = j, !.evidence = e, !.owner = o,
                         !.lease = l, !.now = clock] \in Call
        BY <1>1, l \in Nat DEF NoCall, Call
    <2> QED BY <1>1, <2>1, <2>2, <2>3 DEF NoCall, CallOK, ClockOK, Active
<1>4. ASSUME NEW epoch \in Nat, Holding(p, epoch), caller[p].pc = "reserve"
      PROVE  caller' \in [Callers -> Call] /\ CallOK(caller'[p]) /\ ClockOK(caller[p])'
    <2>1. [caller[p] EXCEPT !.pc = "reserved", !.epoch = epoch] \in Call
        BY <1>1 DEF Call
    <2>2. caller' = [caller EXCEPT ![p] = [caller[p] EXCEPT !.pc = "reserved", !.epoch = epoch]]
        BY <1>1, <1>4 DEF Holding
    <2> QED BY <1>1, <1>4, <2>1, <2>2 DEF CallOK, ClockOK, Active, Call
<1>5. ASSUME Published(p), caller[p].pc \in {"reserve", "reserved", "commit"}
      PROVE  caller' \in [Callers -> Call] /\ CallOK(caller'[p]) /\ ClockOK(caller[p])'
    <2>1. [caller[p] EXCEPT !.pc = "published"] \in Call
        BY <1>1 DEF Call
    <2>2. caller' = [caller EXCEPT ![p] = [caller[p] EXCEPT !.pc = "published"]]
        BY <1>1, <1>5 DEF Published
    <2> QED BY <1>1, <1>5, <2>1, <2>2 DEF CallOK, ClockOK, Active, Call
<1>6. CASE ReserveNew(p)
    BY <1>4, <1>6, 1 \in Nat DEF ReserveNew
<1>7. CASE ReserveAgain(p) \/ ReserveExpired(p)
    <2>1. caller[p].job \in Jobs /\ pubs[caller[p].job] \in Row
        BY <1>1, <1>7 DEF ReserveAgain, ReserveExpired, CallOK, Active
    <2>2. pubs[caller[p].job].epoch \in Nat /\ NextEpoch(pubs[caller[p].job]) \in Nat
        BY <2>1 DEF Row, NextEpoch
    <2> QED BY <1>4, <1>7, <2>2 DEF ReserveAgain, ReserveExpired
<1>8. CASE Replay(p) \/ FinalizeCommit(p)
    BY <1>5, <1>8 DEF Replay, FinalizeCommit
<1>9. CASE Finalize(p)
    <2>1. [caller[p] EXCEPT !.pc = "commit", !.now = clock] \in Call
        BY <1>1 DEF Call
    <2>2. /\ caller' = [caller EXCEPT ![p] = [caller[p] EXCEPT !.pc = "commit", !.now = clock]]
          /\ clock' = clock /\ caller[p].pc = "reserved"
        BY <1>1, <1>9 DEF Finalize
    <2> QED BY <1>1, <2>1, <2>2 DEF CallOK, ClockOK, Active, Call
<1>10. CASE Fail(p)
    <2>1. caller' = [caller EXCEPT ![p] = NoCall] /\ clock' = clock
        BY <1>10 DEF Fail
    <2> QED BY <1>1, <1>2, <2>1 DEF ClockOK, NoCall
<1> QED BY <1>3, <1>6, <1>7, <1>8, <1>9, <1>10 DEF CallerStep

\* The steps that write the table.
Writes(p) == ReserveNew(p) \/ ReserveExpired(p) \/ FinalizeCommit(p)

\* What the writing call c leaves in the row it writes.
Written(c, new) ==
    /\ new.evidence = c.evidence /\ new.owner = c.owner
    /\ new.updated = c.now /\ new.reserved <= c.now
    /\ new.epoch \in 1..MaxEpoch

\* c reserved the row, new or expired, and goes on as d.
Taken(c, row, new, d) ==
    /\ c.pc = "reserve" /\ row.state # "finalized" /\ new.state = "reserved"
    /\ new.expires > c.now
    /\ \/ row.state = "absent" /\ new.epoch = 1
       \/ /\ row.state = "reserved" /\ row.evidence = c.evidence
          /\ row.expires <= c.now /\ new.epoch = row.epoch + 1
    /\ d = [c EXCEPT !.pc = "reserved", !.epoch = new.epoch]

\* c finalized its live reservation of the row and goes on as d.
Sealed(c, row, new, d) ==
    /\ c.pc = "commit" /\ row.state = "reserved" /\ new.state = "finalized"
    /\ row.evidence = c.evidence /\ row.epoch = c.epoch /\ new.epoch = row.epoch
    /\ c.now < row.expires /\ new.finalized = c.now
    /\ d = [c EXCEPT !.pc = "published"]

\* A reservation taken over stays a row, with the new owner, the next epoch and lease.
LEMMA TakenOverRow ==
    ASSUME NEW row \in Row, NEW c, c.owner \in Owners, c.now \in Nat,
           NextEpoch(row) \in Nat, LeaseExpiry(c) \in Nat
    PROVE  /\ TakenOver(row, c) \in Row
           /\ TakenOver(row, c).state = row.state
           /\ TakenOver(row, c).evidence = row.evidence
           /\ TakenOver(row, c).owner = c.owner
           /\ TakenOver(row, c).epoch = NextEpoch(row)
           /\ TakenOver(row, c).expires = LeaseExpiry(c)
           /\ TakenOver(row, c).reserved = row.reserved
           /\ TakenOver(row, c).updated = c.now
BY DEF Row, TakenOver

\* What a publication step may do to the table: reserve an absent row, hand a row that
\* expired to its caller under the next epoch, or finalize the caller's live reservation.
LEMMA RowStep ==
    ASSUME PubInv, NEW p \in Callers, Writes(p)
    PROVE  /\ caller[p].job \in Jobs
           /\ pubs' = [pubs EXCEPT ![caller[p].job] = pubs'[caller[p].job]]
           /\ pubs'[caller[p].job] \in Row
           /\ Written(caller[p], pubs'[caller[p].job])
           /\ \/ Taken(caller[p], pubs[caller[p].job], pubs'[caller[p].job], caller'[p])
              \/ Sealed(caller[p], pubs[caller[p].job], pubs'[caller[p].job], caller'[p])
<1> USE PublicationAssumption
<1> DEFINE c == caller[p]
<1> DEFINE row == pubs[c.job]
<1>1. /\ caller \in [Callers -> Call] /\ c \in Call /\ CallOK(c) /\ HoldOK(c)
      /\ pubs \in [Jobs -> Row]
    BY DEF PubInv, TypeOK, CallsOK
<1>2. CASE ReserveNew(p)
    <2>1. /\ c.pc = "reserve" /\ c.job \in Jobs /\ c.evidence \in Evidence /\ c.owner \in Owners
          /\ c.lease \in Nat \ {0} /\ c.now \in Nat /\ row.state = "absent"
        BY <1>1, <1>2 DEF ReserveNew, CallOK, Active, Call
    <2> DEFINE new == [NoRow EXCEPT !.state = "reserved", !.evidence = c.evidence,
                        !.owner = c.owner, !.epoch = 1, !.expires = LeaseExpiry(c),
                        !.reserved = c.now, !.updated = c.now]
    <2>2. LeaseExpiry(c) \in Nat /\ LeaseExpiry(c) > c.now
        BY <2>1 DEF LeaseExpiry
    <2>3. new \in Row
        BY <2>1, <2>2 DEF NoRow, Row
    <2>4. /\ new.state = "reserved" /\ new.evidence = c.evidence /\ new.owner = c.owner
          /\ new.epoch = 1 /\ new.expires = LeaseExpiry(c) /\ new.reserved = c.now
          /\ new.updated = c.now
        BY DEF NoRow
    <2>5. pubs' = [pubs EXCEPT ![c.job] = new]
        BY <1>2 DEF ReserveNew
    <2>6. caller'[p] = [c EXCEPT !.pc = "reserved", !.epoch = 1]
        BY <1>1, <1>2 DEF ReserveNew, Holding
    <2> HIDE DEF new
    <2>7. pubs'[c.job] = new
        BY <1>1, <2>1, <2>5
    <2>8. Written(c, new) /\ Taken(c, row, new, caller'[p])
        BY <2>1, <2>2, <2>4, <2>6 DEF Written, Taken
    <2> QED BY <2>1, <2>3, <2>5, <2>7, <2>8
<1>3. CASE ReserveExpired(p)
    <2>1. /\ c.pc = "reserve" /\ c.job \in Jobs /\ c.evidence \in Evidence /\ c.owner \in Owners
          /\ c.lease \in Nat \ {0} /\ c.now \in Nat
          /\ row \in Row /\ row.state = "reserved" /\ row.evidence = c.evidence
          /\ row.expires <= c.now /\ row.epoch < MaxEpoch
        BY <1>1, <1>3 DEF ReserveExpired, CallOK, Active, Call, SameEvidence, Expired
    <2> DEFINE new == TakenOver(row, c)
    <2>2. LeaseExpiry(c) \in Nat /\ LeaseExpiry(c) > c.now
        BY <2>1 DEF LeaseExpiry
    <2>3. /\ row.epoch \in 1..MaxEpoch /\ row.reserved <= row.updated /\ row.updated < row.expires
          /\ NextEpoch(row) = row.epoch + 1 /\ NextEpoch(row) \in 1..MaxEpoch
          /\ row.reserved <= c.now
        BY <2>1 DEF PubInv, SchemaChecksHold, NextEpoch, Row
    <2>4. NextEpoch(row) \in Nat
        BY <2>3
    <2>5. /\ new \in Row
          /\ new.state = row.state /\ new.evidence = row.evidence /\ new.owner = c.owner
          /\ new.epoch = NextEpoch(row) /\ new.expires = LeaseExpiry(c)
          /\ new.reserved = row.reserved /\ new.updated = c.now
        BY <2>1, <2>2, <2>4, TakenOverRow
    <2>6. pubs' = [pubs EXCEPT ![c.job] = new]
        BY <1>3 DEF ReserveExpired
    <2>7. caller'[p] = [c EXCEPT !.pc = "reserved", !.epoch = NextEpoch(row)]
        BY <1>1, <1>3 DEF ReserveExpired, Holding
    <2> HIDE DEF new
    <2>8. pubs'[c.job] = new
        BY <1>1, <2>1, <2>6
    <2>9. Written(c, new)
        BY <2>1, <2>3, <2>5 DEF Written
    <2>10. Taken(c, row, new, caller'[p])
        BY <2>1, <2>2, <2>3, <2>5, <2>7 DEF Taken
    <2> QED BY <2>1, <2>5, <2>6, <2>8, <2>9, <2>10
<1>4. CASE FinalizeCommit(p)
    <2>a. c.pc = "commit" /\ LiveReservation(row, c, c.now) /\ row.updated <= c.now
        BY <1>4 DEF FinalizeCommit
    <2>b. c.job \in Jobs /\ c.now \in Nat
        BY <1>1, <2>a DEF CallOK, Active, Call
    <2>c. row \in Row /\ row.expires \in Nat
        BY <1>1, <2>b DEF Row
    <2>1. /\ row.state = "reserved" /\ row.evidence = c.evidence
          /\ row.owner = c.owner /\ row.epoch = c.epoch /\ c.now < row.expires
        BY <1>1, <2>a, <2>b, <2>c DEF HoldOK, LiveReservation, Expired
    <2> DEFINE new == FinalizedRow(row, c.now)
    <2>2. row.epoch \in 1..MaxEpoch /\ row.reserved <= c.now
        <3>1. row.epoch \in 1..MaxEpoch /\ row.reserved <= row.updated
            BY <2>1, <2>b DEF PubInv, SchemaChecksHold
        <3>2. row.reserved \in Nat /\ row.updated \in Nat
            BY <2>c DEF Row
        <3> QED BY <2>a, <2>b, <3>1, <3>2
    <2>3. new \in Row
        BY <2>b, <2>c DEF FinalizedRow, Row
    <2>4. /\ new.state = "finalized" /\ new.evidence = c.evidence /\ new.owner = c.owner
          /\ new.epoch = row.epoch /\ new.reserved = row.reserved /\ new.updated = c.now
          /\ new.finalized = c.now
        BY <2>1, <2>c DEF FinalizedRow, Row
    <2>5. pubs' = [pubs EXCEPT ![c.job] = new]
        BY <1>4 DEF FinalizeCommit
    <2>6. caller'[p] = [c EXCEPT !.pc = "published"]
        BY <1>1, <1>4 DEF FinalizeCommit, Published
    <2> HIDE DEF new
    <2>7. pubs'[c.job] = new
        BY <1>1, <2>b, <2>5
    <2>8. Written(c, new)
        BY <2>2, <2>4 DEF Written
    <2>9. Sealed(c, row, new, caller'[p])
        BY <2>a, <2>1, <2>4, <2>6 DEF Sealed
    <2> QED BY <2>b, <2>3, <2>5, <2>7, <2>8, <2>9
<1> QED BY <1>2, <1>3, <1>4 DEF Writes

\* d names the same epoch of the same publication as c.
SameHold(c, d) ==
    d.job = c.job /\ d.evidence = c.evidence /\ d.owner = c.owner /\ d.epoch = c.epoch

\* The other steps of a call leave the table alone.  A call that then holds an epoch held
\* it before or was handed the current one, and one that is answered found its evidence.
LEMMA QuietStep ==
    ASSUME PubInv, NEW p \in Callers, CallerStep(p), ~Writes(p)
    PROVE  /\ pubs' = pubs
           /\ HoldOK(caller'[p])
           /\ caller'[p].pc \in {"reserved", "commit"} =>
                \/ caller[p].pc = "reserved" /\ SameHold(caller[p], caller'[p])
                \/ caller'[p].epoch = pubs[caller'[p].job].epoch
           /\ caller'[p].pc = "published" =>
                /\ pubs[caller'[p].job].state = "finalized"
                /\ pubs[caller'[p].job].evidence = caller'[p].evidence
<1> USE PublicationAssumption
<1> DEFINE c == caller[p]
<1>1. /\ caller \in [Callers -> Call] /\ c \in Call /\ CallOK(c) /\ HoldOK(c)
      /\ pubs \in [Jobs -> Row]
    BY DEF PubInv, TypeOK, CallsOK
<1>2. CASE Publish(p)
    <2>1. pubs' = pubs /\ caller'[p].pc = "reserve"
        BY <1>1, <1>2 DEF Publish, NoCall
    <2> QED BY <2>1 DEF HoldOK
<1>3. CASE Fail(p)
    <2>1. pubs' = pubs /\ caller'[p].pc = "idle"
        BY <1>1, <1>3 DEF Fail, NoCall
    <2> QED BY <2>1 DEF HoldOK
<1>4. CASE ReserveAgain(p)
    <2>1. /\ c.pc = "reserve" /\ pubs' = pubs
          /\ pubs[c.job].state = "reserved" /\ pubs[c.job].evidence = c.evidence
          /\ pubs[c.job].owner = c.owner
        BY <1>4 DEF ReserveAgain, SameEvidence
    <2>2. caller'[p] = [c EXCEPT !.pc = "reserved", !.epoch = pubs[c.job].epoch]
        BY <1>1, <1>4 DEF ReserveAgain, Holding
    <2>3. /\ caller'[p].pc = "reserved" /\ caller'[p].epoch = pubs[c.job].epoch
          /\ caller'[p].job = c.job /\ caller'[p].evidence = c.evidence
          /\ caller'[p].owner = c.owner
        BY <1>1, <2>2 DEF Call
    <2>4. pubs[c.job].epoch \in Nat
        BY <1>1, <2>1 DEF CallOK, Active, Row
    <2> QED BY <2>1, <2>3, <2>4 DEF HoldOK
<1>5. CASE Finalize(p)
    <2>1. c.pc = "reserved" /\ pubs' = pubs
        BY <1>5 DEF Finalize
    <2>2. caller'[p] = [c EXCEPT !.pc = "commit", !.now = clock]
        BY <1>1, <1>5 DEF Finalize
    <2>3. caller'[p].pc = "commit" /\ SameHold(c, caller'[p])
        BY <1>1, <2>2 DEF Call, SameHold
    <2> QED BY <1>1, <2>1, <2>3 DEF HoldOK, SameHold
<1>6. CASE Replay(p)
    <2>1. /\ pubs' = pubs
          /\ pubs[c.job].state = "finalized" /\ pubs[c.job].evidence = c.evidence
        BY <1>6 DEF Replay, SameEvidence
    <2>2. caller'[p] = [c EXCEPT !.pc = "published"]
        BY <1>1, <1>6 DEF Replay, Published
    <2>3. caller'[p].pc = "published" /\ SameHold(c, caller'[p])
        BY <1>1, <2>2 DEF Call, SameHold
    <2> QED BY <2>1, <2>3 DEF HoldOK, SameHold
<1> QED BY <1>2, <1>3, <1>4, <1>5, <1>6 DEF CallerStep, Writes

\* Publication steps that leave the table alone keep the invariant.
LEMMA QuietKeepsPubInv ==
    ASSUME PubInv, NEW p \in Callers, CallerStep(p), ~Writes(p)
    PROVE  PubInv'
<1> USE PublicationAssumption
<1>1. /\ UNCHANGED <<clock, reviewed, reader, pubs>>
      /\ \A q \in Callers : q # p => caller'[q] = caller[q]
      /\ caller' \in [Callers -> Call] /\ CallOK(caller'[p]) /\ ClockOK(caller[p])'
      /\ HoldOK(caller'[p])
    BY CallerFrame, CallerType, QuietStep DEF PubInv
<1>2. /\ TypeOK /\ SchemaChecksHold /\ EpochNamesOwner /\ PublishedIsStored
      /\ \A q \in Callers : CallOK(caller[q]) /\ ClockOK(caller[q]) /\ HoldOK(caller[q])
    BY DEF PubInv, CallsOK
<1>3. TypeOK' /\ SchemaChecksHold'
    BY <1>1, <1>2 DEF TypeOK, SchemaChecksHold
<1>4. \A q \in Callers : CallOK(caller'[q]) /\ HoldOK(caller'[q])
    BY <1>1, <1>2
<1>5. CallsOK'
    BY <1>1, <1>2, <1>4 DEF CallsOK, CallOK, ClockOK, HoldOK
<1>6. EpochNamesOwner'
    <2> SUFFICES ASSUME NEW a \in Callers, NEW b \in Callers,
                        caller'[a].pc \in {"reserved", "commit"},
                        caller'[b].pc \in {"reserved", "commit"}, caller'[a].job = caller'[b].job
                 PROVE  /\ caller'[a].epoch <= pubs[caller'[a].job].epoch
                        /\ caller'[a].epoch = caller'[b].epoch =>
                             caller'[a].owner = caller'[b].owner /\ caller'[a].evidence = caller'[b].evidence
        BY <1>1 DEF EpochNamesOwner
    <2>1. ASSUME NEW q \in Callers, caller'[q].pc \in {"reserved", "commit"}
          PROVE  \/ caller[q].pc \in {"reserved", "commit"} /\ SameHold(caller[q], caller'[q])
                 \/ caller'[q].epoch = pubs[caller'[q].job].epoch
        BY <1>1, <2>1, QuietStep DEF SameHold
    <2> QED BY <1>2, <1>4, <2>1 DEF EpochNamesOwner, SameHold, HoldOK
<1>7. PublishedIsStored'
    BY <1>1, <1>2, QuietStep DEF PublishedIsStored
<1> QED BY <1>3, <1>5, <1>6, <1>7 DEF PubInv

\* Publication steps that write the table keep the invariant.
LEMMA WriteKeepsPubInv ==
    ASSUME PubInv, NEW p \in Callers, Writes(p)
    PROVE  PubInv'
<1> USE PublicationAssumption
<1> DEFINE c == caller[p]
<1> DEFINE d == caller'[p]
<1> DEFINE row == pubs[c.job]
<1> DEFINE new == pubs'[c.job]
<1>1. CallerStep(p)
    BY DEF Writes, CallerStep
<1>2. /\ UNCHANGED <<clock, reviewed, reader>>
      /\ \A q \in Callers : q # p => caller'[q] = caller[q]
      /\ caller' \in [Callers -> Call] /\ CallOK(d) /\ ClockOK(c)'
    BY <1>1, CallerFrame, CallerType DEF PubInv
<1>3. /\ TypeOK /\ SchemaChecksHold /\ EpochNamesOwner /\ PublishedIsStored
      /\ \A q \in Callers : CallOK(caller[q]) /\ ClockOK(caller[q]) /\ HoldOK(caller[q])
    BY DEF PubInv, CallsOK
<1>4. /\ c.job \in Jobs /\ new \in Row /\ row \in Row /\ c \in Call
      /\ pubs \in [Jobs -> Row] /\ pubs' = [pubs EXCEPT ![c.job] = new]
      /\ Written(c, new) /\ (Taken(c, row, new, d) \/ Sealed(c, row, new, d))
    BY <1>3, RowStep DEF TypeOK
<1>5. \A j \in Jobs : j # c.job => pubs'[j] = pubs[j]
    BY <1>4
<1>6. /\ new.epoch \in Nat /\ row.epoch \in Nat /\ new.expires \in Nat /\ new.updated \in Nat
      /\ new.reserved \in Nat /\ new.finalized \in Nat /\ c.now \in Nat /\ c.epoch \in Nat
    BY <1>4 DEF Row, Call
<1>7. /\ Taken(c, row, new, d) => d.pc = "reserved" /\ d.epoch = new.epoch
      /\ Sealed(c, row, new, d) => d.pc = "published"
      /\ d.job = c.job /\ d.evidence = c.evidence /\ d.owner = c.owner
    BY <1>4 DEF Taken, Sealed, Call
<1> HIDE DEF c, d, row, new
<1>8. pubs' \in [Jobs -> Row]
    BY <1>4
<1>9. TypeOK'
    BY <1>2, <1>3, <1>8 DEF TypeOK
<1>10. SchemaChecksHold'
    <2>1. /\ new.state = "reserved" => new.reserved <= new.updated /\ new.updated < new.expires
          /\ new.state = "finalized" =>
               new.reserved <= new.updated /\ new.updated <= new.finalized
          /\ new.epoch \in 1..MaxEpoch
        BY <1>4, <1>6 DEF Written, Taken, Sealed
    <2> QED BY <1>3, <1>5, <2>1 DEF SchemaChecksHold, new
<1>11. ASSUME NEW q \in Callers
       PROVE  HoldOK(caller[q])'
    <2>1. CASE q = p
        BY <1>4, <1>6, <1>7, <2>1 DEF HoldOK, Taken, Sealed, Written, d, new, c
    <2>2. CASE q # p /\ caller[q].pc \in {"reserved", "commit"}
        <3>1. /\ caller'[q] = caller[q] /\ HoldOK(caller[q])
              /\ caller[q].job \in Jobs /\ caller[q].epoch \in Nat
            BY <1>2, <1>3, <2>2 DEF CallOK, Active, TypeOK, Call
        <3>2. CASE caller[q].job # c.job
            BY <1>5, <3>1, <3>2 DEF HoldOK
        <3>3. CASE caller[q].job = c.job
            <4>1. /\ row.state # "absent" /\ row.evidence = caller[q].evidence
                  /\ caller[q].epoch <= row.epoch
                  /\ caller[q].epoch = row.epoch => row.owner = caller[q].owner
                BY <2>2, <3>1, <3>3 DEF HoldOK, row
            <4>2. CASE Taken(c, row, new, d)
                <5>1. /\ new.state # "absent" /\ new.evidence = caller[q].evidence
                      /\ caller[q].epoch < new.epoch
                    BY <1>4, <1>6, <3>1, <4>1, <4>2 DEF Taken, Written
                <5> QED BY <1>6, <3>1, <3>3, <5>1 DEF HoldOK, new
            <4>3. CASE Sealed(c, row, new, d)
                <5>1. row.owner = c.owner
                    BY <1>3, <4>3 DEF Sealed, HoldOK, c, row
                <5>2. /\ new.state # "absent" /\ new.evidence = caller[q].evidence
                      /\ new.epoch = row.epoch /\ new.owner = row.owner
                    BY <1>4, <4>1, <4>3, <5>1 DEF Sealed, Written
                <5> QED BY <3>1, <3>3, <4>1, <5>2 DEF HoldOK, new
            <4> QED BY <1>4, <4>2, <4>3
        <3> QED BY <3>2, <3>3
    <2>3. CASE q # p /\ caller[q].pc \notin {"reserved", "commit"}
        BY <1>2, <2>3 DEF HoldOK
    <2> QED BY <2>1, <2>2, <2>3
<1>12. CallsOK'
    <2>1. ASSUME NEW q \in Callers
          PROVE  CallOK(caller[q])' /\ ClockOK(caller[q])'
        BY <1>2, <1>3 DEF CallOK, ClockOK, c, d
    <2> QED BY <1>11, <2>1 DEF CallsOK
<1>13. EpochNamesOwner'
    <2> SUFFICES ASSUME NEW a \in Callers, NEW b \in Callers,
                        caller'[a].pc \in {"reserved", "commit"},
                        caller'[b].pc \in {"reserved", "commit"}, caller'[a].job = caller'[b].job
                 PROVE  /\ caller'[a].epoch <= pubs'[caller'[a].job].epoch
                        /\ caller'[a].epoch = caller'[b].epoch =>
                             caller'[a].owner = caller'[b].owner /\ caller'[a].evidence = caller'[b].evidence
        BY DEF EpochNamesOwner
    <2>1. /\ caller'[p].pc \in {"reserved", "commit"} =>
               caller'[p].epoch = pubs'[caller'[p].job].epoch
        BY <1>4, <1>7 DEF d, new
    <2>2. \A q \in Callers : q # p => caller'[q] = caller[q]
        BY <1>2
    <2>3. /\ caller'[a].epoch <= pubs'[caller'[a].job].epoch
          /\ pubs'[caller'[a].job].evidence = caller'[a].evidence
          /\ pubs'[caller'[b].job].evidence = caller'[b].evidence
          /\ caller'[a].epoch = pubs'[caller'[a].job].epoch =>
               pubs'[caller'[a].job].owner = caller'[a].owner
          /\ caller'[b].epoch = pubs'[caller'[b].job].epoch =>
               pubs'[caller'[b].job].owner = caller'[b].owner
        BY <1>11 DEF HoldOK
    <2>4. CASE a = p \/ b = p
        BY <2>1, <2>3, <2>4
    <2>5. CASE a # p /\ b # p
        BY <1>3, <2>2, <2>3, <2>5 DEF EpochNamesOwner
    <2> QED BY <2>4, <2>5
<1>14. PublishedIsStored'
    <2> SUFFICES ASSUME NEW q \in Callers, caller'[q].pc = "published"
                 PROVE  /\ pubs'[caller'[q].job].state = "finalized"
                        /\ pubs'[caller'[q].job].evidence = caller'[q].evidence
        BY DEF PublishedIsStored
    <2>1. CASE q = p
        BY <1>4, <1>7, <2>1 DEF Sealed, Written, d, new
    <2>2. CASE q # p
        <3>1. /\ caller'[q] = caller[q] /\ caller[q].job \in Jobs
              /\ pubs[caller[q].job].state = "finalized"
              /\ pubs[caller[q].job].evidence = caller[q].evidence
            BY <1>2, <1>3, <2>2 DEF PublishedIsStored, CallOK, Active
        <3>2. caller[q].job # c.job
            BY <1>4, <3>1 DEF Taken, Sealed, row
        <3> QED BY <1>5, <3>1, <3>2
    <2> QED BY <2>1, <2>2
<1> QED BY <1>9, <1>10, <1>12, <1>13, <1>14 DEF PubInv

(***************************************************************************)
(* Steps of the readers                                                    *)
(***************************************************************************)

\* What a listing remembers of its beginning.
SameStart(l, n) == n.before = l.before /\ n.known = l.known

\* The fields of a listing that has read its next batch.
LEMMA ScannedFields ==
    ASSUME NEW l \in Listing, NEW batch \in SUBSET Jobs, NEW n, n = Scanned(l, batch)
    PROVE  /\ n \in Listing /\ SameStart(l, n)
           /\ n.pc = IF batch = {} THEN Returned(l.rows) ELSE "check"
           /\ n.batch = batch /\ n.last = Short(batch)
           /\ n.scan = l.scan /\ n.cursor = l.cursor /\ n.rows = l.rows /\ n.found = l.found
           /\ n.listed = l.listed /\ n.hidden = l.hidden
<1>1. /\ Short(batch) \in BOOLEAN
      /\ (IF batch = {} THEN Returned(l.rows) ELSE "check") \in {"page", "recheck", "check"}
    BY DEF Short, Returned
<1> QED BY <1>1 DEF Scanned, Listing, SameStart

\* The fields of a listing whose next batch row was checked.
LEMMA CheckedFields ==
    ASSUME NEW l \in Listing, NEW j \in Jobs, NEW readable \in BOOLEAN,
           NEW n, n = Checked(l, j, readable)
    PROVE  /\ n \in Listing /\ SameStart(l, n)
           /\ n.rows = Keep(l.rows, j, readable) /\ n.batch = l.batch \ {j}
           /\ n.pc = AfterCheck(l, n.rows, n.batch) /\ n.last = l.last
           /\ n.scan = j /\ n.cursor = l.cursor /\ n.found = l.found
           /\ n.listed = l.listed /\ n.hidden = Hide(l.hidden, j, readable)
<1> DEFINE rows == Keep(l.rows, j, readable)
<1> DEFINE batch == l.batch \ {j}
<1> DEFINE pc == AfterCheck(l, rows, batch)
<1> DEFINE hidden == Hide(l.hidden, j, readable)
<1>1. /\ rows \in SUBSET Jobs /\ batch \in SUBSET Jobs /\ hidden \in SUBSET Jobs
      /\ pc \in {"page", "recheck", "check", "scan"}
    BY DEF Keep, AfterCheck, Returned, Hide, Listing
<1>2. n = [l EXCEPT !.pc = pc, !.scan = j, !.batch = batch, !.rows = rows, !.hidden = hidden]
    BY DEF Checked, Listing
<1> HIDE DEF rows, batch, pc, hidden
<1>3. n \in Listing
    BY <1>1, <1>2 DEF Listing
<1>4. /\ SameStart(l, n)
      /\ n.rows = rows /\ n.batch = batch /\ n.pc = pc /\ n.last = l.last
      /\ n.scan = j /\ n.cursor = l.cursor /\ n.found = l.found
      /\ n.listed = l.listed /\ n.hidden = hidden
    BY <1>2 DEF Listing, SameStart
<1> QED BY <1>3, <1>4 DEF rows, batch, pc, hidden

\* n is the listing l after its row j was read again.
IsRechecked(l, j, readable, n) ==
    /\ SameStart(l, n)
    /\ n.found = Keep(l.found, j, readable) /\ n.rows = l.rows \ {j} /\ n.batch = {}
    /\ n.pc = AfterRecheck(n.found, n.rows)
    /\ n.scan = j /\ n.cursor = j
    /\ n.listed = l.listed /\ n.hidden = Hide(l.hidden, j, readable)

\* The fields of a listing whose next returned row was read again.
LEMMA RecheckedFields ==
    ASSUME NEW l \in Listing, NEW j \in Jobs, NEW readable \in BOOLEAN,
           NEW n, n = Rechecked(l, j, readable)
    PROVE  n \in Listing /\ IsRechecked(l, j, readable, n)
<1> DEFINE found == Keep(l.found, j, readable)
<1> DEFINE rows == l.rows \ {j}
<1> DEFINE pc == AfterRecheck(found, rows)
<1> DEFINE hidden == Hide(l.hidden, j, readable)
<1>1. /\ found \in SUBSET Jobs /\ rows \in SUBSET Jobs /\ hidden \in SUBSET Jobs
      /\ pc \in {"page", "recheck", "scan"}
    BY DEF Keep, AfterRecheck, Hide, Listing
<1>2. n = [l EXCEPT !.pc = pc, !.scan = j, !.cursor = j, !.batch = {}, !.rows = rows,
                    !.found = found, !.hidden = hidden]
    BY DEF Rechecked, Listing
<1> HIDE DEF found, rows, pc, hidden
<1>3. n \in Listing
    <2>1. {} \in SUBSET Jobs
        OBVIOUS
    <2>2. [l EXCEPT !.pc = pc, !.scan = j, !.cursor = j, !.batch = {}, !.rows = rows,
                    !.found = found, !.hidden = hidden] \in Listing
        BY <1>1, <2>1 DEF Listing
    <2> QED BY <1>2, <2>2
<1>4. /\ SameStart(l, n)
      /\ n.found = found /\ n.rows = rows /\ n.batch = {} /\ n.pc = pc
      /\ n.scan = j /\ n.cursor = j /\ n.listed = l.listed /\ n.hidden = hidden
    BY <1>2 DEF Listing, SameStart
<1> QED BY <1>3, <1>4 DEF found, rows, pc, hidden, IsRechecked

\* The fields of a listing that turned to its next page.
LEMMA TurnedFields ==
    ASSUME NEW l \in Listing, NEW j \in Jobs, NEW n, n = Turned(l, j)
    PROVE  /\ n \in Listing /\ SameStart(l, n)
           /\ n.pc = "scan" /\ n.cursor = j /\ n.scan = j /\ n.rows = {} /\ n.found = {}
           /\ n.listed = l.listed \cup l.found /\ n.hidden = l.hidden /\ n.batch = l.batch
BY DEF Turned, Listing, SameStart

\* A listing step changes one listing only, and leaves a typed one.
LEMMA ReaderType ==
    ASSUME TypeOK, NEW r \in Readers, ReaderStep(r)
    PROVE  /\ UNCHANGED Others
           /\ reader' \in [Readers -> Listing]
           /\ \A q \in Readers : q # r => reader'[q] = reader[q]
<1> USE PublicationAssumption
<1> DEFINE l == reader[r]
<1>1. /\ reader \in [Readers -> Listing] /\ l \in Listing
      /\ Finalized \subseteq Jobs
    BY DEF TypeOK, Finalized
<1>2. NoListing \in Listing
    BY DEF NoListing, Listing
<1>3. UNCHANGED Others
    BY DEF ReaderStep, Paging, StartListing, Scan, Check, Recheck, NextPage, EndListing,
           AbortListing
<1>4. \E new \in Listing : Update(r, new)
    <2>1. CASE StartListing(r)
        <3>1. NewListing \in Listing
            BY <1>1 DEF NewListing, NoListing, Listing
        <3> QED BY <2>1, <3>1 DEF StartListing
    <2>2. CASE Scan(r)
        <3>1. PICK batch \in SUBSET After(l.scan) : Update(r, Scanned(l, batch))
            BY <2>2 DEF Scan
        <3>2. batch \in SUBSET Jobs
            BY <1>1 DEF After
        <3> QED BY <1>1, <3>1, <3>2, ScannedFields
    <2>3. CASE Check(r)
        <3>1. PICK j \in l.batch, readable \in BOOLEAN : Update(r, Checked(l, j, readable))
            BY <2>3 DEF Check
        <3>2. j \in Jobs
            BY <1>1 DEF Listing
        <3> QED BY <1>1, <3>1, <3>2, CheckedFields
    <2>4. CASE Recheck(r)
        <3>1. PICK j \in l.rows, readable \in BOOLEAN : Update(r, Rechecked(l, j, readable))
            BY <2>4 DEF Recheck
        <3>2. j \in Jobs
            BY <1>1 DEF Listing
        <3> QED BY <1>1, <3>1, <3>2, RecheckedFields
    <2>5. CASE NextPage(r)
        <3>1. PICK j \in l.found : Update(r, Turned(l, j))
            BY <2>5 DEF NextPage
        <3>2. j \in Jobs
            BY <1>1 DEF Listing
        <3> QED BY <1>1, <3>1, <3>2, TurnedFields
    <2>6. CASE EndListing(r) \/ AbortListing(r)
        BY <1>2, <2>6 DEF EndListing, AbortListing
    <2> QED BY <2>1, <2>2, <2>3, <2>4, <2>5, <2>6 DEF ReaderStep, Paging
<1> QED BY <1>1, <1>3, <1>4 DEF Update

\* Every step keeps the invariant of the publications.
LEMMA PubStep == PubInv /\ [Next]_vars => PubInv'
<1> USE PublicationAssumption
<1> SUFFICES ASSUME PubInv, [Next]_vars
             PROVE  PubInv'
    OBVIOUS
<1>1. CASE UNCHANGED vars
    BY <1>1 DEF vars, PubInv, TypeOK, SchemaChecksHold, CallsOK, EpochNamesOwner,
                PublishedIsStored, CallOK, ClockOK, HoldOK
<1>2. CASE \E p \in Callers : CallerStep(p)
    BY <1>2, QuietKeepsPubInv, WriteKeepsPubInv
<1>3. CASE \E r \in Readers : ReaderStep(r)
    <2>1. UNCHANGED Others /\ reader' \in [Readers -> Listing]
        BY <1>3, ReaderType DEF PubInv
    <2> QED BY <2>1 DEF Others, PubInv, TypeOK, SchemaChecksHold, CallsOK, EpochNamesOwner,
                        PublishedIsStored, CallOK, ClockOK, HoldOK
<1>4. CASE Review
    <2>1. /\ UNCHANGED <<clock, pubs, caller, reader>>
          /\ reviewed' \in SUBSET (Jobs \X Evidence)
        BY <1>4 DEF Review, PubInv, TypeOK
    <2> QED BY <2>1 DEF PubInv, TypeOK, SchemaChecksHold, CallsOK, EpochNamesOwner,
                        PublishedIsStored, CallOK, ClockOK, HoldOK
<1>5. CASE Tick
    <2>1. /\ UNCHANGED <<pubs, caller, reviewed, reader>> /\ clock' = clock + 1
          /\ \A p \in Callers :
               caller[p].pc \in {"reserve", "commit"} => clock + 1 <= caller[p].now + MaxDelay
          /\ clock \in Nat /\ clock' \in Nat
          /\ \A p \in Callers : caller[p].now \in Nat
        BY <1>5 DEF Tick, PubInv, TypeOK, Call
    <2>2. CallsOK'
        BY <2>1 DEF PubInv, CallsOK, CallOK, ClockOK, HoldOK
    <2> QED BY <2>1, <2>2 DEF PubInv, TypeOK, SchemaChecksHold, EpochNamesOwner,
                              PublishedIsStored
<1> QED BY <1>1, <1>2, <1>3, <1>4, <1>5 DEF Next

\* The invariant of the publications holds at the start.
LEMMA PubInit == Init => PubInv
<1> USE PublicationAssumption
<1> SUFFICES ASSUME Init
             PROVE  PubInv
    OBVIOUS
<1>1. NoRow \in Row /\ NoCall \in Call /\ NoListing \in Listing
    BY DEF NoRow, Row, NoCall, Call, NoListing, Listing
<1>2. TypeOK
    BY <1>1 DEF Init, TypeOK
<1>3. (\A j \in Jobs : pubs[j].state = "absent") /\ (\A p \in Callers : caller[p].pc = "idle")
    BY DEF Init, NoRow, NoCall
<1> QED BY <1>2, <1>3 DEF PubInv, SchemaChecksHold, CallsOK, EpochNamesOwner,
                          PublishedIsStored, CallOK, ClockOK, HoldOK, Active

\* The invariant of the publications holds forever.
LEMMA PubInvariant == Spec => []PubInv
BY PubInit, PubStep, PTL DEF Spec

\* Every variable of the publication tables, calls and listings stays in its type.
THEOREM TypeCorrect == Spec => []TypeOK
<1>1. PubInv => TypeOK
    BY DEF PubInv
<1> QED BY <1>1, PubInvariant, PTL

\* For any number of callers and any bounded clock delay: the CHECK constraints of the
\* table hold by the store's own logic, an epoch names one owner and one evidence, and a
\* caller told "published" finds its own evidence finalized.
THEOREM PublicationCorrect == Spec => []PublicationSound
<1>1. PubInv => PublicationSound
    BY DEF PubInv, PublicationSound
<1> QED BY <1>1, PubInvariant, PTL

\* A row that a step leaves as it is, or the one write of that step.
LEMMA RowChanges ==
    ASSUME PubInv, [Next]_vars, NEW j \in Jobs, pubs'[j] # pubs[j]
    PROVE  \E p \in Callers :
             /\ caller[p].job = j /\ Written(caller[p], pubs'[j])
             /\ \/ Taken(caller[p], pubs[j], pubs'[j], caller'[p])
                \/ Sealed(caller[p], pubs[j], pubs'[j], caller'[p])
<1>1. pubs' # pubs
    OBVIOUS
<1>2. ASSUME NEW r \in Readers, ReaderStep(r)
      PROVE  pubs' = pubs
    BY <1>2, ReaderType DEF PubInv, Others
<1>3. PICK p \in Callers : CallerStep(p)
    BY <1>1, <1>2 DEF Next, vars, Tick, Review
<1>4. Writes(p)
    BY <1>1, <1>3, QuietStep
<1>5. pubs \in [Jobs -> Row]
    BY DEF PubInv, TypeOK
<1> QED BY <1>3, <1>4, <1>5, RowStep

\* A finalized row never changes, and reserved evidence is never replaced, whatever the
\* callers race for.
THEOREM Immutable == Spec => PublicationImmutable
<1>1. ASSUME PubInv, [Next]_vars
      PROVE  \A j \in Jobs :
               /\ pubs[j].state = "finalized" => pubs'[j] = pubs[j]
               /\ pubs[j].state = "reserved" => pubs'[j].evidence = pubs[j].evidence
    <2> SUFFICES ASSUME NEW j \in Jobs, pubs'[j] # pubs[j]
                 PROVE  /\ pubs[j].state # "finalized"
                        /\ pubs[j].state = "reserved" => pubs'[j].evidence = pubs[j].evidence
        OBVIOUS
    <2>1. PICK p \in Callers :
             /\ caller[p].job = j /\ Written(caller[p], pubs'[j])
             /\ \/ Taken(caller[p], pubs[j], pubs'[j], caller'[p])
                \/ Sealed(caller[p], pubs[j], pubs'[j], caller'[p])
        BY <1>1, RowChanges
    <2>2. CASE Taken(caller[p], pubs[j], pubs'[j], caller'[p])
        BY <2>1, <2>2 DEF Taken, Written
    <2>3. CASE Sealed(caller[p], pubs[j], pubs'[j], caller'[p])
        BY <2>1, <2>3 DEF Sealed, Written
    <2> QED BY <2>1, <2>2, <2>3
<1> QED BY <1>1, PubInvariant, PTL DEF Spec, PublicationImmutable

\* A reservation is taken over only after it expired by the real clock, and finalized at
\* most MaxDelay after it expired.
THEOREM Respected == Spec => ReservationRespected
<1>1. ASSUME PubInv, [Next]_vars
      PROVE  \A j \in Jobs : pubs[j].state = "reserved" =>
               /\ pubs'[j].epoch # pubs[j].epoch => pubs[j].expires <= clock
               /\ pubs'[j].state = "finalized" => /\ clock < pubs[j].expires + MaxDelay
                                                  /\ pubs'[j].finalized < pubs[j].expires
    <2> USE PublicationAssumption
    <2> SUFFICES ASSUME NEW j \in Jobs, pubs[j].state = "reserved", pubs'[j] # pubs[j]
                 PROVE  /\ pubs'[j].epoch # pubs[j].epoch => pubs[j].expires <= clock
                        /\ pubs'[j].state = "finalized" =>
                             /\ clock < pubs[j].expires + MaxDelay
                             /\ pubs'[j].finalized < pubs[j].expires
        OBVIOUS
    <2>1. PICK p \in Callers :
             /\ caller[p].job = j /\ Written(caller[p], pubs'[j])
             /\ \/ Taken(caller[p], pubs[j], pubs'[j], caller'[p])
                \/ Sealed(caller[p], pubs[j], pubs'[j], caller'[p])
        BY <1>1, RowChanges
    <2>2. /\ ClockOK(caller[p]) /\ clock \in Nat /\ caller[p].now \in Nat
          /\ pubs[j].expires \in Nat
        BY <1>1 DEF PubInv, TypeOK, CallsOK, Row, Call
    <2>3. CASE Taken(caller[p], pubs[j], pubs'[j], caller'[p])
        BY <2>2, <2>3 DEF Taken, ClockOK
    <2>4. CASE Sealed(caller[p], pubs[j], pubs'[j], caller'[p])
        BY <2>2, <2>4 DEF Sealed, ClockOK
    <2> QED BY <2>1, <2>3, <2>4
<1> QED BY <1>1, PubInvariant, PTL DEF Spec, ReservationRespected

\* Published rows are final and reservations are taken over only in their time.
THEOREM Stable == Spec => PublicationStable
<1> QED BY Immutable, Respected DEF PublicationStable

(***************************************************************************)
(* The listing                                                             *)
(***************************************************************************)

\* Discovery's order is a strict total order of the rows.
LEMMA Order ==
    ASSUME TypeOK
    PROVE  /\ \A i \in Jobs : ~Precedes(i, i)
           /\ \A i, j, k \in Jobs : Precedes(i, j) /\ Precedes(j, k) => Precedes(i, k)
<1>1. \A i \in Jobs : pubs[i].finalized \in Nat /\ i \in Nat
    BY PublicationAssumption DEF TypeOK, Row
<1> QED BY <1>1 DEF Precedes

\* Finalized rows stay, in their order, and a review once made stays.
LEMMA RowsStay ==
    ASSUME PubInv, [Next]_vars
    PROVE  /\ Finalized \subseteq Finalized'
           /\ \A i, j \in Finalized : Precedes(i, j)' <=> Precedes(i, j)
           /\ \A j \in Finalized : ReviewedRow(j) => ReviewedRow(j)'
<1>1. \A j \in Finalized : pubs'[j] = pubs[j]
    <2> SUFFICES ASSUME NEW j \in Jobs, pubs[j].state = "finalized", pubs'[j] # pubs[j]
                 PROVE  FALSE
        BY DEF Finalized
    <2> QED BY RowChanges DEF Taken, Sealed
<1>2. reviewed \subseteq reviewed'
    <2>1. ASSUME NEW p \in Callers, CallerStep(p)
          PROVE  reviewed' = reviewed
        BY <2>1, CallerFrame DEF PubInv
    <2>2. ASSUME NEW r \in Readers, ReaderStep(r)
          PROVE  reviewed' = reviewed
        BY <2>2, ReaderType DEF PubInv, Others
    <2> QED BY <2>1, <2>2 DEF Next, vars, Tick, Review
<1> QED BY <1>1, <1>2 DEF Finalized, Precedes, ReviewedRow

\* A listing stays consistent while publications and reviews go on beside it.
LEMMA ListStable ==
    ASSUME PubInv, [Next]_vars, NEW r \in Readers, ListOK(reader[r]), reader'[r] = reader[r]
    PROVE  ListOK(reader[r])'
<1> USE PublicationAssumption
<1> DEFINE l == reader[r]
<1>1. /\ Finalized \subseteq Finalized'
      /\ \A i, j \in Finalized : Precedes(i, j)' <=> Precedes(i, j)
      /\ \A j \in Finalized : ReviewedRow(j) => ReviewedRow(j)'
    BY RowsStay
<1>2. RefsOK(l) /\ OrderOK(l) /\ AheadOK(l) /\ PageOK(l)
    BY DEF ListOK
<1>3. /\ \A j \in l.before : Settled(l, j) => Settled(l, j)'
      /\ \A j \in l.before : Past(l.scan, j) => Past(l.scan, j)'
      /\ \A j \in l.before : Past(l.cursor, j) => Past(l.cursor, j)'
      /\ \A i \in l.rows \cup l.listed \cup l.found :
            AtOrBefore(i, l.scan) => AtOrBefore(i, l.scan)'
      /\ \A j \in l.batch : Past(l.scan, j) => Past(l.scan, j)'
      /\ \A i \in l.batch \cup l.rows \cup l.listed \cup l.found, j \in l.before \cup l.rows :
            Precedes(i, j) => Precedes(i, j)'
    BY <1>1, <1>2 DEF RefsOK, Settled, Past, AtOrBefore
<1>4. RefsOK(l)'
    BY <1>1, <1>2 DEF RefsOK
<1>5. OrderOK(l)'
    BY <1>2, <1>3 DEF OrderOK
<1>6. AheadOK(l)'
    BY <1>2, <1>3 DEF AheadOK
<1>7. PageOK(l)'
    BY <1>2 DEF PageOK
<1> QED BY <1>4, <1>5, <1>6, <1>7 DEF ListOK

\* No listing, and a listing that begins, are consistent.
LEMMA FreshListing == ListOK(NoListing) /\ ListOK(NewListing)
<1> USE PublicationAssumption
<1>1. Cardinality({}) = 0
    BY FS_EmptySet
<1>2. ListOK(NoListing)
    BY DEF ListOK, RefsOK, OrderOK, AheadOK, PageOK, NoListing
<1>3. /\ NewListing.pc = "scan" /\ NewListing.before = Finalized
      /\ NewListing.known = {j \in Finalized : ReviewedRow(j)}
      /\ NewListing.cursor = None /\ NewListing.scan = None /\ NewListing.batch = {}
      /\ NewListing.rows = {} /\ NewListing.found = {} /\ NewListing.listed = {}
    BY DEF NewListing, NoListing
<1> QED BY <1>1, <1>2, <1>3 DEF ListOK, RefsOK, OrderOK, AheadOK, PageOK, Past

\* Reading the next batch loses no row: those left out of it follow it, and a batch left
\* empty or short was the rest of the table.
LEMMA ScanKeeps ==
    ASSUME TypeOK, NEW l \in Listing, ListOK(l), l.pc = "scan",
           NEW batch \in SUBSET After(l.scan), IsBatch(batch, After(l.scan)),
           NEW n, n = Scanned(l, batch)
    PROVE  ListOK(n)
<1> USE PublicationAssumption
<1>1. RefsOK(l) /\ OrderOK(l) /\ AheadOK(l) /\ PageOK(l)
    BY DEF ListOK
<1>2. batch \in SUBSET Jobs /\ batch \subseteq Finalized
    BY DEF After, Finalized
<1>3. /\ n \in Listing /\ SameStart(l, n)
      /\ n.pc = IF batch = {} THEN Returned(l.rows) ELSE "check"
      /\ n.batch = batch /\ n.last = Short(batch)
      /\ n.scan = l.scan /\ n.cursor = l.cursor /\ n.rows = l.rows /\ n.found = l.found
      /\ n.listed = l.listed /\ n.hidden = l.hidden
    BY <1>2, ScannedFields
<1>4. ASSUME NEW j \in l.before
      PROVE  \/ Settled(n, j) \/ j \in n.rows \cup batch
             \/ ~Short(batch) /\ Past(l.scan, j) /\ \A i \in batch : Precedes(i, j)
    <2>1. Settled(l, j) \/ j \in l.rows \/ Past(l.scan, j)
        BY <1>1 DEF AheadOK
    <2>2. Settled(l, j) => Settled(n, j)
        BY <1>3 DEF Settled
    <2>3. CASE Past(l.scan, j) /\ j \notin batch
        <3>1. j \in After(l.scan) \ batch
            BY <1>1, <2>3 DEF After, RefsOK
        <3>2. ~Short(batch)
            BY <3>1 DEF IsBatch, Short
        <3> QED BY <2>3, <3>1, <3>2 DEF IsBatch
    <2> QED BY <1>3, <2>1, <2>2, <2>3
<1>5. batch = {} => Short(batch)
    BY FS_EmptySet DEF Short
<1>6. RefsOK(n)
    BY <1>1, <1>2, <1>3 DEF RefsOK, SameStart
<1>7. OrderOK(n)
    <2>1. \A j \in batch : Past(l.scan, j)
        BY DEF After
    <2> QED BY <1>1, <1>3, <2>1 DEF OrderOK, Returned
<1>8. AheadOK(n)
    BY <1>3, <1>4, <1>5 DEF AheadOK, Returned, SameStart
<1>9. PageOK(n)
    BY <1>1, <1>3 DEF PageOK, Returned
<1> QED BY <1>3, <1>6, <1>7, <1>8, <1>9 DEF ListOK, SameStart

\* Checking the next row of a batch keeps it in hand, hides it, or finds it reviewed, and
\* leaves everything behind it ahead.
LEMMA CheckKeeps ==
    ASSUME TypeOK, NEW l \in Listing, ListOK(l), l.pc = "check",
           NEW j \in l.batch, NEW readable \in BOOLEAN, IsFirst(j, l.batch),
           NEW n, n = Checked(l, j, readable)
    PROVE  ListOK(n)
<1> USE PublicationAssumption
<1>1. RefsOK(l) /\ OrderOK(l) /\ AheadOK(l) /\ PageOK(l)
    BY DEF ListOK
<1>2. Finalized \subseteq Jobs /\ j \in Finalized /\ j \in Jobs
    BY <1>1 DEF Finalized, RefsOK
<1>3. /\ n \in Listing /\ SameStart(l, n)
      /\ n.rows = Keep(l.rows, j, readable) /\ n.batch = l.batch \ {j}
      /\ n.pc = AfterCheck(l, n.rows, n.batch) /\ n.last = l.last
      /\ n.scan = j /\ n.cursor = l.cursor /\ n.found = l.found
      /\ n.listed = l.listed /\ n.hidden = Hide(l.hidden, j, readable)
    BY <1>2, CheckedFields
<1>4. l.rows \subseteq n.rows /\ n.rows \subseteq l.rows \cup {j}
    BY <1>3 DEF Keep
<1>5. /\ \A i \in l.listed \cup l.found \cup l.rows : Precedes(i, j)
      /\ \A k \in n.batch : Precedes(j, k)
    <2>1. l.scan = None \/ Precedes(l.scan, j)
        BY <1>1 DEF OrderOK, Past
    <2>2. \A i \in l.listed \cup l.found \cup l.rows : i \in Jobs /\ AtOrBefore(i, l.scan)
        BY <1>1, <1>2 DEF OrderOK, RefsOK
    <2>3. \A i \in l.listed \cup l.found \cup l.rows : Precedes(i, j)
        BY <1>1, <1>2, <2>1, <2>2, Order DEF AtOrBefore, RefsOK
    <2> QED BY <1>3, <2>3 DEF IsFirst
<1>6. \A i \in n.rows : AtOrBefore(i, j)
    BY <1>2, <1>4, <1>5 DEF AtOrBefore
<1>7. ASSUME NEW b \in l.before
      PROVE  \/ Settled(n, b) \/ b \in n.rows \cup n.batch
             \/ ~l.last /\ Precedes(j, b) /\ \A i \in n.batch : Precedes(i, b)
    <2>1. Settled(l, b) => Settled(n, b)
        BY <1>3 DEF Settled, Hide
    <2>2. b = j => Settled(n, b) \/ b \in n.rows
        BY <1>3 DEF Settled, Hide, Keep
    <2>3. \/ Settled(l, b) \/ b \in l.rows \cup l.batch
          \/ ~l.last /\ Past(l.scan, b) /\ \A i \in l.batch : Precedes(i, b)
        BY <1>1 DEF AheadOK
    <2> QED BY <1>3, <1>4, <2>1, <2>2, <2>3
<1>8. ASSUME NEW b \in l.before
      PROVE  \/ Settled(n, b) \/ b \in n.rows
             \/ Precedes(j, b) /\ \A i \in n.rows : Precedes(i, b)
    <2>1. b \in Jobs /\ n.rows \subseteq Jobs
        BY <1>1, <1>2, <1>3 DEF RefsOK, Listing
    <2>2. Precedes(j, b) => \A i \in n.rows : Precedes(i, b)
        BY <1>2, <1>6, <2>1, Order DEF AtOrBefore
    <2> QED BY <1>5, <1>7, <2>2
<1>9. /\ n.pc = "scan" => n.batch = {}
      /\ n.pc = "page" => n.batch = {} /\ n.rows = {} /\ l.last
      /\ n.pc \in {"scan", "page", "check", "recheck"}
    BY <1>3 DEF AfterCheck, Returned
<1>10. RefsOK(n)
    BY <1>1, <1>2, <1>3, <1>4 DEF RefsOK, SameStart
<1>11. OrderOK(n)
    <2>1. \A i \in l.listed \cup l.found : AtOrBefore(i, j)
        BY <1>2, <1>5 DEF AtOrBefore
    <2>2. \A i \in l.listed \cup l.found, k \in n.rows : Precedes(i, k)
        BY <1>1, <1>4, <1>5 DEF OrderOK
    <2>3. \A k \in n.batch : Past(j, k)
        BY <1>5 DEF Past
    <2> QED BY <1>3, <1>6, <2>1, <2>2, <2>3 DEF OrderOK
<1>12. AheadOK(n)
    <2>1. n.before = l.before /\ n.scan = j /\ n.last = l.last
        BY <1>3 DEF SameStart
    <2>2. n.pc = "scan" => \A b \in n.before : Settled(n, b) \/ b \in n.rows \/ Past(n.scan, b)
        BY <1>8, <2>1 DEF Past
    <2>3. n.pc = "check" => \A b \in n.before :
            \/ Settled(n, b) \/ b \in n.rows \cup n.batch
            \/ ~n.last /\ Past(n.scan, b) /\ \A i \in n.batch : Precedes(i, b)
        BY <1>7, <2>1 DEF Past
    <2>4. n.pc = "recheck" => \A b \in n.before :
            Settled(n, b) \/ b \in n.rows \/ \A i \in n.rows : Precedes(i, b)
        BY <1>8, <2>1
    <2>5. n.pc = "page" => \A b \in n.before : Settled(n, b)
        BY <1>7, <1>9, <2>1
    <2> QED BY <2>2, <2>3, <2>4, <2>5 DEF AheadOK
<1>13. PageOK(n)
    BY <1>1, <1>3 DEF PageOK
<1> QED BY <1>3, <1>10, <1>11, <1>12, <1>13 DEF ListOK, SameStart

\* Reading a returned row again shows it, hides it, or finds it reviewed; it was not shown
\* before, and if it fills the page it is its last row.
LEMMA RecheckKeeps ==
    ASSUME TypeOK, NEW l \in Listing, ListOK(l), l.pc = "recheck",
           NEW j \in l.rows, NEW readable \in BOOLEAN, IsFirst(j, l.rows),
           NEW n, n = Rechecked(l, j, readable)
    PROVE  ListOK(n)
<1> USE PublicationAssumption
<1>1. /\ RefsOK(l) /\ OrderOK(l) /\ AheadOK(l) /\ PageOK(l)
      /\ l.listed \cap l.found = {} /\ (l.listed \cup l.found) \cap l.known = {}
    BY DEF ListOK
<1>2. Finalized \subseteq Jobs /\ j \in Finalized /\ j \in Jobs
    BY <1>1 DEF Finalized, RefsOK
<1>a. IsRechecked(l, j, readable, n)
    BY <1>2, RecheckedFields
<1>3. /\ SameStart(l, n)
      /\ n.found = Keep(l.found, j, readable) /\ n.rows = l.rows \ {j} /\ n.batch = {}
      /\ n.pc = AfterRecheck(n.found, n.rows)
      /\ n.scan = j /\ n.cursor = j
      /\ n.listed = l.listed /\ n.hidden = Hide(l.hidden, j, readable)
    BY <1>a DEF IsRechecked
<1>4. l.found \subseteq n.found /\ n.found \subseteq l.found \cup {j}
    BY <1>3 DEF Keep
<1>5. /\ \A i \in l.listed \cup l.found : Precedes(i, j)
      /\ \A k \in n.rows : Precedes(j, k)
    BY <1>1, <1>3 DEF OrderOK, IsFirst
<1>6. ASSUME NEW b \in l.before
      PROVE  \/ Settled(n, b) \/ b \in n.rows
             \/ Precedes(j, b) /\ \A i \in n.rows : Precedes(i, b)
    <2>1. Settled(l, b) => Settled(n, b)
        BY <1>3, <1>4 DEF Settled, Hide
    <2>2. b = j => Settled(n, b)
        BY <1>3 DEF Settled, Hide, Keep
    <2>3. Settled(l, b) \/ b \in l.rows \/ \A i \in l.rows : Precedes(i, b)
        BY <1>1 DEF AheadOK
    <2> QED BY <1>3, <2>1, <2>2, <2>3
<1>7. /\ n.pc = "scan" => n.rows = {} /\ Cardinality(n.found) # Limit
      /\ n.pc = "recheck" => Cardinality(n.found) # Limit
      /\ n.pc = "page" => Cardinality(n.found) = Limit
      /\ n.pc # "check"
    BY <1>3 DEF AfterRecheck
<1>8. RefsOK(n)
    BY <1>1, <1>2, <1>3, <1>4 DEF RefsOK, SameStart
<1>9. OrderOK(n)
    <2>1. \A i \in n.listed \cup n.found : AtOrBefore(i, n.scan)
        BY <1>2, <1>3, <1>4, <1>5 DEF AtOrBefore
    <2>2. \A i \in n.listed \cup n.found, k \in n.rows : Precedes(i, k)
        BY <1>1, <1>3, <1>4, <1>5 DEF OrderOK
    <2> QED BY <1>7, <2>1, <2>2 DEF OrderOK
<1>10. AheadOK(n)
    <2>1. n.before = l.before /\ n.scan = j /\ n.cursor = j
        BY <1>3 DEF SameStart
    <2>2. \A b \in n.before : Settled(n, b) \/ Past(j, b)
        BY <1>5, <1>6, <2>1 DEF Past
    <2> QED BY <1>6, <1>7, <2>1, <2>2 DEF AheadOK
<1>11. PageOK(n)
    <2>1. Cardinality(n.found) = Limit => j \in n.found
        BY <1>1, <1>3, <1>4 DEF PageOK, Keep
    <2> QED BY <1>3, <1>7, <2>1 DEF PageOK
<1>12. n.listed \cap n.found = {} /\ (n.listed \cup n.found) \cap n.known = {}
    <2>1. j \notin l.listed
        BY <1>2, <1>5, Order
    <2>2. j \in n.found => j \in l.found \/ j \notin l.known
        BY <1>1, <1>3 DEF Keep, RefsOK
    <2> QED BY <1>1, <1>3, <1>4, <2>1, <2>2 DEF SameStart
<1> QED BY <1>8, <1>9, <1>10, <1>11, <1>12 DEF ListOK

\* The cursor of a full page is the row the service looked at last, so that the next page
\* begins right behind it.
LEMMA TurnKeeps ==
    ASSUME TypeOK, NEW l \in Listing, ListOK(l), l.pc = "page", Cardinality(l.found) = Limit,
           NEW j \in l.found, \A i \in l.found : i = j \/ Precedes(i, j),
           NEW n, n = Turned(l, j)
    PROVE  ListOK(n)
<1> USE PublicationAssumption
<1>1. /\ RefsOK(l) /\ OrderOK(l) /\ AheadOK(l) /\ PageOK(l)
      /\ l.listed \cap l.found = {} /\ (l.listed \cup l.found) \cap l.known = {}
    BY DEF ListOK
<1>2. Finalized \subseteq Jobs /\ j \in Finalized /\ j \in Jobs
    BY <1>1 DEF Finalized, RefsOK
<1>3. /\ n \in Listing /\ SameStart(l, n)
      /\ n.pc = "scan" /\ n.cursor = j /\ n.scan = j /\ n.rows = {} /\ n.found = {}
      /\ n.listed = l.listed \cup l.found /\ n.hidden = l.hidden /\ n.batch = l.batch
    BY <1>2, TurnedFields
<1>4. j = l.cursor /\ j = l.scan
    <2>1. l.scan = l.cursor /\ l.cursor \in l.found /\ l.cursor \in Jobs
        BY <1>1, <1>2 DEF PageOK, RefsOK
    <2>2. AtOrBefore(j, l.scan)
        BY <1>1 DEF OrderOK
    <2> QED BY <1>2, <2>1, <2>2, Order DEF AtOrBefore
<1>5. \A b \in l.before : Settled(l, b) => Settled(n, b)
    BY <1>3 DEF Settled
<1>6. Cardinality(n.found) # Limit
    BY <1>3, FS_EmptySet
<1>7. RefsOK(n)
    BY <1>1, <1>2, <1>3 DEF RefsOK, SameStart
<1>8. OrderOK(n)
    BY <1>1, <1>3, <1>4 DEF OrderOK
<1>9. AheadOK(n)
    BY <1>1, <1>3, <1>4, <1>5 DEF AheadOK, SameStart
<1>10. PageOK(n)
    BY <1>3, <1>6 DEF PageOK
<1> QED BY <1>1, <1>3, <1>7, <1>8, <1>9, <1>10 DEF ListOK, SameStart

\* A step of a reader keeps its listing consistent.
LEMMA ReaderKeeps ==
    ASSUME TypeOK, NEW r \in Readers, ReaderStep(r), ListOK(reader[r])
    PROVE  ListOK(reader[r])'
<1> DEFINE l == reader[r]
<1>1. l \in Listing /\ reader \in [Readers -> Listing] /\ pubs' = pubs /\ reviewed' = reviewed
    BY ReaderType DEF TypeOK, Others
<1>2. SUFFICES ListOK(reader'[r])
    <2> DEFINE n == reader'[r]
    <2>1. Finalized' = Finalized /\ \A j : ReviewedRow(j)' <=> ReviewedRow(j)
        BY <1>1 DEF Finalized, ReviewedRow
    <2>2. \A i, j : Precedes(i, j)' <=> Precedes(i, j)
        BY <1>1 DEF Precedes
    <2>3. RefsOK(n) => RefsOK(reader[r])'
        BY <2>1 DEF RefsOK
    <2>4. OrderOK(n) => OrderOK(reader[r])'
        BY <2>2 DEF OrderOK, AtOrBefore, Past
    <2>5. AheadOK(n) => AheadOK(reader[r])'
        BY <2>1, <2>2 DEF AheadOK, Settled, Past
    <2>6. PageOK(n) => PageOK(reader[r])'
        BY DEF PageOK
    <2> QED BY <2>3, <2>4, <2>5, <2>6 DEF ListOK
<1>3. \A new : Update(r, new) => reader'[r] = new
    BY <1>1 DEF Update
<1>4. CASE StartListing(r) \/ EndListing(r) \/ AbortListing(r)
    BY <1>3, <1>4, FreshListing DEF StartListing, EndListing, AbortListing
<1>5. CASE Scan(r)
    <2>1. PICK batch \in SUBSET After(l.scan) :
            IsBatch(batch, After(l.scan)) /\ Update(r, Scanned(l, batch))
        BY <1>5 DEF Scan
    <2>2. l.pc = "scan" /\ reader'[r] = Scanned(l, batch)
        BY <1>3, <1>5, <2>1 DEF Scan
    <2> QED BY <1>1, <2>1, <2>2, ScanKeeps
<1>6. CASE Check(r)
    <2>1. PICK j \in l.batch, readable \in BOOLEAN :
            IsFirst(j, l.batch) /\ Update(r, Checked(l, j, readable))
        BY <1>6 DEF Check
    <2>2. l.pc = "check" /\ reader'[r] = Checked(l, j, readable)
        BY <1>3, <1>6, <2>1 DEF Check
    <2> QED BY <1>1, <2>1, <2>2, CheckKeeps
<1>7. CASE Recheck(r)
    <2>1. PICK j \in l.rows, readable \in BOOLEAN :
            IsFirst(j, l.rows) /\ Update(r, Rechecked(l, j, readable))
        BY <1>7 DEF Recheck
    <2>2. l.pc = "recheck" /\ reader'[r] = Rechecked(l, j, readable)
        BY <1>3, <1>7, <2>1 DEF Recheck
    <2> QED BY <1>1, <2>1, <2>2, RecheckKeeps
<1>8. CASE NextPage(r)
    <2>1. PICK j \in l.found :
            (\A i \in l.found : i = j \/ Precedes(i, j)) /\ Update(r, Turned(l, j))
        BY <1>8 DEF NextPage
    <2>2. l.pc = "page" /\ Cardinality(l.found) = Limit /\ reader'[r] = Turned(l, j)
        BY <1>3, <1>8, <2>1 DEF NextPage
    <2> QED BY <1>1, <2>1, <2>2, TurnKeeps
<1> QED BY <1>4, <1>5, <1>6, <1>7, <1>8 DEF ReaderStep, Paging

\* Every step keeps every listing consistent.
LEMMA ListStep == PubInv /\ ListInv /\ [Next]_vars => ListInv'
<1> SUFFICES ASSUME PubInv, ListInv, [Next]_vars, NEW r \in Readers
             PROVE  ListOK(reader[r])'
    BY DEF ListInv
<1>1. ListOK(reader[r]) /\ TypeOK
    BY DEF ListInv, PubInv
<1>2. CASE ReaderStep(r)
    BY <1>1, <1>2, ReaderKeeps
<1>3. CASE ~ReaderStep(r)
    <2>1. ASSUME NEW p \in Callers, CallerStep(p)
          PROVE  reader'[r] = reader[r]
        BY <1>1, <2>1, CallerFrame
    <2>2. ASSUME NEW q \in Readers, ReaderStep(q)
          PROVE  reader'[r] = reader[r]
        BY <1>1, <1>3, <2>2, ReaderType
    <2>3. reader'[r] = reader[r]
        BY <2>1, <2>2 DEF Next, vars, Tick, Review
    <2> QED BY <1>1, <2>3, ListStable
<1> QED BY <1>2, <1>3

\* A listing that ends has shown every candidate finalized before it began, unless its
\* review exists by now or could not be read; no candidate is listed twice, and none that
\* was reviewed before.  For any page size, scan batch and number of rows, callers, readers.
THEOREM ListingCorrect == Spec => []ListingSound
<1>1. Init => ListInv
    BY FreshListing DEF Init, ListInv
<1>2. ListInv => ListingComplete /\ ListedOnce
    <2> SUFFICES ASSUME ListInv, NEW r \in Readers
                 PROVE  /\ Complete(reader[r]) => \A j \in reader[r].before :
                              \/ j \in reader[r].listed \cup reader[r].found \cup reader[r].hidden
                              \/ ReviewedRow(j)
                        /\ reader[r].listed \cap reader[r].found = {}
                        /\ (reader[r].listed \cup reader[r].found) \cap reader[r].known = {}
        BY DEF ListingComplete, ListedOnce
    <2>1. ListOK(reader[r])
        BY DEF ListInv
    <2>2. Complete(reader[r]) => reader[r].pc = "page" /\ Cardinality(reader[r].found) # Limit
        BY PublicationAssumption DEF Complete
    <2> QED BY <2>1, <2>2 DEF ListOK, AheadOK, Settled
<1>3. ListInv => ListingSound
    BY <1>2 DEF ListingSound
<1> QED BY <1>1, <1>3, PubInvariant, ListStep, PTL DEF Spec
=============================================================================
