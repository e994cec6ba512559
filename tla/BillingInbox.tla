---------------------------- MODULE BillingInbox ----------------------------
(***************************************************************************)
(* The retained billing inbox: one bbolt database, one process in front of *)
(* it, producers that retry their events, a collector that walks the       *)
(* commit sequence page by page, and the migration of a version 1 store to *)
(* version 2.                                                              *)
(*                                                                         *)
(* Every bbolt transaction is one step.  Events are opaque: `id` is the    *)
(* event id, `content` stands for the fields the content digest binds and  *)
(* `host` for the deployment metadata it leaves out.  Digests are          *)
(* collision free, so a digest is the tuple of what it hashes.             *)
(***************************************************************************)
EXTENDS Integers, Sequences

CONSTANTS
    Ids,          \* event ids
    Contents,     \* values of the digest-bound fields
    Hosts,        \* values of the deployment metadata outside the digest
    MaxSequence,  \* the last sequence number (2^64 - 1 in the code)
    PageLimit,    \* largest page a collector asks for (MaxQueryLimit); 0: no collector
    MigrateBatch, \* largest batch a Migrate call asks for (1000)
    MaxTime,      \* bound on the clock
    MaxFaults,    \* bound on ambiguous commits and on restarts
    NoBody, NoReceipt, NoId, NoTime, Legacy

Seqs == 1..MaxSequence

Events == [id : Ids, content : Contents, host : Hosts]

ASSUME BoundsAssumption ==
    /\ MaxSequence \in Nat \ {0}
    /\ PageLimit \in Nat
    /\ MigrateBatch \in Nat \ {0}
    /\ MaxTime \in Nat
    /\ MaxFaults \in Nat

ASSUME SentinelAssumption ==
    /\ NoBody \notin [sequence : Seqs, event : Events]
    /\ NoReceipt \notin [form : {"raw", "binding"}, seq : Seqs,
                         digest : (Ids \X Contents) \cup {NoBody},
                         record : [sequence : Seqs, event : Events] \cup {NoBody}]
    /\ NoId \notin Ids
    /\ NoTime \notin 0..MaxTime
    /\ Legacy \notin 0..MaxTime
    /\ Legacy # NoTime

(***************************************************************************)
(* The buckets and meta keys of the database.                              *)
(***************************************************************************)
VARIABLES
    version,           \* meta/version
    head,              \* the sequence of bucket events
    events,            \* bucket events
    ids,               \* bucket ids: raw key (v1) or receipt binding (v2)
    receiptIds,        \* bucket receipt_ids
    receiptTimes,      \* bucket receipt_times
    legacyThrough,     \* meta/legacy_through
    backfilledThrough, \* meta/backfilled_through
    legacyAgeFloor,    \* meta/legacy_age_floor
    archiveFloor,      \* meta/archive_floor
    archiveCache,      \* bucket archive_cache
    recoveryFence      \* meta/recovery_fence = "1"

storeVars == <<version, head, events, ids, receiptIds, receiptTimes,
               legacyThrough, backfilledThrough, legacyAgeFloor,
               archiveFloor, archiveCache, recoveryFence>>

(***************************************************************************)
(* The process, the clock and the collector.                               *)
(***************************************************************************)
VARIABLES
    up,         \* the inbox is open (not s.closed)
    failed,     \* s.failed
    recovering, \* s.recovering
    now,        \* wall clock
    cursor,     \* the collector's saved cursor
    collected   \* the records the collector has taken over, in order

procVars == <<up, failed, recovering>>
collectorVars == <<cursor, collected>>

(***************************************************************************)
(* What was really committed and promised, for the properties only.        *)
(***************************************************************************)
VARIABLES
    log,        \* every record ever committed, by sequence
    receivedAt, \* when it was committed
    acked,      \* content digests acknowledged to a producer
    faults      \* ambiguous commits and restarts so far

historyVars == <<log, receivedAt, acked, faults>>

vars == <<storeVars, procVars, now, collectorVars, historyVars>>

-----------------------------------------------------------------------------
(***************************************************************************)
(* Records, digests and receipts.                                          *)
(***************************************************************************)
Record == [sequence : Seqs, event : Events]

\* The digest of the immutable usage and isolation fields of an event.
ContentDigest(e) == <<e.id, e.content>>

Receipt == [form : {"raw", "binding"}, seq : Seqs,
            digest : (Ids \X Contents) \cup {NoBody},
            record : Record \cup {NoBody}]

\* The version 1 index entry: the eight-byte sequence key.
RawKey(k) == [form |-> "raw", seq |-> k, digest |-> NoBody, record |-> NoBody]

\* The version 2 index entry: sequence, content digest and record digest.
Binding(r) == [form |-> "binding", seq |-> r.sequence,
               digest |-> ContentDigest(r.event), record |-> r]

Init ==
    /\ version = "1"
    /\ head = 0
    /\ events = [k \in Seqs |-> NoBody]
    /\ ids = [i \in Ids |-> NoReceipt]
    /\ receiptIds = [k \in Seqs |-> NoId]
    /\ receiptTimes = [k \in Seqs |-> NoTime]
    /\ legacyThrough = 0
    /\ backfilledThrough = 0
    /\ legacyAgeFloor = NoTime
    /\ archiveFloor = 0
    /\ archiveCache = [k \in Seqs |-> NoBody]
    /\ recoveryFence = FALSE
    /\ up = TRUE
    /\ failed = FALSE
    /\ recovering = FALSE
    /\ now = 0
    /\ cursor = [after |-> 0, through |-> 0]
    /\ collected = <<>>
    /\ log = [k \in Seqs |-> NoBody]
    /\ receivedAt = [k \in Seqs |-> NoTime]
    /\ acked = {}
    /\ faults = 0

\* Mutant: a restored store is served before it is admitted.
HealthyIgnoresFence == up /\ ~failed

\* Health: the gate of every request (the inode check has no counterpart).
Healthy == up /\ ~failed /\ ~recovering

-----------------------------------------------------------------------------
(***************************************************************************)
(* InsertEvent.                                                            *)
(***************************************************************************)

\* The duplicate check found an entry it can trust.
IndexSound(i) ==
    LET r == ids[i] IN
    IF r.form = "raw"
    THEN /\ events[r.seq] # NoBody
         /\ events[r.seq].sequence = r.seq
         /\ events[r.seq].event.id = i
    ELSE /\ r.seq <= head
         /\ receiptIds[r.seq] = i
         /\ events[r.seq] # NoBody => events[r.seq] = r.record

StoredDigest(i) ==
    LET r == ids[i] IN
    IF r.form = "raw" THEN ContentDigest(events[r.seq].event) ELSE r.digest

\* Mutant: a record that arrives during the migration gets a raw key.
StoreRecordRawUntilMigrated(e) ==
    LET k == head + 1
        r == [sequence |-> k, event |-> e]
    IN  /\ head' = k
        /\ events' = [events EXCEPT ![k] = r]
        /\ IF version # "2"
           THEN /\ ids' = [ids EXCEPT ![e.id] = RawKey(k)]
                /\ UNCHANGED <<receiptIds, receiptTimes>>
           ELSE /\ ids' = [ids EXCEPT ![e.id] = Binding(r)]
                /\ receiptIds' = [receiptIds EXCEPT ![k] = e.id]
                /\ receiptTimes' = [receiptTimes EXCEPT ![k] = now]
        /\ log' = [log EXCEPT ![k] = r]
        /\ receivedAt' = [receivedAt EXCEPT ![k] = now]
        /\ UNCHANGED <<version, legacyThrough, backfilledThrough,
                       legacyAgeFloor, archiveFloor, archiveCache,
                       recoveryFence>>

\* The write set of a fresh event: body, index entry and, past version 1,
\* both receipt buckets, in one transaction.
StoreRecord(e) ==
    LET k == head + 1
        r == [sequence |-> k, event |-> e]
    IN  /\ head' = k
        /\ events' = [events EXCEPT ![k] = r]
        /\ IF version = "1"
           THEN /\ ids' = [ids EXCEPT ![e.id] = RawKey(k)]
                /\ UNCHANGED <<receiptIds, receiptTimes>>
           ELSE /\ ids' = [ids EXCEPT ![e.id] = Binding(r)]
                /\ receiptIds' = [receiptIds EXCEPT ![k] = e.id]
                /\ receiptTimes' = [receiptTimes EXCEPT ![k] = now]
        /\ log' = [log EXCEPT ![k] = r]
        /\ receivedAt' = [receivedAt EXCEPT ![k] = now]
        /\ UNCHANGED <<version, legacyThrough, backfilledThrough,
                       legacyAgeFloor, archiveFloor, archiveCache,
                       recoveryFence>>

\* The reply reaches the producer or is lost with the connection.
Reply(e) == acked' \in {acked, acked \cup {ContentDigest(e)}}

\* Mutant: the duplicate check is left out.
InsertFreshUnchecked(e) ==
    /\ Healthy
    /\ head < MaxSequence
    /\ StoreRecord(e)
    /\ Reply(e)
    /\ UNCHANGED <<procVars, now, collectorVars, faults>>

\* Mutant: the sequence runs past its last value.
InsertFreshUnbounded(e) ==
    /\ Healthy
    /\ ids[e.id] = NoReceipt
    /\ StoreRecord(e)
    /\ Reply(e)
    /\ UNCHANGED <<procVars, now, collectorVars, faults>>

InsertFresh(e) ==
    /\ Healthy
    /\ ids[e.id] = NoReceipt
    /\ head < MaxSequence
    /\ StoreRecord(e)
    /\ Reply(e)
    /\ UNCHANGED <<procVars, now, collectorVars, faults>>

\* Mutant: a commit that reported an error is acknowledged.
InsertAmbiguousAcks(e) ==
    /\ Healthy
    /\ faults < MaxFaults
    /\ ids[e.id] = NoReceipt
    /\ head < MaxSequence
    /\ \/ StoreRecord(e)
       \/ UNCHANGED <<storeVars, log, receivedAt>>
    /\ failed' = TRUE
    /\ faults' = faults + 1
    /\ acked' = acked \cup {ContentDigest(e)}
    /\ UNCHANGED <<up, recovering, now, collectorVars>>

\* The commit reports an error: it may have happened or not, nothing is
\* acknowledged and the inbox fences itself until it is reopened.
InsertAmbiguous(e) ==
    /\ Healthy
    /\ faults < MaxFaults
    /\ ids[e.id] = NoReceipt
    /\ head < MaxSequence
    /\ \/ StoreRecord(e)
       \/ UNCHANGED <<storeVars, log, receivedAt>>
    /\ failed' = TRUE
    /\ faults' = faults + 1
    /\ UNCHANGED <<up, recovering, now, collectorVars, acked>>

\* Sequence numbers are used up: ErrBillingUnavailable, which fences.
InsertExhausted(e) ==
    /\ Healthy
    /\ ids[e.id] = NoReceipt
    /\ head = MaxSequence
    /\ failed' = TRUE
    /\ UNCHANGED <<storeVars, up, recovering, now, collectorVars, historyVars>>

\* Mutant: a duplicate replaces the stored bytes.
InsertKnownUpserts(e) ==
    /\ Healthy
    /\ ids[e.id] # NoReceipt
    /\ StoredDigest(e.id) = ContentDigest(e)
    /\ events' = [events EXCEPT ![ids[e.id].seq].event = e]
    /\ UNCHANGED <<version, head, ids, receiptIds, receiptTimes,
                   legacyThrough, backfilledThrough, legacyAgeFloor,
                   archiveFloor, archiveCache, recoveryFence, procVars, now,
                   collectorVars, historyVars>>

\* A known id: duplicate (acknowledged), conflict (refused), or an index
\* entry that contradicts the store, which fences the inbox.
InsertKnown(e) ==
    /\ Healthy
    /\ ids[e.id] # NoReceipt
    /\ failed' = ~IndexSound(e.id)
    /\ IF IndexSound(e.id) /\ StoredDigest(e.id) = ContentDigest(e)
       THEN Reply(e)
       ELSE UNCHANGED acked
    /\ UNCHANGED <<storeVars, up, recovering, now, collectorVars,
                   log, receivedAt, faults>>

InsertEvent(e) ==
    InsertFresh(e) \/ InsertAmbiguous(e) \/ InsertExhausted(e) \/ InsertKnown(e)

-----------------------------------------------------------------------------
(***************************************************************************)
(* Page.                                                                   *)
(***************************************************************************)

\* The horizon: frozen by the cursor, or the head when a new walk begins.
Horizon == IF cursor.through = 0 THEN head ELSE cursor.through

\* The cursor checks that answer ErrBillingCursor.
CursorValid ==
    /\ cursor.after <= head
    /\ cursor.through <= head
    /\ cursor.through # 0 => cursor.after <= cursor.through

Lesser(a, b) == IF a <= b THEN a ELSE b

\* The body Page finds for a sequence: hot, or rehydrated below the floor.
PageBody(k) ==
    IF events[k] # NoBody THEN events[k]
    ELSE IF k <= archiveFloor THEN archiveCache[k]
    ELSE NoBody

\* Retired and not rehydrated: ErrBillingArchiveUnavailable, retryable.
ArchiveMiss(k) == PageBody(k) = NoBody /\ k <= archiveFloor

\* The record decodes under its own sequence and agrees with its receipt.
RecordSound(k) ==
    LET b == PageBody(k) IN
    /\ b # NoBody
    /\ b.sequence = k
    /\ ids[b.event.id] # NoReceipt
    /\ ids[b.event.id].form = "binding" => ids[b.event.id] = Binding(b)

\* The sequences one page reads: at most limit, never beyond the horizon.
\* (The 8 MiB bound on a page has the effect of a smaller limit.)
PageRange(limit) == (cursor.after + 1)..Lesser(cursor.after + limit, Horizon)

\* Mutant: the cursor skips what the limit left out of the page.
NextCursorSkips(limit) == [after |-> Horizon, through |-> 0]

\* Mutant: a finished walk keeps its horizon.
NextCursorKeepsHorizon(limit) ==
    [after |-> Lesser(cursor.after + limit, Horizon), through |-> Horizon]

\* The cursor handed back: a finished walk drops its horizon.
NextCursor(limit) ==
    LET last == Lesser(cursor.after + limit, Horizon) IN
    [after |-> last, through |-> IF last < Horizon THEN Horizon ELSE 0]

PageRecords(limit) ==
    [i \in 1..(Lesser(cursor.after + limit, Horizon) - cursor.after) |->
        PageBody(cursor.after + i)]

\* Mutant: what is retired and not cached is left out of the page.
PageSkipsRetired(limit) ==
    /\ Healthy
    /\ CursorValid
    /\ cursor' = NextCursor(limit)
    /\ collected' = collected \o SelectSeq(PageRecords(limit), LAMBDA r : r # NoBody)
    /\ UNCHANGED <<storeVars, procVars, now, historyVars>>

\* One poll of the collector.  A page is all or nothing: an archive miss
\* leaves everything as it was, a corrupt record fences the inbox.  The
\* collector takes over records and cursor together; a lost response
\* changes nothing.
Page(limit) ==
    /\ Healthy
    /\ CursorValid
    /\ IF \A k \in PageRange(limit) : RecordSound(k)
       THEN /\ cursor' = NextCursor(limit)
            /\ collected' = collected \o PageRecords(limit)
            /\ UNCHANGED failed
       ELSE /\ failed' = \E k \in PageRange(limit) :
                            /\ ~RecordSound(k)
                            /\ ~ArchiveMiss(k)
                            /\ \A j \in PageRange(limit) : j < k => RecordSound(j)
            /\ UNCHANGED collectorVars
    /\ UNCHANGED <<storeVars, up, recovering, now, historyVars>>

-----------------------------------------------------------------------------
(***************************************************************************)
(* Migrate: at most `batch` legacy records per transaction.                *)
(***************************************************************************)

\* The legacy body decodes and its index entry is still the raw key.
LegacySound(k) ==
    /\ events[k] # NoBody
    /\ events[k].sequence = k
    /\ ids[events[k].event.id] = RawKey(k)

\* Mutant: the end of the legacy range moves with the head.
MigrateEndMoves == head

MigrateEnd == IF version = "1" THEN head ELSE legacyThrough

MigrateRange(batch) ==
    (backfilledThrough + 1)..Lesser(backfilledThrough + batch, MigrateEnd)

Migrate(batch) ==
    LET range == MigrateRange(batch)
        at == Lesser(backfilledThrough + batch, MigrateEnd)
        named(i) == \E k \in range : events[k].event.id = i
    IN
    /\ Healthy
    /\ ~recoveryFence
    /\ version # "2"
    /\ \A k \in range : LegacySound(k)
    /\ legacyThrough' = MigrateEnd
    /\ ids' = [i \in Ids |-> IF named(i) THEN Binding(events[ids[i].seq]) ELSE ids[i]]
    /\ receiptIds' = [k \in Seqs |-> IF k \in range THEN events[k].event.id
                                                    ELSE receiptIds[k]]
    /\ receiptTimes' = [k \in Seqs |-> IF k \in range THEN Legacy ELSE receiptTimes[k]]
    /\ backfilledThrough' = at
    /\ IF at = MigrateEnd
       THEN version' = "2" /\ legacyAgeFloor' = now
       ELSE version' = "2-migrating" /\ UNCHANGED legacyAgeFloor
    /\ UNCHANGED <<head, events, archiveFloor, archiveCache, recoveryFence,
                   procVars, now, collectorVars, historyVars>>

\* receiptTime: a legacy receipt counts from the end of the migration.
ReceiptTime(k) == IF receiptTimes[k] = Legacy THEN legacyAgeFloor ELSE receiptTimes[k]

-----------------------------------------------------------------------------
(***************************************************************************)
(* The process and its environment.                                        *)
(***************************************************************************)

\* Close, a crash, or a restart of a fenced inbox.
Stop ==
    /\ up
    /\ failed \/ faults < MaxFaults
    /\ up' = FALSE
    /\ faults' = IF failed THEN faults ELSE faults + 1
    /\ UNCHANGED <<storeVars, failed, recovering, now, collectorVars,
                   log, receivedAt, acked>>

\* OpenBillingInbox on an existing store, then SetRecoveryMode before
\* serving when the process was started with the recovery flag.
Open(recoveryMode) ==
    /\ ~up
    /\ up' = TRUE
    /\ failed' = FALSE
    /\ recoveryFence' = (recoveryFence \/ recoveryMode)
    /\ recovering' = recoveryFence'
    /\ UNCHANGED <<version, head, events, ids, receiptIds, receiptTimes,
                   legacyThrough, backfilledThrough, legacyAgeFloor,
                   archiveFloor, archiveCache, now, collectorVars, historyVars>>

\* AdmitRecovery, the transaction: an approval that matches the fenced
\* state removes the durable fence.
AdmitRecovery ==
    /\ up /\ ~failed
    /\ recoveryFence
    /\ recoveryFence' = FALSE
    /\ UNCHANGED <<version, head, events, ids, receiptIds, receiptTimes,
                   legacyThrough, backfilledThrough, legacyAgeFloor,
                   archiveFloor, archiveCache, procVars, now, collectorVars,
                   historyVars>>

\* AdmitRecovery, after the transaction: the process starts serving.
FinishAdmission ==
    /\ up
    /\ recovering /\ ~recoveryFence
    /\ recovering' = FALSE
    /\ UNCHANGED <<storeVars, up, failed, now, collectorVars, historyVars>>

Tick ==
    /\ now < MaxTime
    /\ now' = now + 1
    /\ UNCHANGED <<storeVars, procVars, collectorVars, historyVars>>

\* Everything but a stop.
InboxRun ==
    \/ \E e \in Events : InsertEvent(e)
    \/ \E limit \in 1..PageLimit : Page(limit)
    \/ \E batch \in 1..MigrateBatch : Migrate(batch)
    \/ \E recoveryMode \in BOOLEAN : Open(recoveryMode)
    \/ AdmitRecovery
    \/ FinishAdmission
    \/ Tick

InboxNext == InboxRun \/ Stop

InboxSpec == Init /\ [][InboxNext]_vars

(***************************************************************************)
(* Fairness: the collector keeps polling, Migrate is called until it       *)
(* reports version 2, a fenced or stopped process is restarted and a       *)
(* restored store is eventually admitted.  Producers owe nothing.          *)
(***************************************************************************)
InboxFairness ==
    /\ WF_vars(Page(PageLimit))
    /\ WF_vars(Migrate(MigrateBatch))
    /\ WF_vars(failed /\ Stop)
    /\ WF_vars(Open(FALSE))
    /\ WF_vars(AdmitRecovery)
    /\ WF_vars(FinishAdmission)

FairInboxSpec == InboxSpec /\ InboxFairness

-----------------------------------------------------------------------------
(***************************************************************************)
(* Properties.                                                             *)
(***************************************************************************)

\* Every bucket, meta key and process field has the type the code gives it.
TypeOK ==
    /\ version \in {"1", "2-migrating", "2"}
    /\ head \in 0..MaxSequence
    /\ events \in [Seqs -> Record \cup {NoBody}]
    /\ ids \in [Ids -> Receipt \cup {NoReceipt}]
    /\ receiptIds \in [Seqs -> Ids \cup {NoId}]
    /\ receiptTimes \in [Seqs -> 0..MaxTime \cup {Legacy, NoTime}]
    /\ legacyThrough \in 0..MaxSequence
    /\ backfilledThrough \in 0..MaxSequence
    /\ legacyAgeFloor \in 0..MaxTime \cup {NoTime}
    /\ archiveFloor \in 0..MaxSequence
    /\ archiveCache \in [Seqs -> Record \cup {NoBody}]
    /\ recoveryFence \in BOOLEAN
    /\ up \in BOOLEAN
    /\ failed \in BOOLEAN
    /\ recovering \in BOOLEAN
    /\ now \in 0..MaxTime
    /\ cursor \in [after : 0..MaxSequence, through : 0..MaxSequence]
    /\ collected \in Seq(Record)
    /\ log \in [Seqs -> Record \cup {NoBody}]
    /\ receivedAt \in [Seqs -> 0..MaxTime \cup {NoTime}]
    /\ acked \subseteq Ids \X Contents
    /\ faults \in 0..MaxFaults

\* An event id is committed under one sequence only, whatever the mix of
\* lost replies, retries, ambiguous commits, restarts, migration batches and
\* retirements between two inserts of it.
ExactlyOnce ==
    \A j, k \in 1..head : log[j].event.id = log[k].event.id => j = k

\* What a producer was told is stored stays stored: the acknowledged content
\* has a sequence and the index still answers a retry of it from there.
AckedDurable ==
    \A d \in acked : \E k \in 1..head :
        /\ ContentDigest(log[k].event) = d
        /\ ids[d[1]] # NoReceipt
        /\ ids[d[1]].seq = k

\* The collector holds the committed records, each once, in commit order,
\* without a gap, while inserts, migration and restarts go on under it.
CollectedPrefix == collected = [i \in 1..cursor.after |-> log[i]]

\* A cursor Page handed out is never refused later.
CursorAccepted == CursorValid

\* The committed bytes are the bytes: a hot body, and a rehydrated one, is
\* what was first committed under that sequence, and a body is missing only
\* at or below the archive floor.
BytesPreserved ==
    \A k \in Seqs :
        /\ events[k] \in {log[k], NoBody}
        /\ archiveCache[k] \in {log[k], NoBody}
        /\ archiveFloor < k /\ k <= head => events[k] # NoBody

\* A version 2 store has the complete receipt of every sequence, hot or
\* retired: index binding, receipt id and receipt time.
ReceiptsComplete ==
    version = "2" =>
        \A k \in 1..head :
            /\ ids[log[k].event.id] = Binding(log[k])
            /\ receiptIds[k] = log[k].event.id
            /\ receiptTimes[k] # NoTime

\* A receipt is never older than the commit it stands for, so an age taken
\* from it never overstates how long a record has been kept.
ReceiptAgeSafe ==
    version = "2" => \A k \in 1..head : ReceiptTime(k) >= receivedAt[k]

\* An index entry is permanent: a step may turn a raw key into a binding of
\* the same sequence, and nothing else.
PermanentReceipts ==
    [][\A i \in Ids : ids[i] # NoReceipt =>
          \/ ids'[i] = ids[i]
          \/ /\ ids[i].form = "raw"
             /\ ids'[i] = Binding(log[ids[i].seq])]_ids

\* The sequence numbers are used up and there is still an event to insert.
Exhausted == head = MaxSequence /\ \E i \in Ids : ids[i] = NoReceipt

\* The inbox fences itself only on a storage error or when it runs out of
\* sequence numbers: no mix of legal calls reaches a state that the integrity
\* checks of InsertEvent and Page take for corruption.
NeverFencesItself ==
    [][failed' /\ ~failed => faults' = faults + 1 \/ Exhausted]_vars

\* While the recovery fence is down on a restored store, nothing that an
\* approval is bound to, and no receipt, changes, restarts included.
FencedFrozen ==
    [][recoveryFence /\ recoveryFence' =>
          UNCHANGED <<version, head, events, ids, receiptIds, receiptTimes,
                      archiveFloor, acked, collected>>]_vars

\* A migration that has begun ends, although inserts, restarts and lost
\* commits go on between its batches.
MigrationCompletes == version = "2-migrating" ~> version = "2"

\* Every committed record reaches a collector that keeps polling: no cursor
\* and no horizon leaves it stuck behind the head.
CollectorCatchesUp == \A k \in Seqs : head >= k ~> Len(collected) >= k

-----------------------------------------------------------------------------
(***************************************************************************)
(* The inductive invariant behind the safety properties.                   *)
(***************************************************************************)

\* The committed records are exactly those of the sequences 1..head.
LogShape ==
    \A k \in Seqs : IF k <= head THEN /\ log[k] \in Record
                                      /\ log[k].sequence = k
                                 ELSE log[k] = NoBody

\* The sequences whose index entry is a binding: written past version 1, or
\* already backfilled.
Bound(k) == version # "1" /\ (k <= backfilledThrough \/ k > legacyThrough)

IndexEntry(k) == IF Bound(k) THEN Binding(log[k]) ELSE RawKey(k)

\* Index and log determine each other.
IndexMatchesLog ==
    /\ \A k \in 1..head : ids[log[k].event.id] = IndexEntry(k)
    /\ \A i \in Ids : ids[i] # NoReceipt =>
          /\ ids[i].seq \in 1..head
          /\ log[ids[i].seq].event.id = i

\* The migration frontier, and that nothing is retired before version 2.
Frontier ==
    /\ backfilledThrough <= legacyThrough
    /\ legacyThrough <= head
    /\ archiveFloor <= head
    /\ version = "1" => legacyThrough = 0
    /\ version = "2" => backfilledThrough = legacyThrough
    /\ version # "2" => archiveFloor = 0

\* The receipt buckets of the bound sequences.
ReceiptsMatchLog ==
    \A k \in 1..head : Bound(k) =>
        /\ receiptIds[k] = log[k].event.id
        /\ receiptTimes[k] = IF k <= legacyThrough THEN Legacy ELSE receivedAt[k]

\* Commit times and the age given to legacy receipts lie in the past.
Clock ==
    /\ \A k \in 1..head : receivedAt[k] \in 0..now
    /\ version = "2" => /\ legacyAgeFloor \in 0..now
                        /\ \A k \in 1..legacyThrough : receivedAt[k] <= legacyAgeFloor

\* An acknowledged digest is the digest of a committed record.
AckedCommitted ==
    \A d \in acked : \E k \in 1..head : ContentDigest(log[k].event) = d

\* An open process knows of a durable fence.
FenceKnown == up /\ recoveryFence => recovering

IInv ==
    /\ TypeOK
    /\ LogShape
    /\ BytesPreserved
    /\ IndexMatchesLog
    /\ Frontier
    /\ ReceiptsMatchLog
    /\ Clock
    /\ CursorAccepted
    /\ CollectedPrefix
    /\ AckedCommitted
    /\ FenceKnown
=============================================================================
