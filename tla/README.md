# rtk_cloud_logger in TLA+

TLA+ modules, TLC configurations and TLAPS proofs for the parts of
`rtk_cloud_logger` that keep state across failures: the durable billing inbox
and its raw-data lifecycle, the online compaction of its database, the admission
of a restored copy, the forwarder that ships host logs to the backend, and the
Loki store with its queries.

    tlc -config MCBillingInbox.cfg MCBillingInbox      # a model-checking run
    tlapm BillingInboxProofs.tla                       # the proofs of a module

`PROJECT.json` lists components, runs, mutants, the map from definitions to
source lines, findings, hazards and theorems.

## 1. Inventory

### Billing inbox (`billing_inbox.go`, first half of `billing_lifecycle.go`)

State: one bbolt file with the buckets `events` (sequence to body), `ids`
(event id to index entry), `receipt_ids`, `receipt_times`, `meta`; in the
process `failed`, `closed`, `recovering`. Operations: `InsertEvent` (append
once per event id, answer duplicates from the index, refuse conflicts), `Page`
(collector pages with a frozen horizon in the cursor), `Health`, `Close`,
`OpenBillingInbox`, `Migrate` (version 1 to 2 in batches). Callers: the ingest
handler (producers retry after lost replies) and the collector (keeps its
cursor). Every operation is one bbolt transaction under one mutex.

Hard: commit errors that may or may not have reached the disk; retries that
meet a store halfway through its migration; inserts between migration batches;
integrity checks that fence the inbox and must never do so on a legal state.

Correct when: one sequence per event id; acknowledged means durable; the
collector gets every record once, in order; bytes and receipts never change;
a fenced store does not change.

### Raw-data lifecycle (`billing_backup.go`, `billing_s3.go`, second half of `billing_lifecycle.go`, `billing_audit.go`)

State: the buckets `captures`, `catalog`, `operations`, `archive_cache`, the
meta keys `captured_through`, `archive_floor`, `cache_bytes`; scratch
directories; objects in the bucket. Operations: `Capture` (snapshot, export,
seal, upload; resumed or abandoned after a crash), `VerifyCatalog` (takes a
completion that an off-cluster verifier signed), `PlanRetirement`,
`ApplyRetirement`, `AbortRetirementPlan` (each asks the Billing authority, then
commits), `Rehydrate`, `EvictCache`, and the audit of the whole database.

Hard: a long multi-step capture that interleaves with requests and crashes; an
authority answer that is old when it is used; three parties (Logger, verifier,
authority) with partial knowledge; deletion that cannot be undone.

Correct when: nothing is deleted that the archive does not hold; the backups
split the records exactly; decisions are authorized and permanent; the store
and its archive together still are one append-only ledger.

### Online compaction (`billing_compaction.go`)

State: database generations in a directory, the active manifest, the mutation
journal in the live database, scratch directories with an owner marker and a
plaintext snapshot. Operation: `CompactOnline`, a run of some twenty durable
steps while writers go on; `reclaimGeneration` after old readers drain.

Hard: directory operations that are visible and not durable; an error at any
step, with deferred cleanup; journal overflow; scratch of an interrupted run.

Correct when: the open generation, and each one a crash may leave to be opened,
holds every committed write in order; plaintext and shadow files always have an
owner that lets a later run remove them.

### Recovery admission (`billing_recovery.go`, `billingarchive/recovery.go`, startup in `cmd/rtk-cloud-logger`)

State: the database of a restored copy with its meta keys `recovery_fence` and
`manifest_required`, the files `.recovery-stage.json` and `.active.json` beside
it, the process flag `recovering`, and the approvals a custodian has signed.
Operations: `PrepareBillingSnapshotRecovery` (marker, fence, manifest, directory
sync), `SetRecoveryMode` at startup, `RecoveryState`, `SignRecoveryApproval`,
`AdmitRecovery`.

Hard: a staging that stops anywhere; directory entries that a power loss drops;
an approval that is old, or was signed for another copy; a commit of unknown
outcome; starts with and without the recovery flag.

Correct when: a restored store serves only after an admission of just this
state, no sequence is given out twice, a staged copy opens, and a complete copy
comes back into service.

### Forwarder (`forwarder.go`, `spool.go`, `cursor.go`, `http_sink.go`, `journal.go`, `docker_logs.go`)

State: cursor file, spool directory, `ForwarderStatus`; in the backend the
process-local duplicate map and Loki. Operation: `RunOnce` (flush the spool,
read a batch, send or spool it, save the cursor) against an ingest handler that
works event by event and goes on after its client has given up.

Hard: torn files, a spool at its limit, a line that does not parse, a request
that races its own retry, a backend restart that empties the duplicate map.

Correct when: the cursor passes no line that was not answered for, and every
line is answered for in the end.

### Ingest, Loki store and queries (`ingest.go`, `loki_store.go`, `store.go`, `event.go`)

State: `seen` and `lastTS` of the store, the entries of Loki. Operations: the
route of an event by token, stream and source; `LokiEventStore.InsertEvent`
(duplicate check, push time, push); `QueryEvents` (candidates by push time,
filter, deduplication, order, limit); the query route.

Hard: late events of a stream, pushes whose outcome is unknown, a restart that
forgets what was pushed, a candidate limit before the filter, data of an
earlier writer.

Correct when: an answer has matching events only, each once, in order, and has
all of them whenever the candidates fit; billing usage never shows up in it.

### Not modelled

- HTTP routes of the lifecycle: decoding, scopes and status codes around calls
  that are modelled; they keep no state.
- `billingarchive`: part sizes, encryption, range proofs and usage digests are
  functions over bytes. What the lifecycle relies on (a manifest binds the
  exported bytes, completions and approvals are signed) is in the models.
- The export audit (`billing_export_audit.go`): runs off-cluster on decrypted
  parts; it is part of the external `Sign`.
- Logger SDK, middleware and redaction: stateless functions of one event.
- The object-storage CLI: one signed request per invocation.

## 2. Modules

| module | models |
| --- | --- |
| `BillingInbox` | the inbox: insert, page, migration, restart, recovery fence |
| `BillingLedger` | abstract: what producers and collector are promised |
| `BillingLifecycle` | extends `BillingInbox`: capture, catalog, retirement, cache, audit; refines `BillingLedger` |
| `BillingCompaction` | online compaction over a log of writes |
| `BillingRecovery` | staging, startup and admission of a restored copy, with its custodian |
| `Forwarder` | forwarder, spool, cursor and the ingest loop they talk to |
| `LogStore` | routing of events, the Loki store, queries against a reference answer |
| `MCBillingInbox`, `MCBillingLifecycle`, `MCLogStore` | TLC instances (symmetry, plans, the archived start, the events) |
| `BillingInboxProofs`, `BillingLifecycleProofs`, `BillingCompactionProofs`, `BillingRecoveryProofs`, `ForwarderProofs`, `LogStoreProofs` | the inductive invariant of each component and its theorems |
| `BillingLifecycleTheorems` | what the invariant of the lifecycle gives, with the refinement of `BillingLedger` |

Definitions whose comment starts with `Mutant` are wrong variants of the
definition after them. Nothing uses them; the `mutants` of `PROJECT.json` put
one in the place of the original to show that a property notices.

### BillingInbox

Buckets and meta keys are functions over the sequences `1..MaxSequence` and the
event ids. A content digest is the pair of id and content; an index entry is
the raw sequence key of version 1 or the version 2 binding. An event differs
from its retry in `host` (deployment metadata that the digest leaves out).
One bbolt transaction is one step. `InsertFresh`, `InsertKnown`,
`InsertExhausted` and `InsertAmbiguous` are the branches of `InsertEvent`; the
ambiguous one is a commit error, after which the event may be stored and the
inbox is fenced. The reply to a producer may be lost (`Reply`). `log`,
`receivedAt`, `acked` and `faults` are history variables.

### BillingLifecycle

`worker` is the running `Capture` (there is one, `captureMu`) with what it has
read; its stages are the points between two durable effects. `inflight` holds
the Apply and Abort requests between the authority's answer and their
transaction, so another request may commit in between. `finishing` is the tail
of `VerifyCatalog` after its commit, which writes `complete.json` and may leave
it torn (`FinishTorn`). A manifest binds the exported bytes by
digest, so the model lets it hold the records. A stop ends every running call
and leaves store, scratch and cloud as they are. `Sign`, `Activate` and
`RequestAbort` are external parties.

`AuditRecords` and `AuditOperations` translate `auditLifecycleTx` into a
predicate, checked on every state the live calls reach. The audit does refuse
some of these states, for one of two reasons: a tombstone whose range lies past
the head, and a body of a foreign source environment. `AuditFailureExplained`
says that there is no other: it holds all conditions but these two, the range
condition for pending and completed operations included. `ProtectedHighWater` is the `protected_high_water` that `Worker`
reports: the largest frontier in the catalog.

### BillingCompaction

All domain data is one log of writes. A database is its log, its compaction
meta keys and its mutation journal, which is keyed by the generation of the
write-set as the bucket is (an entry put twice replaces the first); its commits
are durable. The session's own meta update is the first journalled write-set
(`SessionStarted`). The directory is a sequence of states, the
durable one first, the visible one last: an operation on it appends a state, a
sync drops all but the last, a crash leaves any one of them (directory
operations survive as a prefix in their order; this is an assumption about the
file system). `pc` names the next step of `CompactOnline`; an error sends it
into the deferred cleanup, which is modelled step by step.

### BillingRecovery

There is one installed store, the original or a copy of a backup; a write is a
number never used before, so a log tells its own records from those another
life of the store gave the same sequences. `InsertEvent`, `VerifyCatalog`,
`ApplyRetirement` and `Capture` are what these calls do to the state recovery
looks at; `BillingInbox` and `BillingLifecycle` have them in detail. `phase` is
the place in `PrepareBillingSnapshotRecovery` between two durable effects;
`PrepareError` leaves any effect of the step it interrupts. `unsynced` says that
a power loss may still drop the files named by `Survivors`. `AdmitRecovery` is
split at its check of the clock, its commit and its return. The custodian reads
the fenced state, knows the real allocation frontier from outside (the approval
has a field for it) and has a clock that may run ahead. `Restart` is the
operator's way out when an ambiguous commit has lifted the fence and the process
still refuses.

### Forwarder

Lines are numbers; a batch is an interval. Requests are removed from the front
event by event (`Ingest`), so a request that lost its client (`orphans`)
overlaps with later ones. `SaveTruncate` and `SaveWrite` are the two effects of
`os.WriteFile` on the cursor file. `Age` moves the relative window that applies
without a cursor. A line in `Poison` does not parse and fails its batch.
`pushable` says whether the base URL the running backend was started with makes a
request; `NewLokiEventStore` only asks that it is not empty. Where it does not,
`InsertUnsent` answers each event "rejected" and keeps its id. (The other error
before the request, `json.Marshal`, does not occur for what the forwarder sends:
these events came out of its own `json.Marshal`.)
External assumption: `docker logs --tail` hands out the newest lines, and
`journalctl -n` the oldest, both after a cursor and, without one, of the window
that `--since` opens. A `journalctl` whose `-n` means the newest lines of the
`--since` window would skip the older ones when the cursor is empty, as the
container source does; `CursorAcknowledged` and `EventuallyAnswered` would then
fail.

### LogStore

An event is an entry of `Catalogue`: time, label set, one field that is
post-filtered, and whether it claims to be billing usage (fully, half, or not).
`InsertEvent` holds its mutex from the duplicate check to the reply, so each of
its outcomes is one step. `Unsendable` are the events of which no push request
can be made: those that `json.Marshal` refuses, or all of them where the base URL
is no URL. `IngestUnsent` keeps their ids, so that they are answered "duplicate"
later and never stored; `AnswerComplete` is about the others. Queries read one state and have no step: the
properties quantify over every query and every set of candidates Loki may
return. External assumptions: Loki applies no window where a bound is absent,
returns the newest entries up to the limit, and its window may or may not
include its end (the properties hold for both). `Visible` is the answer without
billing usage, each event at its place in the store's answer: the code copies
what remains in order, and no property depends on the places it closes up.
`IsAnswer` states what
`MemoryEventStore` returns without the way it is computed.

## 3. Runs

| run | bounds | shows |
| --- | --- | --- |
| `inbox` | 4 ids, 2 contents, 2 hosts, 3 sequences, 1 fault | safety of the inbox |
| `inbox_live` | 3 ids, 3 sequences, pages and batches of 1, 2 faults | migration ends, the collector catches up |
| `lifecycle` | 1 record, 2 sequences, 1 set, 1 operation, 2 rival plans, 1 fault, no ageing | a record from insertion to retirement and rehydration: archived before deletion, refinement of the ledger, a capture settles, aborts resolve |
| `capture` | 2 records, 2 sets, 1 fault | the sets of several captures, with a failure at any stage; what `Worker` reports as protected is archived |
| `retirement` | 2 records, 2 operations, 3 plans, pages of 2, cache of 1, clock to 2, retention 1 | concurrent plans, applies and aborts, cache and collector, ageing, from an archived store with 0, 1 or 2 legacy records |
| `compaction` | 2 generations, 3 writes, journal of 2, 2 faults | two compactions with any two errors or crashes |
| `recovery` | 2 writes, 1 backup, 2 losses, 1 fault, clock to 2, custodian ahead by 0 or 2 | restores one after the other, with any one failure: fence, sequences, opening, and the return into service |
| `forwarder` | 4 lines, batches of 2, spool of 1, 3 faults, either kind of Loki URL | the journald forwarder, safety and liveness |
| `logstore` | 6 events, 2 streams, candidates 3, limits 1 and 2, 1 fault | every query of every reachable store against the reference answer |
| `abort_race`, `compaction_bootstrap`, `forwarder_rejected` | small | statements of the repository that the code does not keep (section 6) |

Why the bounds are enough. Inbox: three sequences allow two legacy records, a
migration that stops between them and an insert at that point; a fourth id is
left when they have run out; two contents make a conflict, two hosts a retry
with other metadata, pages of 1 and 2 a walk that ends inside or at its
horizon; a second fault adds nothing to safety because a restart forgets the
first. The live run has three sequences so that a migration batch and a page
end before, at and after the head. Lifecycle: one record is enough for the
order of archive, verification and deletion; time stands still in it because
ageing is the subject of `retirement`; of the two plans one ends past the only
record: Logger never records it as a plan, but the authority may hold it, activated
or aborted, while Logger has recorded the other one. Retirement: two records and
two operations are needed for one operation to move the floor under the plan of the
other; three plans allow a conflicting plan under one operation id. Its initial
states are the ones that `LifecycleSpec` reaches when the store is full and set
`s1` holds all of it. Compaction: the second generation meets what the first
left; three writes overflow a journal of two, and a replay batch of one and a
gate lag of one make both the batches and the gate replay something. Recovery:
two writes put one before and one after the backup, so a restored copy may be
complete or short, and the second write may be an insert, a retirement or a
catalog entry; a second loss meets what the first recovery left, approvals
included; a clock of 2 and a life of 2 let an approval be fresh, at its last
moment and expired, and a lead of 2 exceeds the tolerated 1. Forwarder: four
lines and batches of two allow a second batch behind an unanswered first one; a
third fault allows a failed send, a failed retry and a crash; a restart may also
correct the Loki URL or break it. Log store: a stream with a late event and
another stream with the same time give moved push times and ties; an event that
cannot be pushed moves the push time of its stream; one fault is enough to push
an event twice, by a failure with effect or by a restart, and then the others
exceed the candidates.

`compaction` and `recovery` turn deadlock checking off: bounded writes,
generations, losses and faults run out. The other systems never stop.

### Fairness

- Inbox: the collector polls, `Migrate` is repeated until it reports version 2
  (its callers do), a stopped or fenced process is restarted by its supervisor,
  a restored store is admitted. Weak fairness is enough: each stays possible
  until it is done. Producers owe nothing.
- Lifecycle: `RunBackupWorker` wakes up on a ticker, so a capture starts again
  after any error; strong fairness of its visit and upload steps says that an
  upload that is retried for ever does not fail for ever. Verifier and the
  controllers of the authority retry. Restart as above.
- Recovery: the controller goes on with a staging and replaces one that failed,
  the supervisor starts the service with the flag it had, the custodian reads,
  signs and submits again, requests end, time passes. These are steps of
  operators and of processes that retry, hence weak fairness. Only `Restart` of
  a service that reports an unfenced store and refuses requests is strongly
  fair: stops of the process interrupt that state.
- Forwarder: the loop timer of the command (weak fairness of the steps of a
  cycle), the restart by the service manager, and a backend that answers a
  request that nobody cuts off. Failures are bounded by `MaxFaults`.

## 4. What is proved

For every value of the constants that satisfies the named assumptions:

`BillingInboxProofs` proves `InboxSpec => []IInv` and from it `TypeOK`,
`ExactlyOnce`, `AckedDurable`, `CollectedPrefix`, `BytesPreserved`,
`ReceiptsComplete` with `ReceiptAgeSafe`, and the action properties
`PermanentReceipts`, `NeverFencesItself` and `FencedFrozen`. None of these is
inductive alone. `IInv` adds the shape of the log (`LogShape`), that index and
log determine each other, with a raw key outside and a binding inside the
migrated region (`IndexMatchesLog`), the order of the migration frontier
(`Frontier`), the contents of the receipt buckets (`ReceiptsMatchLog`), that
times lie in the past (`Clock`), that a cursor lies between 0 and the head
(`CursorAccepted`) and that an open process knows of its durable fence
(`FenceKnown`). The proof has one lemma per action; those about `Page` rest on
a lemma that says which bodies a page finds. Assumptions: `BoundsAssumption`
(positive bounds) and `SentinelAssumption` (the marks for "nothing there" are
not values).

`BillingRecoveryProofs` proves `RecoveryTypeOK`, `ServesOnlyAdmitted`,
`NoReallocation` and `PreparedOpens`, each from one inductive invariant
`RecoveryInv` that the module states. `FenceFollows` says that a store that is
not admitted has its fence up once it can be started without the recovery flag.
`ApprovalFollows` says that an approval of the current epoch was signed for a
store that has not served since, so its frontier is still the length of all that
was given out; `LogFollows` that while nothing was replayed each copy is a
beginning of that, so a copy whose head equals the frontier is all of it.
`FilesFollow` ties the manifest to the generation, `PhaseFollows` keeps staging
and service apart. The only assumption is `RecoveryBounds`.

`ForwarderProofs` proves `ForwarderInv`, `CursorAcknowledged`,
`SpoolExpendable` and `DuplicateIsStored` for a source that hands out the oldest
lines first (`Docker = FALSE`); `DuplicateIsStored` for a backend whose Loki URL
makes a request. The strengthening says that a batch is in hand only with an
empty spool, starts right behind what is answered for, and that what a request
has left behind is answered for. With it the spool never holds more than one
batch, which is why losing it is harmless.

`BillingLifecycleProofs` proves `LifecycleSpec => []LifecycleInv`, and with it
`LifecycleTypeOK` and that `IInv` of the inbox survives everything the lifecycle
does to its buckets. `LifecycleInv` is `IInv`, the types, `StoreExact` (nothing
beyond the frontiers), `CaptureInv` and `RetireInv`. `CaptureInv` follows a
`Capture` through its stages: the list a scan walks is current but for a
verification that came in between (`ScanCurrent`), what the worker holds is the
export of the range right behind `captured_through` (`CaptureCurrent`), sealed
manifests are true exports (`SealedFaithful`), a pending set holds the newest
range (`PendingIsNewest`), and the catalog has the manifests of the verified sets,
which are signed and in the bucket (`CatalogSound`). `RetireInv` says that the
floor lies in catalog entries and is tiled by completed operations, that an
operation has a valid plan and a completed one the plan of the authority, that an
apply in flight was checked against that plan (`InflightSound`, which makes the
old answer of the authority harmless), that an abort in flight, or done, is one
that the authority wants (`AbortsWanted`), that pending and completed operations
end at or below the head (`RangesCommitted`), and that the cache total counts the
cached bodies.

`BillingLifecycleTheorems` takes from it `RetiredIsArchived`, `ProtectedIsArchived`,
`OnePendingSet`, `CapturesPartition`, `SealedResumable`, `DecisionsAuthorized`,
`AuditFailureExplained`, the action properties `RetiredAged`, `TerminalForever` and
`NeverFencesItself`, and the refinement `RefinesLedger`: a step of inbox or
lifecycle is, under the mapping of `BillingLifecycle`, a step of `BillingLedger`
or leaves the ledger alone. `ProtectedIsArchived` needs that only the largest
frontier in the catalog is reported: a record below it is in some exported set by
`CapturesPartition`, and that set is not a pending one because a pending set lies
behind all verified ones. Assumption, besides those of the inbox:
`LifecycleAssumption`.

`BillingCompactionProofs` proves `CompactionSpec => []CompactionInv` and from it
`CompactionTypeOK`, `ServesEveryWrite`, `RecoversEveryWrite`, `CatchUpComplete`,
`PlaintextOwned` and the action property `ShadowsKeepOwner`. `CompactionInv` has
one conjunct for each thing the run relies on: writes are numbered as they commit
(`LogNumbered`), generation ids are drawn once (`DrawnOnce`), what the locals and
the directory say at each `pc` (`RunSound`, `FileSound`, `ManifestSound`,
`ReclaimSound`, `ScratchSound`). Two carry the weight. `JournalSound`: while the
session lasts the journal has, without a gap, just the writes that snapshot and
replay do not have; once it has ended early the gate finds a gap.
`RecoverSound`: every state of the directory that a crash may leave opens on a
database with all writes, and names another one than the open generation only
when no further write is accepted. Assumption: `CompactionAssumption` (the mark
`None` is neither a generation nor a manifest, the bounds are naturals).

`LogStoreProofs` proves `LogStoreSpec => []LogStoreInv` and from it
`LogStoreTypeOK`, `AnswerSound`, `AnswerComplete` and `BillingIsolated`. The
invariant of the state is small: an entry of Loki is never pushed before the time
of its event, and what was acknowledged is stored unless it cannot be pushed. The weight is in the
operators. `applyQueryOrderAndLimit` finds the k-th event as the one with k - 1
predecessors; ranks are below the number of events and a predecessor has the
lower rank, hence ranks map the events one to one into as many numbers, and no
number is left out (`RankTaken`). So the answer is defined at every place, sorted
and without repetition, and what it leaves out ranks behind its end
(`OrderAndLimitAnswers`, for every finite set of events). `WantedAreFetched` says
that no event asked for is lost before that. Assumption: `LogStoreAssumption`
(ids and times are numbers, time 0 is no time, an earlier writer left finitely
many entries).

Only model-checked: all liveness (`MigrationCompletes`, `CollectorCatchesUp`,
`CaptureSettles`, `AbortResolves`, `RecoveryCompletes`, `EventuallyAnswered`), as
TLAPS has no rules for fairness. `ForwarderProofs` covers the journald source
only; for the container source the corresponding statements are false where
`--tail` skips lines (section 6). What a finding disputes (`AbortIsBound`,
`DurablePointerFirst`, `AtLeastOnce`) has its counterexample by TLC.

## 5. Hazards

`PROJECT.json` lists them with the property that would notice each. A few have
no property: a torn `complete.json` (its state is in the model), a record longer
than a part, a foreign source environment that stops all captures, an old
generation that a crash leaves behind, a session that cannot be removed, and
container lines that `--tail` skips. The notes say why.

## 6. Where the code and its documents differ

With a run:

- `abort_race`: a plan stored between the two parts of an abort is aborted
  although the authority was asked about another plan.
- `compaction_bootstrap`: a bootstrap whose directory sync failed is not synced
  by the retry, which marks the anchor all the same. `RecoversEveryWrite`
  leaves this one directory state out.
- `forwarder_rejected`: a 202 with rejected events counts as acknowledgement of
  all of them; so `CursorAcknowledged` is about answers, not about storage. The
  run uses the container source; journald is no different here.

Seen while modelling, without a run:

- `docs/billing-lifecycle.md:87` says the plaintext snapshot is removed after
  sealing. A crash or error between the seal and `os.Remove`
  (`billing_backup.go:427`) is resumed at the upload; the snapshot stays until
  the verified set is cleaned.
- `docs/billing-lifecycle.md:150` says the previous generation is unlinked once
  its readers drain. After a crash between publication and unlink nothing names
  it any more (`billing_compaction.go:766`).
- With an empty cursor file (before the first acknowledgement, or after a crash
  inside `os.WriteFile`) lines older than `initial-since` are not read;
  `CursorAcknowledged` is about the lines of that window.
- `docs/billing-lifecycle.md:138` and `:217` let an abort store a tombstone for
  an unknown plan. Its range may lie past the head, and the audit refuses a
  store that has one (`billing_audit.go:216`); `AuditFailureExplained` says that
  only a tombstone has such a range.
- The comment at `billing_lifecycle.go:706` says that stopping payload deletion
  must not strand a fence of the authority. A plan recorded under the operation
  id that differs from the one the authority holds does strand it: apply is
  refused for want of authority, abort as a conflict (`billing_lifecycle.go:716`),
  every time. `AbortResolves` leaves this case out.
- Where no push request can be made, `InsertEvent` returns an error and leaves
  the id in `seen` (`loki_store.go:80-83`, `94-97`), unlike the failed push below
  it: with a base URL such as `127.0.0.1:3100`, which `NewLokiEventStore` takes,
  every event is rejected once and a duplicate from then on, and none is stored.
  `DuplicateIsStored` and `AnswerComplete` leave this case out.
- A crash while `complete.json` is written leaves a torn file, which each later
  attempt takes for a mismatch (`billing_backup.go:552`): the entry is in the
  catalog, the file never reaches the bucket. Nothing else depends on it.
- Parts may be configured down to 1 MiB, which is also the largest event, and
  the export line of an event is longer than the event: such a record fails
  each capture (`billing_backup.go:381`).
- `docs/central_logging_architecture.md:80` has the cursor pass acknowledged
  lines only. `docker logs --tail` hands out the newest lines
  (`docker_logs.go:43`), so when more arrive than a batch holds, it passes the
  older ones unread.
- An approval has no nonce (`billingarchive/recovery.go:38`). After an admission
  and a second restore of the same backup it lifts the fence again while it is
  valid, though the store lacks what was written since. `NoReallocation` leaves
  this case out (`replayed`).
- When the commit of `AdmitRecovery` reports an error and took effect, the
  service refuses requests until it is restarted, and a retry is a conflict.
- `docs/openapi.yaml:520` calls `until` inclusive. The window of the Loki query
  is over push times, so a matching event whose push time was moved to or past
  `until` is missing; `AnswerComplete` says so. One event with a time far in the
  future moves all later ones of its stream until a restart.
- `docs/spec.md:380` has filters applied before the limit. The candidate limit
  of 5000 comes before the post-filter (`loki_store.go:130`). The query route
  hides historical billing usage after the limit, so a page can be short.

## 7. Plan

Done, in this order: inbox, its proofs; ledger and lifecycle; forwarder, its
proofs; compaction; recovery, its proofs; log store; the proofs of lifecycle,
compaction and log store, and the refinement of the ledger.

Next:

1. The parts of `ForwarderInv` that do not depend on the source (status, cursor
   file, what the backend has stored), proved for the container source as well.
2. The split of an export into parts with its capacity check, as operators
   against a reference definition.
