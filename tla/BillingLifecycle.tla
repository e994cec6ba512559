-------------------------- MODULE BillingLifecycle --------------------------
(***************************************************************************)
(* The raw-data lifecycle of the billing inbox: backup sets captured,      *)
(* uploaded and verified; retirement of archived records under the live    *)
(* decision of the Billing authority; rehydration of retired records.      *)
(*                                                                         *)
(* One Capture runs at a time (captureMu); its steps interleave with every *)
(* request, and a crash can fall between any two of them.  A manifest      *)
(* binds the exported records by digest, so it is modelled as holding      *)
(* them.  The object store, the off-cluster verifier and the Billing       *)
(* authority are external.                                                 *)
(***************************************************************************)
EXTENDS BillingInbox, FiniteSets

CONSTANTS
    Sets,            \* backup set ids
    Ops,             \* retirement operation ids
    Plans,           \* the plans that are ever sent: [from, through, set]
    Retention,       \* minimum age of a retired receipt (90 days or more)
    MaxRange,        \* receipts of one retirement (1000)
    CacheMax,        \* archive cache budget (in records; bytes in the code)
    RehydrateBatch,  \* records of one Rehydrate call (1000)
    EvictBatch,      \* records of one EvictCache call (1000)
    SourceContents,  \* contents from an allowed source environment
    NoSet, NoManifest, NoPlan

ExportRecord == [record : Record, at : 0..MaxTime]

Manifest == [from : 0..MaxSequence, through : 0..MaxSequence,
             high : 0..MaxSequence, created : 0..MaxTime,
             records : [Seqs -> ExportRecord \cup {NoBody}]]

Plan == [from : Seqs, through : Seqs, set : Sets]

ASSUME LifecycleAssumption ==
    /\ Plans \subseteq Plan
    /\ Retention \in Nat
    /\ MaxRange \in Nat \ {0}
    /\ CacheMax \in Nat
    /\ RehydrateBatch \in Nat \ {0}
    /\ EvictBatch \in Nat \ {0}
    /\ SourceContents \subseteq Contents
    /\ NoSet \notin Sets
    /\ NoManifest \notin Manifest
    /\ NoPlan \notin Plan
    /\ NoBody \notin ExportRecord

VARIABLES
    captures,        \* bucket captures: status and manifest of each set
    capturedThrough, \* meta/captured_through
    catalog,         \* bucket catalog: the verified manifests
    operations,      \* bucket operations
    cacheBytes,      \* meta/cache_bytes
    scratch,         \* the generated files in each set's scratch directory
    cloud,           \* the objects of each set in the object store
    signed,          \* sets with a completion signed by the verifier
    authority,       \* the operations of the Billing authority
    worker,          \* the running Capture
    finishing,       \* the part of VerifyCatalog after its transaction
    inflight         \* Apply and Abort requests past their authority check

lifeStoreVars == <<captures, capturedThrough, catalog, operations, cacheBytes>>
externalVars == <<scratch, cloud, signed, authority>>
callVars == <<worker, finishing, inflight>>
lifeVars == <<lifeStoreVars, externalVars, callVars>>

inboxRest == <<procVars, now, collectorVars, historyVars>>

Idle == [stage |-> "idle", set |-> NoSet, list |-> [s \in Sets |-> "none"],
         todo |-> {}, manifest |-> NoManifest]

LifecycleInit ==
    /\ Init
    /\ captures = [s \in Sets |-> [status |-> "none", manifest |-> NoManifest]]
    /\ capturedThrough = 0
    /\ catalog = [s \in Sets |-> NoManifest]
    /\ operations = [o \in Ops |-> [plan |-> NoPlan, status |-> "none", retired |-> 0]]
    /\ cacheBytes = 0
    /\ scratch = [s \in Sets |-> {}]
    /\ cloud = [s \in Sets |-> {}]
    /\ signed = {}
    /\ authority = [o \in Ops |-> [plan |-> NoPlan, status |-> "none"]]
    /\ worker = Idle
    /\ finishing = [s \in Sets |-> "none"]
    /\ inflight = {}

\* The write gateway is open (updateLocked).
Writable == up /\ ~failed

\* ready: no durable fence, and migrated.
Ready == ~recoveryFence /\ version = "2"

Larger(a, b) == IF a >= b THEN a ELSE b

-----------------------------------------------------------------------------
(***************************************************************************)
(* Capture.                                                                *)
(***************************************************************************)

\* The list of sets is read once, at the start.
CaptureScan ==
    /\ worker.stage = "idle"
    /\ Healthy
    /\ version # "1"
    /\ worker' = [Idle EXCEPT !.stage = "scan",
                              !.list = [s \in Sets |-> captures[s].status],
                              !.todo = {s \in Sets : captures[s].status # "none"}]
    /\ UNCHANGED <<storeVars, inboxRest, lifeStoreVars, externalVars,
                   finishing, inflight>>

\* cleanupScratch keeps the small metadata of a verified set; "torn" is a
\* complete.json that was only partly written.
Kept == {"manifest", "complete", "torn"}

\* Mutant: an uploaded set does not hold up the next one.
VisitUploadedSkips(s) ==
    /\ worker.list[s] = "uploaded"
    /\ worker' = [worker EXCEPT !.todo = @ \ {s}]
    /\ UNCHANGED <<captures, scratch>>

\* An unverified set ends the scan.
VisitUploaded(s) ==
    /\ worker.list[s] = "uploaded"
    /\ worker' = Idle
    /\ UNCHANGED <<captures, scratch>>

\* Mutant: a sealed set is not resumed.
VisitSealedGivesUp(s) ==
    /\ worker.list[s] = "sealed"
    /\ worker' = Idle
    /\ UNCHANGED <<captures, scratch>>

\* A sealed set is resumed.
VisitSealed(s) ==
    /\ worker.list[s] = "sealed"
    /\ worker' = [Idle EXCEPT !.stage = "upload", !.set = s,
                              !.manifest = captures[s].manifest]
    /\ UNCHANGED <<captures, scratch>>

\* An interrupted set is abandoned for good, then cleaned like one.
VisitCapturing(s) ==
    /\ worker.list[s] = "capturing"
    /\ Writable
    /\ captures' = [captures EXCEPT ![s].status = "abandoned"]
    /\ worker' = [worker EXCEPT !.list[s] = "abandoned"]
    /\ UNCHANGED scratch

\* Mutant: VerifyCatalog is trusted to have cleaned a verified set.
VisitFinishedTrusts(s) ==
    /\ worker.list[s] \in {"abandoned", "verified"}
    /\ scratch' = [scratch EXCEPT ![s] = IF worker.list[s] = "abandoned" THEN {} ELSE @]
    /\ worker' = [worker EXCEPT !.todo = @ \ {s}]
    /\ UNCHANGED captures

\* An abandoned or verified set is cleaned, again and again.
VisitFinished(s) ==
    /\ worker.list[s] \in {"abandoned", "verified"}
    /\ scratch' = [scratch EXCEPT ![s] = IF worker.list[s] = "abandoned" THEN {}
                                         ELSE @ \cap Kept]
    /\ worker' = [worker EXCEPT !.todo = @ \ {s}]
    /\ UNCHANGED captures

\* One set of the list, as it was read.
CaptureVisit(s) ==
    /\ up
    /\ worker.stage = "scan"
    /\ s \in worker.todo
    /\ VisitUploaded(s) \/ VisitSealed(s) \/ VisitCapturing(s) \/ VisitFinished(s)
    /\ UNCHANGED <<storeVars, inboxRest, capturedThrough, catalog, operations,
                   cacheBytes, cloud, signed, authority, finishing, inflight>>

\* A fresh random set id.
CaptureBegin(s) ==
    /\ worker.stage = "scan"
    /\ worker.todo = {}
    /\ Writable
    /\ captures[s].status = "none"
    /\ captures' = [captures EXCEPT ![s].status = "capturing"]
    /\ worker' = [Idle EXCEPT !.stage = "begun", !.set = s]
    /\ UNCHANGED <<storeVars, inboxRest, capturedThrough, catalog, operations,
                   cacheBytes, externalVars, finishing, inflight>>

\* The first sequence to export: after what was captured or retired; 0 when
\* there is nothing new.
ExportFrom ==
    LET next == Larger(capturedThrough, archiveFloor) + 1
    IN  IF next > head THEN 0 ELSE next

\* The snapshot transaction fixes frontier, range and exported bytes.
CaptureSnapshot ==
    LET from == ExportFrom IN
    /\ worker.stage = "begun"
    /\ up
    /\ Ready
    /\ worker' = [worker EXCEPT
          !.stage = "snapshot",
          !.manifest = [from |-> from,
                        through |-> IF from = 0 THEN 0 ELSE head,
                        high |-> head,
                        created |-> now,
                        records |-> [k \in Seqs |->
                            IF from # 0 /\ k \in from..head
                            THEN IF events[k] = NoBody THEN NoBody
                                 ELSE [record |-> events[k], at |-> ReceiptTime(k)]
                            ELSE NoBody]]]
    /\ scratch' = [scratch EXCEPT ![worker.set] = @ \cup {"snapshot"}]
    /\ UNCHANGED <<storeVars, inboxRest, lifeStoreVars, cloud, signed,
                   authority, finishing, inflight>>

\* The checks of the export loop on one record of the snapshot.
Exportable(m, k) ==
    LET x == m.records[k] IN
    /\ x # NoBody
    /\ x.record.sequence = k
    /\ x.record.event.content \in SourceContents
    /\ x.at <= m.created

\* Parts and manifest are sealed into the scratch directory.
CaptureExport ==
    LET m == worker.manifest IN
    /\ up
    /\ worker.stage = "snapshot"
    /\ m.from # 0 => \A k \in m.from..m.through : Exportable(m, k)
    /\ scratch' = [scratch EXCEPT ![worker.set] = @ \cup {"parts", "manifest"}]
    /\ worker' = [worker EXCEPT !.stage = "exported"]
    /\ UNCHANGED <<storeVars, inboxRest, lifeStoreVars, cloud, signed,
                   authority, finishing, inflight>>

\* Mutant: the frontier is taken from the live store, not from the snapshot.
CaptureSealLiveHead ==
    /\ worker.stage = "exported"
    /\ Writable
    /\ captures' = [captures EXCEPT ![worker.set] =
                       [status |-> "sealed", manifest |-> worker.manifest]]
    /\ capturedThrough' = head
    /\ worker' = [worker EXCEPT !.stage = "sealed"]
    /\ UNCHANGED <<storeVars, inboxRest, catalog, operations, cacheBytes,
                   externalVars, finishing, inflight>>

\* The seal: set and captured_through in one transaction.
CaptureSeal ==
    /\ worker.stage = "exported"
    /\ Writable
    /\ captures' = [captures EXCEPT ![worker.set] =
                       [status |-> "sealed", manifest |-> worker.manifest]]
    /\ capturedThrough' = worker.manifest.high
    /\ worker' = [worker EXCEPT !.stage = "sealed"]
    /\ UNCHANGED <<storeVars, inboxRest, catalog, operations, cacheBytes,
                   externalVars, finishing, inflight>>

\* Mutant: the whole scratch directory is removed.
CaptureRemoveAll ==
    /\ up
    /\ worker.stage = "sealed"
    /\ scratch' = [scratch EXCEPT ![worker.set] = {}]
    /\ worker' = [worker EXCEPT !.stage = "upload"]
    /\ UNCHANGED <<storeVars, inboxRest, lifeStoreVars, cloud, signed,
                   authority, finishing, inflight>>

\* The plaintext snapshot is removed after the seal.
CaptureRemoveSnapshot ==
    /\ up
    /\ worker.stage = "sealed"
    /\ scratch' = [scratch EXCEPT ![worker.set] = @ \ {"snapshot"}]
    /\ worker' = [worker EXCEPT !.stage = "upload"]
    /\ UNCHANGED <<storeVars, inboxRest, lifeStoreVars, cloud, signed,
                   authority, finishing, inflight>>

\* uploadCapture: parts, then the manifest.  PutImmutable reads the sealed
\* file and is idempotent.
UploadObject(stage, object, next) ==
    /\ up
    /\ worker.stage = stage
    /\ object \in scratch[worker.set]
    /\ cloud' = [cloud EXCEPT ![worker.set] = @ \cup {object}]
    /\ worker' = [worker EXCEPT !.stage = next]
    /\ UNCHANGED <<storeVars, inboxRest, lifeStoreVars, scratch, signed,
                   authority, finishing, inflight>>

UploadParts == UploadObject("upload", "parts", "manifest")
UploadManifest == UploadObject("manifest", "manifest", "save")

\* uploadCapture, last: the status it read, written back as uploaded.
UploadSave ==
    /\ worker.stage = "save"
    /\ Writable
    /\ captures' = [captures EXCEPT ![worker.set] =
                       [status |-> "uploaded", manifest |-> worker.manifest]]
    /\ worker' = Idle
    /\ UNCHANGED <<storeVars, inboxRest, capturedThrough, catalog, operations,
                   cacheBytes, externalVars, finishing, inflight>>

\* Any error, or a cancelled context, ends the call and leaves the rest.
CaptureFail ==
    /\ worker.stage # "idle"
    /\ worker' = Idle
    /\ UNCHANGED <<storeVars, inboxRest, lifeStoreVars, externalVars,
                   finishing, inflight>>

CaptureNext ==
    \/ CaptureScan
    \/ \E s \in Sets : CaptureVisit(s) \/ CaptureBegin(s)
    \/ CaptureSnapshot
    \/ CaptureExport
    \/ CaptureSeal
    \/ CaptureRemoveSnapshot
    \/ UploadParts
    \/ UploadManifest
    \/ UploadSave
    \/ CaptureFail

-----------------------------------------------------------------------------
(***************************************************************************)
(* VerifyCatalog.                                                          *)
(***************************************************************************)

\* External: the off-cluster verifier signs what it read back from the
\* object store.
Sign(s) ==
    /\ {"parts", "manifest"} \subseteq cloud[s]
    /\ signed' = signed \cup {s}
    /\ UNCHANGED <<storeVars, inboxRest, lifeStoreVars, scratch, cloud,
                   authority, callVars>>

\* VerifyCompletion: a trusted key signed exactly this set's manifest.
VerifyCompletion(s) == s \in signed

\* The transaction: catalog entry and status together, once.
VerifyCatalog(s) ==
    /\ Writable
    /\ Ready
    /\ finishing[s] = "none"
    /\ VerifyCompletion(s)
    /\ \/ /\ captures[s].status = "uploaded"
          /\ catalog' = [catalog EXCEPT ![s] = captures[s].manifest]
          /\ captures' = [captures EXCEPT ![s].status = "verified"]
       \/ /\ captures[s].status = "verified"
          /\ catalog[s] = captures[s].manifest
          /\ UNCHANGED <<captures, catalog>>
    /\ finishing' = [finishing EXCEPT ![s] = "write"]
    /\ UNCHANGED <<storeVars, inboxRest, capturedThrough, operations,
                   cacheBytes, externalVars, worker, inflight>>

\* After the transaction: complete.json, unless there is one already, its
\* upload, the scratch cleanup.
CompleteExists(s) == scratch[s] \cap {"complete", "torn"} # {}

FinishWrite(s) ==
    /\ up
    /\ finishing[s] = "write"
    /\ scratch' = [scratch EXCEPT ![s] = IF CompleteExists(s) THEN @ ELSE @ \cup {"complete"}]
    /\ finishing' = [finishing EXCEPT ![s] = "put"]
    /\ UNCHANGED <<storeVars, inboxRest, lifeStoreVars, cloud, signed,
                   authority, worker, inflight>>

\* The call ends, by an error or a crash, with the file partly written.
FinishTorn(s) ==
    /\ up
    /\ finishing[s] = "write"
    /\ ~CompleteExists(s)
    /\ scratch' = [scratch EXCEPT ![s] = @ \cup {"torn"}]
    /\ finishing' = [finishing EXCEPT ![s] = "none"]
    /\ UNCHANGED <<storeVars, inboxRest, lifeStoreVars, cloud, signed,
                   authority, worker, inflight>>

\* PutImmutable refuses a file that is not the completion.
FinishPut(s) ==
    /\ up
    /\ finishing[s] = "put"
    /\ "complete" \in scratch[s]
    /\ cloud' = [cloud EXCEPT ![s] = @ \cup {"complete"}]
    /\ finishing' = [finishing EXCEPT ![s] = "clean"]
    /\ UNCHANGED <<storeVars, inboxRest, lifeStoreVars, scratch, signed,
                   authority, worker, inflight>>

FinishClean(s) ==
    /\ up
    /\ finishing[s] = "clean"
    /\ scratch' = [scratch EXCEPT ![s] = @ \cap Kept]
    /\ finishing' = [finishing EXCEPT ![s] = "none"]
    /\ UNCHANGED <<storeVars, inboxRest, lifeStoreVars, cloud, signed,
                   authority, worker, inflight>>

\* An error, a cancelled context or an uncertain upload ends the call.
FinishFail(s) ==
    /\ finishing[s] # "none"
    /\ finishing' = [finishing EXCEPT ![s] = "none"]
    /\ UNCHANGED <<storeVars, inboxRest, lifeStoreVars, externalVars,
                   worker, inflight>>

-----------------------------------------------------------------------------
(***************************************************************************)
(* Retirement.                                                             *)
(***************************************************************************)

\* External: the authority activates an operation over a signed set and may
\* ask for its abort.
Activate(o, p) ==
    /\ authority[o].status = "none"
    /\ p.set \in signed
    /\ authority' = [authority EXCEPT ![o] = [plan |-> p, status |-> "ACTIVE"]]
    /\ UNCHANGED <<storeVars, inboxRest, lifeStoreVars, scratch, cloud,
                   signed, callVars>>

RequestAbort(o) ==
    /\ authority[o].status = "ACTIVE"
    /\ authority' = [authority EXCEPT ![o].status = "ABORT_REQUESTED"]
    /\ UNCHANGED <<storeVars, inboxRest, lifeStoreVars, scratch, cloud,
                   signed, callVars>>

PlanValid(p) == p.from <= p.through /\ p.through - p.from < MaxRange

\* Mutant: any age will do.
CoveredTooYoung(p) ==
    LET m == catalog[p.set] IN
    /\ m # NoManifest
    /\ m.from <= p.from
    /\ m.through >= p.through
    /\ \A k \in p.from..p.through : events[k] # NoBody

\* Mutant: the set need not be in the catalog.
CoveredUnverified(p) ==
    \A k \in p.from..p.through :
        /\ receiptTimes[k] # NoTime
        /\ ReceiptTime(k) <= now - Retention
        /\ events[k] # NoBody

\* retirementCoverage: a verified set covers the range and every receipt is
\* old enough and bound to the hot bytes.
Covered(p) ==
    LET m == catalog[p.set] IN
    /\ m # NoManifest
    /\ m.from <= p.from
    /\ m.through >= p.through
    /\ \A k \in p.from..p.through :
          /\ receiptTimes[k] # NoTime
          /\ ReceiptTime(k) <= now - Retention
          /\ events[k] # NoBody
          /\ events[k].sequence = k
          /\ ids[events[k].event.id] = Binding(events[k])

\* A plan is recorded once; a repetition of it answers the stored status.
PlanRetirement(o, p) ==
    /\ Writable
    /\ Ready
    /\ PlanValid(p)
    /\ operations[o].status = "none"
    /\ p.from = archiveFloor + 1
    /\ p.through <= head
    /\ Covered(p)
    /\ operations' = [operations EXCEPT ![o] =
          [plan |-> p, status |-> "pending", retired |-> archiveFloor]]
    /\ UNCHANGED <<storeVars, inboxRest, captures, capturedThrough, catalog,
                   cacheBytes, externalVars, callVars>>

\* Mutant: only the status of the operation is compared.
AuthorizedByStatus(o, p, status) == authority[o].status = status

\* validateAuthority: the authority's live operation is the same one.
Authorized(o, p, status) == authority[o] = [plan |-> p, status |-> status]

\* ApplyRetirement up to the authority's answer.
ApplyCheck(o) ==
    /\ Healthy
    /\ operations[o].status = "pending"
    /\ Authorized(o, operations[o].plan, "ACTIVE")
    /\ inflight' = inflight \cup {[kind |-> "apply", op |-> o, st |-> operations[o]]}
    /\ UNCHANGED <<storeVars, inboxRest, lifeStoreVars, externalVars,
                   worker, finishing>>

\* Mutant: the operation is not read again under the lock.
ApplicableStale(r) ==
    /\ Writable
    /\ Ready
    /\ archiveFloor + 1 = r.st.plan.from
    /\ Covered(r.st.plan)

\* The transaction's own checks: nothing has moved since the answer.
Applicable(r) ==
    /\ Writable
    /\ Ready
    /\ operations[r.op] = r.st
    /\ archiveFloor + 1 = r.st.plan.from
    /\ Covered(r.st.plan)

\* Mutant: the floor does not move with the bodies.
RetireKeepsFloor(o, p) ==
    /\ events' = [k \in Seqs |-> IF k \in p.from..p.through THEN NoBody ELSE events[k]]
    /\ operations' = [operations EXCEPT ![o] =
          [plan |-> p, status |-> "completed", retired |-> p.through]]
    /\ UNCHANGED archiveFloor

\* Bodies, floor and terminal receipt.
Retire(o, p) ==
    /\ events' = [k \in Seqs |-> IF k \in p.from..p.through THEN NoBody ELSE events[k]]
    /\ archiveFloor' = p.through
    /\ operations' = [operations EXCEPT ![o] =
          [plan |-> p, status |-> "completed", retired |-> p.through]]

\* ApplyRetirement, the transaction: all of it or nothing.
ApplyCommit(r) ==
    /\ r.kind = "apply"
    /\ inflight' = inflight \ {r}
    /\ IF Applicable(r) THEN Retire(r.op, r.st.plan)
                        ELSE UNCHANGED <<events, archiveFloor, operations>>
    /\ UNCHANGED <<version, head, ids, receiptIds, receiptTimes, legacyThrough,
                   backfilledThrough, legacyAgeFloor, archiveCache,
                   recoveryFence, inboxRest, captures, capturedThrough,
                   catalog, cacheBytes, externalVars, worker, finishing>>

\* Mutant: an operation Logger has never seen cannot be aborted.
AbortableKnown(o, p) == operations[o].status = "pending" /\ operations[o].plan = p

\* An unknown operation, or the same plan, still pending.
Abortable(o, p) ==
    \/ operations[o].status = "none"
    \/ operations[o].status = "pending" /\ operations[o].plan = p

\* AbortRetirementPlan up to the authority's answer.
AbortCheck(o, p) ==
    /\ Healthy
    /\ PlanValid(p)
    /\ Abortable(o, p)
    /\ Authorized(o, p, "ABORT_REQUESTED")
    /\ inflight' = inflight \cup
          {[kind |-> "abort", op |-> o,
            st |-> [plan |-> p, status |-> "pending", retired |-> 0]]}
    /\ UNCHANGED <<storeVars, inboxRest, lifeStoreVars, externalVars,
                   worker, finishing>>

\* Mutant: the tombstone claims the range it was asked for.
TombstoneClaims(p) == [plan |-> p, status |-> "aborted", retired |-> p.through]

Tombstone(p) == [plan |-> p, status |-> "aborted", retired |-> archiveFloor]

\* AbortRetirementPlan, the transaction: the non-terminal operation it finds,
\* or the plan of the request, becomes the tombstone.
AbortCommit(r) ==
    LET live == operations[r.op] IN
    /\ r.kind = "abort"
    /\ inflight' = inflight \ {r}
    /\ IF Writable /\ Ready /\ live.status \in {"none", "pending"}
       THEN operations' = [operations EXCEPT ![r.op] =
               Tombstone(IF live.status = "none" THEN r.st.plan ELSE live.plan)]
       ELSE UNCHANGED operations
    /\ UNCHANGED <<storeVars, inboxRest, captures, capturedThrough, catalog,
                   cacheBytes, externalVars, worker, finishing>>

-----------------------------------------------------------------------------
(***************************************************************************)
(* The archive cache.                                                      *)
(***************************************************************************)

\* Mutant: the bytes are not compared with the receipt.
RehydratableUnbound(s, x) ==
    LET k == x.record.sequence IN
    /\ k \in catalog[s].from..catalog[s].through
    /\ k <= archiveFloor
    /\ x.at = ReceiptTime(k)

\* The records of a Rehydrate request, checked against the catalog entry,
\* the floor and the permanent receipts.
Rehydratable(s, x) ==
    LET k == x.record.sequence IN
    /\ k \in catalog[s].from..catalog[s].through
    /\ k <= archiveFloor
    /\ ids[x.record.event.id] = Binding(x.record)
    /\ x.at = ReceiptTime(k)

\* The cached sequences.
Cached == {k \in Seqs : archiveCache[k] # NoBody}

\* A request of consecutive records, all installed or none.
Rehydrate(s) ==
    /\ Writable
    /\ Ready
    /\ catalog[s] # NoManifest
    /\ \E lo \in Seqs : \E hi \in lo..Lesser(lo + RehydrateBatch - 1, MaxSequence) :
       \E batch \in [lo..hi -> ExportRecord] :
          /\ \A k \in lo..hi : batch[k].record.sequence = k /\ Rehydratable(s, batch[k])
          /\ Cardinality(Cached \cup (lo..hi)) <= CacheMax
          /\ archiveCache' = [k \in Seqs |-> IF k \in lo..hi THEN batch[k].record
                                                             ELSE archiveCache[k]]
          /\ cacheBytes' = cacheBytes + Cardinality((lo..hi) \ Cached)
    /\ UNCHANGED <<version, head, events, ids, receiptIds, receiptTimes,
                   legacyThrough, backfilledThrough, legacyAgeFloor,
                   archiveFloor, recoveryFence, inboxRest, captures,
                   capturedThrough, catalog, operations, externalVars, callVars>>

\* Mutant: the budget is released for bodies that were not cached.
EvictCacheUnderflows(through) ==
    /\ Writable
    /\ Ready
    /\ archiveCache' = [k \in Seqs |-> IF k <= through THEN NoBody ELSE archiveCache[k]]
    /\ cacheBytes' = cacheBytes - 1
    /\ UNCHANGED <<version, head, events, ids, receiptIds, receiptTimes,
                   legacyThrough, backfilledThrough, legacyAgeFloor,
                   archiveFloor, recoveryFence, inboxRest, captures,
                   capturedThrough, catalog, operations, externalVars, callVars>>

\* The lowest cached sequences up to `through`, at most EvictBatch of them.
EvictCache(through) ==
    LET victims == {k \in Cached : /\ k <= through
                                   /\ Cardinality(Cached \cap (1..k)) <= EvictBatch}
    IN
    /\ Writable
    /\ Ready
    /\ archiveCache' = [k \in Seqs |-> IF k \in victims THEN NoBody ELSE archiveCache[k]]
    /\ cacheBytes' = cacheBytes - Cardinality(victims)
    /\ UNCHANGED <<version, head, events, ids, receiptIds, receiptTimes,
                   legacyThrough, backfilledThrough, legacyAgeFloor,
                   archiveFloor, recoveryFence, inboxRest, captures,
                   capturedThrough, catalog, operations, externalVars, callVars>>

-----------------------------------------------------------------------------
\* The steps of the inbox, and a stop, which ends every running call.
InboxStep == InboxRun /\ UNCHANGED lifeVars

StopAll ==
    /\ Stop
    /\ worker' = Idle
    /\ finishing' = [s \in Sets |-> "none"]
    /\ inflight' = {}
    /\ UNCHANGED <<lifeStoreVars, externalVars>>

LifecycleNext ==
    \/ InboxStep
    \/ StopAll
    \/ CaptureNext
    \/ \E s \in Sets : \/ Sign(s)
                       \/ VerifyCatalog(s)
                       \/ FinishWrite(s)
                       \/ FinishTorn(s)
                       \/ FinishPut(s)
                       \/ FinishClean(s)
                       \/ FinishFail(s)
                       \/ Rehydrate(s)
    \/ \E o \in Ops, p \in Plans : \/ Activate(o, p)
                                   \/ PlanRetirement(o, p)
                                   \/ AbortCheck(o, p)
    \/ \E o \in Ops : RequestAbort(o) \/ ApplyCheck(o)
    \/ \E r \in inflight : ApplyCommit(r) \/ AbortCommit(r)
    \/ \E through \in Seqs : EvictCache(through)

lifecycleVars == <<vars, lifeVars>>

LifecycleSpec == LifecycleInit /\ [][LifecycleNext]_lifecycleVars

(***************************************************************************)
(* Fairness: the backup worker wakes up again and again and its calls end, *)
(* an upload that is tried forever succeeds, verifier and controllers keep *)
(* doing their part, and a stopped process is restarted and admitted.      *)
(***************************************************************************)
LifecycleFairness ==
    /\ WF_lifecycleVars(CaptureNext)
    /\ WF_lifecycleVars(CaptureScan)
    /\ \A s \in Sets : /\ SF_lifecycleVars(CaptureVisit(s))
                       /\ WF_lifecycleVars(Sign(s))
                       /\ WF_lifecycleVars(VerifyCatalog(s))
    /\ SF_lifecycleVars(UploadParts)
    /\ SF_lifecycleVars(UploadManifest)
    /\ SF_lifecycleVars(UploadSave)
    /\ \A o \in Ops, p \in Plans : WF_lifecycleVars(AbortCheck(o, p))
    /\ WF_lifecycleVars(\E r \in inflight : ApplyCommit(r) \/ AbortCommit(r))
    /\ WF_lifecycleVars(failed /\ StopAll)
    /\ WF_lifecycleVars(Open(FALSE) /\ UNCHANGED lifeVars)
    /\ WF_lifecycleVars(AdmitRecovery /\ UNCHANGED lifeVars)
    /\ WF_lifecycleVars(FinishAdmission /\ UNCHANGED lifeVars)
    /\ WF_lifecycleVars(Migrate(MigrateBatch) /\ UNCHANGED lifeVars)

FairLifecycleSpec == LifecycleSpec /\ LifecycleFairness

-----------------------------------------------------------------------------
(***************************************************************************)
(* Properties.                                                             *)
(***************************************************************************)

SetStatus == {"none", "capturing", "sealed", "uploaded", "verified", "abandoned"}

\* Buckets, files, objects and running calls have the types the code gives them.
LifecycleTypeOK ==
    /\ captures \in [Sets -> [status : SetStatus, manifest : Manifest \cup {NoManifest}]]
    /\ capturedThrough \in 0..MaxSequence
    /\ catalog \in [Sets -> Manifest \cup {NoManifest}]
    /\ operations \in [Ops -> [plan : Plans \cup {NoPlan},
                               status : {"none", "pending", "completed", "aborted"},
                               retired : 0..MaxSequence]]
    /\ cacheBytes \in 0..CacheMax
    /\ scratch \in [Sets -> SUBSET {"snapshot", "parts", "manifest", "complete", "torn"}]
    /\ cloud \in [Sets -> SUBSET {"parts", "manifest", "complete"}]
    /\ signed \subseteq Sets
    /\ authority \in [Ops -> [plan : Plans \cup {NoPlan},
                              status : {"none", "ACTIVE", "ABORT_REQUESTED"}]]
    /\ worker \in [stage : {"idle", "scan", "begun", "snapshot", "exported",
                            "sealed", "upload", "manifest", "save"},
                   set : Sets \cup {NoSet},
                   list : [Sets -> SetStatus],
                   todo : SUBSET Sets,
                   manifest : Manifest \cup {NoManifest}]
    /\ finishing \in [Sets -> {"none", "write", "put", "clean"}]
    /\ \A r \in inflight : /\ r.kind \in {"apply", "abort"}
                           /\ r.op \in Ops
                           /\ r.st.plan \in Plans

\* Nothing is deleted that cannot be brought back: a retired record is in the
\* object store, byte for byte with its receipt time, in a set an independent
\* verifier signed.
RetiredIsArchived ==
    \A k \in 1..archiveFloor : \E s \in signed :
        /\ {"parts", "manifest"} \subseteq cloud[s]
        /\ catalog[s] # NoManifest
        /\ catalog[s].records[k] = [record |-> log[k], at |-> ReceiptTime(k)]

\* Retirement honours the retention measured from the real commit, also for
\* legacy records and with an authority answer that is already old.
RetiredAged ==
    [][\A k \in Seqs : events[k] # NoBody /\ events'[k] = NoBody =>
          receivedAt[k] + Retention <= now]_lifecycleVars

\* A terminal decision is permanent: no late apply, abort, plan or retry
\* changes it.
TerminalForever ==
    [][\A o \in Ops : operations[o].status \in {"completed", "aborted"} =>
          operations'[o] = operations[o]]_lifecycleVars

\* A decision is backed by Billing however old its answer was at the commit:
\* bodies are deleted only for an operation that it has with exactly this plan,
\* and aborted is only one that it wants aborted.  (With which plan, is another
\* question: AbortIsBound.)
DecisionsAuthorized ==
    \A o \in Ops :
        /\ operations[o].status = "completed" => authority[o].plan = operations[o].plan
        /\ operations[o].status = "aborted" => authority[o].status = "ABORT_REQUESTED"

\* At most one set is pending, so captured ranges are never interleaved.
OnePendingSet ==
    \A s, t \in Sets :
        /\ captures[s].status \in {"capturing", "sealed", "uploaded"}
        /\ captures[t].status \in {"capturing", "sealed", "uploaded"}
        => s = t

Exports(s, k) ==
    /\ captures[s].status \in {"sealed", "uploaded", "verified"}
    /\ captures[s].manifest.records[k] # NoBody

\* No record is skipped or exported twice by the backups, whatever crashes
\* between snapshot and seal: the sealed sets split 1..captured_through.
CapturesPartition ==
    \A k \in Seqs :
        /\ k <= capturedThrough => \E s \in Sets : Exports(s, k)
        /\ \A s, t \in Sets : Exports(s, k) /\ Exports(t, k) => s = t
        /\ \A s \in Sets : Exports(s, k) => k <= capturedThrough

\* What Worker reports as protected: the largest frontier in the catalog.
ProtectedHighWater ==
    LET verified == {s \in Sets : catalog[s] # NoManifest /\ VerifyCompletion(s)}
    IN  IF verified = {} THEN 0
        ELSE (CHOOSE m \in {catalog[s] : s \in verified} :
                 \A s \in verified : catalog[s].high <= m.high).high

\* The status tells the truth: every record up to protected_high_water can be
\* restored from signed sets, although only the newest frontier is looked at.
ProtectedIsArchived ==
    \A k \in 1..ProtectedHighWater : \E s \in signed :
        /\ {"parts", "manifest"} \subseteq cloud[s]
        /\ catalog[s] # NoManifest
        /\ catalog[s].records[k] = [record |-> log[k], at |-> ReceiptTime(k)]

\* A sealed set can always be resumed byte for byte: its files stay until
\* the catalog has it.
SealedResumable ==
    \A s \in Sets : captures[s].status \in {"sealed", "uploaded"} =>
        {"parts", "manifest"} \subseteq scratch[s]

\* The operations completed in the past are the only reason for the floor.
FloorTiled ==
    LET done == {o \in Ops : operations[o].status = "completed"} IN
    /\ \A k \in 1..archiveFloor :
          \E o \in done : /\ k \in operations[o].plan.from..operations[o].plan.through
                          /\ \A q \in done \ {o} :
                                k \notin operations[q].plan.from..operations[q].plan.through
    /\ \A o \in done : operations[o].plan.through <= archiveFloor

\* auditLifecycleTx, the part that looks at receipts, bodies and catalog, but for
\* the source environment of a body.
AuditRecords ==
    /\ archiveFloor <= head
    /\ legacyThrough <= head
    /\ backfilledThrough = legacyThrough
    /\ legacyAgeFloor # NoTime
    /\ \A i \in Ids : ids[i] # NoReceipt =>
          /\ ids[i].form = "binding"
          /\ ids[i].seq \in 1..head
          /\ receiptIds[ids[i].seq] = i
    /\ Cardinality({i \in Ids : ids[i] # NoReceipt}) = head
    /\ \A k \in Seqs : /\ (receiptIds[k] # NoId) = (k <= head)
                       /\ (receiptTimes[k] # NoTime) = (k <= head)
    /\ \A k \in Seqs : /\ (events[k] # NoBody) = (k \in (archiveFloor + 1)..head)
                       /\ events[k] # NoBody =>
                             /\ events[k].sequence = k
                             /\ receiptIds[k] = events[k].event.id
                             /\ ids[receiptIds[k]] = Binding(events[k])
    /\ \A k \in 1..archiveFloor : \E s \in Sets :
          catalog[s] # NoManifest /\ k \in catalog[s].from..catalog[s].through
    /\ \A k \in Cached : /\ k <= archiveFloor
                         /\ archiveCache[k].sequence = k
                         /\ ids[archiveCache[k].event.id] = Binding(archiveCache[k])
    /\ cacheBytes = Cardinality(Cached)

\* auditLifecycleTx, the part that looks at the decision history, but for the end
\* of a range.
AuditOperations ==
    /\ \A o \in Ops : operations[o].status # "none" =>
          /\ PlanValid(operations[o].plan)
          /\ operations[o].status # "pending" => operations[o].retired <= archiveFloor
          /\ operations[o].status = "completed" =>
                operations[o].retired = operations[o].plan.through
    /\ FloorTiled

\* The audit that admits a snapshot or a compacted generation has two reasons
\* only to refuse a state that the live calls reach: a tombstone for a range past
\* the head, which is the one decision with such a range, and a body of a foreign
\* source environment.  Its other conditions hold, also beside such a tombstone.
AuditFailureExplained ==
    version = "2" =>
        /\ AuditRecords
        /\ AuditOperations
        /\ \A o \in Ops : operations[o].status \in {"pending", "completed"} =>
              operations[o].plan.through <= head

(***************************************************************************)
(* What the store and its archive hold together is the abstract ledger.    *)
(***************************************************************************)
ArchivedRecord(k) ==
    LET holders == {s \in Sets : catalog[s] # NoManifest /\ catalog[s].records[k] # NoBody}
    IN  IF holders = {} THEN NoBody
        ELSE catalog[CHOOSE s \in holders : TRUE].records[k].record

LedgerEntries ==
    [k \in 1..head |-> IF events[k] # NoBody THEN events[k] ELSE ArchivedRecord(k)]

Ledger == INSTANCE BillingLedger
             WITH entries <- LedgerEntries, promised <- acked, delivered <- collected

\* Hot bodies and verified archives together are one append-only ledger:
\* capture, retirement, rehydration, migration and crashes are invisible in
\* it, and only InsertEvent and Page change it.
RefinesLedger == Ledger!LedgerSpec

\* Every begun set is settled: it gets into the catalog or, if it was never
\* sealed, is abandoned, and either way the plaintext copy of the store is gone,
\* although uploads fail and the process restarts at any step.
CaptureSettles ==
    \A s \in Sets :
        captures[s].status \notin {"none", "verified", "abandoned"} \/ "snapshot" \in scratch[s]
        ~> captures[s].status \in {"verified", "abandoned"} /\ "snapshot" \notin scratch[s]

\* An abort that Billing asked for ends in a terminal receipt, for an operation
\* Logger never saw too, through races with plan and apply.  There is one way to
\* strand the authority's fence: another plan recorded under the operation id,
\* which Logger then neither applies nor aborts.
AbortResolves ==
    \A o \in Ops : authority[o].status = "ABORT_REQUESTED"
                   ~> \/ operations[o].status \in {"completed", "aborted"}
                      \/ operations[o].plan \notin {NoPlan, authority[o].plan}

(***************************************************************************)
(* A statement of the repository that the code does not keep.              *)
(***************************************************************************)

\* A tombstone is bound to the plan that Billing wants aborted.
AbortIsBound ==
    \A o \in Ops : operations[o].status = "aborted" =>
        Authorized(o, operations[o].plan, "ABORT_REQUESTED")
=============================================================================
