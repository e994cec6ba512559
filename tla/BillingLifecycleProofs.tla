----------------------- MODULE BillingLifecycleProofs -----------------------
(***************************************************************************)
(* LifecycleInv is an inductive invariant of the raw-data lifecycle; that  *)
(* retired and protected records are archived, that backup sets split the  *)
(* log, what the audit can refuse at most and that the whole implements    *)
(* the abstract ledger follow from it for every value of the constants.    *)
(***************************************************************************)
EXTENDS BillingLifecycle, BillingInboxProofs, FiniteSetTheorems

\* The sets that hold up the next capture, and the sets with a manifest.
PendingStatus == {"capturing", "sealed", "uploaded"}
SealedStatus == {"sealed", "uploaded", "verified"}

\* The files that a set is restored from.
Files == {"parts", "manifest"}

\* The export of a committed record.
Exported(k) == [record |-> log[k], at |-> ReceiptTime(k)]

\* A manifest holds the true export of one range that ends at a former head,
\* or nothing at all.
Faithful(m) ==
    /\ m \in Manifest
    /\ m.high <= head
    /\ IF m.from = 0 THEN m.through = 0
                     ELSE m.from <= m.through /\ m.through = m.high
    /\ \A k \in Seqs : m.records[k] = IF k \in m.from..m.through THEN Exported(k)
                                                                 ELSE NoBody

\* The store holds nothing beyond its frontiers.
StoreExact ==
    \A k \in Seqs : /\ k > head => receiptIds[k] = NoId /\ receiptTimes[k] = NoTime
                    /\ k <= archiveFloor => events[k] = NoBody
                    /\ archiveCache[k] # NoBody => k <= archiveFloor

\* The list a scan works from is current, but for a verification since.
ScanCurrent ==
    worker.stage = "scan" =>
        \A s \in Sets : /\ \/ captures[s].status = worker.list[s]
                           \/ worker.list[s] = "uploaded" /\ captures[s].status = "verified"
                        /\ worker.list[s] \in PendingStatus => s \in worker.todo

\* The set that the running Capture is at, its snapshot and its files.
CaptureCurrent ==
    /\ worker.stage \in {"begun", "snapshot", "exported"} =>
          worker.set \in Sets /\ captures[worker.set].status = "capturing"
    /\ worker.stage \in {"snapshot", "exported"} =>
          /\ version = "2"
          /\ Faithful(worker.manifest)
          /\ IF worker.manifest.from = 0 THEN worker.manifest.high = capturedThrough
                                         ELSE worker.manifest.from = capturedThrough + 1
    /\ worker.stage = "exported" => Files \subseteq scratch[worker.set]
    /\ worker.stage \in {"sealed", "upload", "manifest", "save"} =>
          /\ worker.set \in Sets
          /\ captures[worker.set] = [status |-> "sealed", manifest |-> worker.manifest]

\* The manifests of sealed sets are true and lie below captured_through.
SealedFaithful ==
    \A s \in Sets : captures[s].status \in SealedStatus =>
        /\ version = "2"
        /\ Faithful(captures[s].manifest)
        /\ captures[s].manifest.high <= capturedThrough

\* A sealed set that is not verified yet holds the newest range.
PendingIsNewest ==
    \A s, t \in Sets :
        /\ captures[s].status \in {"sealed", "uploaded"}
        /\ captures[t].status = "verified"
        /\ captures[s].manifest.from # 0
        => captures[t].manifest.high < captures[s].manifest.from

\* The catalog holds the verified sets; these are signed, and uploaded.
CatalogSound ==
    /\ \A s \in Sets :
          /\ catalog[s] = IF captures[s].status = "verified" THEN captures[s].manifest
                                                             ELSE NoManifest
          /\ captures[s].status = "verified" => s \in signed
          /\ finishing[s] # "none" => captures[s].status = "verified"
    /\ \A s \in signed : Files \subseteq cloud[s]

\* The captured range covers what is retired and ends at or below the head.
CaptureFrontier == archiveFloor <= capturedThrough /\ capturedThrough <= head

CaptureInv ==
    /\ ScanCurrent
    /\ CaptureCurrent
    /\ OnePendingSet
    /\ SealedResumable
    /\ CaptureFrontier
    /\ SealedFaithful
    /\ CapturesPartition
    /\ PendingIsNewest
    /\ CatalogSound

\* Retired sequences are in the range of a catalog entry.
FloorInCatalog ==
    \A k \in 1..archiveFloor : \E s \in Sets :
        catalog[s] # NoManifest /\ k \in catalog[s].from..catalog[s].through

\* Every stored decision has a valid plan and a floor that was reached; a
\* completed one is what the authority holds.
OperationsSound ==
    \A o \in Ops : operations[o].status # "none" =>
        /\ operations[o].plan \in Plans
        /\ PlanValid(operations[o].plan)
        /\ operations[o].retired <= archiveFloor
        /\ operations[o].status = "completed" =>
              /\ operations[o].retired = operations[o].plan.through
              /\ authority[o].plan = operations[o].plan

\* The authority gives an operation its plan once.
AuthorityOnce == \A o \in Ops : authority[o].status = "none" => authority[o].plan = NoPlan

\* A request past its check carries a valid plan; an apply was seen pending
\* and the authority holds its plan.
InflightSound ==
    \A r \in inflight :
        /\ PlanValid(r.st.plan)
        /\ r.kind = "apply" => /\ r.st.status = "pending"
                               /\ authority[r.op].plan = r.st.plan

\* What is planned or retired was committed then.
RangesCommitted ==
    \A o \in Ops : operations[o].status \in {"pending", "completed"} =>
        operations[o].plan.through <= head

\* The authority wants every abort that is under way, or done.
AbortsWanted ==
    /\ \A o \in Ops : operations[o].status = "aborted" =>
          authority[o].status = "ABORT_REQUESTED"
    /\ \A r \in inflight : r.kind = "abort" => authority[r.op].status = "ABORT_REQUESTED"

\* The cache budget counts what is cached.
CacheCounted == cacheBytes = Cardinality(Cached)

RetireInv ==
    /\ FloorInCatalog
    /\ OperationsSound
    /\ FloorTiled
    /\ AuthorityOnce
    /\ InflightSound
    /\ RangesCommitted
    /\ AbortsWanted
    /\ CacheCounted

LifecycleInv ==
    /\ IInv
    /\ LifecycleTypeOK
    /\ StoreExact
    /\ CaptureInv
    /\ RetireInv

-----------------------------------------------------------------------------
(***************************************************************************)
(* The inbox under the lifecycle.                                          *)
(***************************************************************************)

\* What the database holds besides bodies, floor and cache.
receiptVars == <<version, head, ids, receiptIds, receiptTimes, legacyThrough,
                 backfilledThrough, legacyAgeFloor, recoveryFence>>

\* A step that moves bodies between hot store, archive and cache, and gives
\* none of them up above the floor, keeps the inbox's invariant.
LEMMA ArchiveKeepsIInv ==
    ASSUME IInv, UNCHANGED <<receiptVars, inboxRest>>, BytesPreserved',
           events' \in [Seqs -> Record \cup {NoBody}],
           archiveCache' \in [Seqs -> Record \cup {NoBody}],
           archiveFloor' \in 0..MaxSequence,
           archiveFloor' <= head,
           version # "2" => archiveFloor' = 0
    PROVE  IInv'
<1> USE DEF receiptVars, inboxRest, procVars, collectorVars, historyVars
<1>1. TypeOK'
  BY DEF IInv, TypeOK
<1>2. LogShape' /\ Frontier' /\ Clock'
  BY DEF IInv, LogShape, Frontier, Clock
<1>3. IndexMatchesLog' /\ ReceiptsMatchLog'
  BY DEF IInv, IndexMatchesLog, ReceiptsMatchLog, Bound, IndexEntry, Binding,
         ContentDigest, RawKey
<1>4. CursorAccepted' /\ CollectedPrefix'
  BY DEF IInv, CursorAccepted, CursorValid, CollectedPrefix
<1>5. AckedCommitted' /\ FenceKnown'
  BY DEF IInv, AckedCommitted, ContentDigest, FenceKnown
<1> QED
  BY <1>1, <1>2, <1>3, <1>4, <1>5 DEF IInv

\* A body in the store is a committed record.
LEMMA BodyCommitted ==
    ASSUME IInv, NEW k \in Seqs, events[k] # NoBody
    PROVE  k <= head /\ k \in 1..head /\ log[k] = events[k] /\ log[k] \in Record
<1>1. events[k] = log[k]
  BY DEF IInv, BytesPreserved
<1>2. head \in 0..MaxSequence /\ k \in 1..MaxSequence
  BY DEF IInv, TypeOK, Seqs
<1>3. k <= head /\ log[k] \in Record
  BY <1>1 DEF IInv, LogShape
<1> QED
  BY <1>1, <1>2, <1>3, BoundsAssumption

\* What the checks of the retirement transaction say of the plan it applies.
LEMMA ApplicableRange ==
    ASSUME LifecycleInv, NEW r \in inflight, r.kind = "apply", Applicable(r)
    PROVE  /\ r.op \in Ops
           /\ r.st.plan \in Plan
           /\ r.st.plan \in Plans
           /\ version = "2"
           /\ r.st.plan.from = archiveFloor + 1
           /\ r.st.plan.from <= r.st.plan.through
           /\ r.st.plan.through <= head
           /\ r.st.plan.from \in Seqs
           /\ r.st.plan.through \in Seqs
           /\ \A k \in r.st.plan.from..r.st.plan.through :
                 /\ k \in Seqs
                 /\ k <= head
                 /\ receiptTimes[k] # NoTime
                 /\ ReceiptTime(k) <= now - Retention
<1>1. r.op \in Ops /\ r.st.plan \in Plan /\ r.st.plan \in Plans
  BY LifecycleAssumption DEF LifecycleInv, LifecycleTypeOK
<1>2. r.st.plan.from \in Seqs /\ r.st.plan.through \in Seqs
  BY <1>1 DEF Plan
<1>3. r.st.plan.from <= r.st.plan.through
  BY DEF LifecycleInv, RetireInv, InflightSound, PlanValid
<1>4. \A k \in r.st.plan.from..r.st.plan.through : k \in Seqs
  BY <1>2, BoundsAssumption DEF Seqs
<1>5. version = "2" /\ r.st.plan.from = archiveFloor + 1 /\ Covered(r.st.plan)
  BY DEF Applicable, Ready
<1>6. \A k \in r.st.plan.from..r.st.plan.through :
         /\ events[k] # NoBody
         /\ receiptTimes[k] # NoTime
         /\ ReceiptTime(k) <= now - Retention
  BY <1>5 DEF Covered
<1>7. \A k \in r.st.plan.from..r.st.plan.through : k <= head
  BY <1>4, <1>6, BodyCommitted DEF LifecycleInv
<1>8. r.st.plan.through \in r.st.plan.from..r.st.plan.through
  BY <1>2, <1>3, BoundsAssumption DEF Seqs
<1> QED
  BY <1>1, <1>2, <1>3, <1>4, <1>5, <1>6, <1>7, <1>8

\* Retirement keeps the inbox's invariant.
LEMMA ApplyKeepsIInv ==
    ASSUME LifecycleInv, NEW r \in inflight, ApplyCommit(r)
    PROVE  IInv'
<1> DEFINE p == r.st.plan
<1>1. UNCHANGED <<receiptVars, inboxRest, archiveCache>> /\ r.kind = "apply"
  BY DEF ApplyCommit, receiptVars
<1>2. /\ IInv /\ TypeOK /\ BytesPreserved /\ Frontier /\ log' = log /\ head' = head
      /\ archiveCache' = archiveCache
  BY <1>1 DEF LifecycleInv, IInv, inboxRest, historyVars, receiptVars
<1>3. CASE Applicable(r)
  <2>1. /\ version = "2" /\ p.from = archiveFloor + 1 /\ p.from <= p.through
        /\ p.through <= head /\ p.from \in Seqs /\ p.through \in Seqs
    BY <1>1, <1>3, ApplicableRange
  <2>2. /\ events' = [k \in Seqs |-> IF k \in p.from..p.through THEN NoBody ELSE events[k]]
        /\ archiveFloor' = p.through
    BY <1>3 DEF ApplyCommit, Retire
  <2>3. events' \in [Seqs -> Record \cup {NoBody}]
    BY <2>2, <1>2 DEF TypeOK
  <2>4. archiveFloor' \in 0..MaxSequence
    BY <2>1, <2>2, BoundsAssumption DEF Seqs
  <2>5. BytesPreserved'
    <3> SUFFICES ASSUME NEW k \in Seqs
                 PROVE  /\ events'[k] \in {log[k], NoBody}
                        /\ archiveCache[k] \in {log[k], NoBody}
                        /\ p.through < k /\ k <= head => events'[k] # NoBody
      BY <1>2, <2>2 DEF BytesPreserved
    <3>1. events'[k] = IF k \in p.from..p.through THEN NoBody ELSE events[k]
      BY <2>2
    <3>2. archiveFloor \in Nat /\ k \in Nat
      BY <1>2, BoundsAssumption DEF TypeOK, Seqs
    <3>3. p.through < k => archiveFloor < k /\ k \notin p.from..p.through
      BY <3>2, <2>1, BoundsAssumption DEF Seqs
    <3> QED
      BY <3>1, <3>3, <1>2 DEF BytesPreserved
  <2> QED
    BY <1>1, <1>2, <2>1, <2>2, <2>3, <2>4, <2>5, ArchiveKeepsIInv DEF TypeOK
<1>4. CASE ~Applicable(r)
  <2>1. UNCHANGED <<events, archiveFloor>>
    BY <1>4 DEF ApplyCommit
  <2> QED
    BY <1>1, <1>2, <2>1, ArchiveKeepsIInv DEF TypeOK, BytesPreserved, Frontier
<1> QED
  BY <1>3, <1>4

\* A record whose binding the index holds is the committed record.
LEMMA BoundIsCommitted ==
    ASSUME IInv, NEW x \in Record, ids[x.event.id] = Binding(x)
    PROVE  x.sequence \in 1..head /\ x = log[x.sequence]
<1> DEFINE i == x.event.id
<1>1. i \in Ids /\ Binding(x) \in Receipt /\ Binding(x).seq = x.sequence
      /\ Binding(x).form = "binding" /\ Binding(x).record = x
  BY EntryTypes
<1>2. ids[i] # NoReceipt
  BY <1>1, Sentinels
<1>3. TypeOK /\ StoreInv
  BY DEF IInv, StoreInv
<1>4. /\ x.sequence \in 1..head /\ log[x.sequence] \in Record
      /\ ids[i] = IndexEntry(x.sequence) /\ x.sequence \in Seqs
  BY <1>1, <1>2, <1>3, IndexFacts
<1>5. Bound(x.sequence)
  BY <1>1, <1>4, EntryTypes DEF IndexEntry
<1>6. Binding(x) = Binding(log[x.sequence])
  BY <1>4, <1>5 DEF IndexEntry
<1>7. Binding(log[x.sequence]).record = log[x.sequence]
  BY <1>4, EntryTypes
<1> QED
  BY <1>1, <1>4, <1>6, <1>7

\* The cached sequences are finitely many.
LEMMA CachedFinite ==
    /\ Cached \subseteq Seqs
    /\ IsFiniteSet(Cached)
    /\ Cardinality(Cached) \in Nat
    /\ \A S \in SUBSET Seqs : IsFiniteSet(S) /\ Cardinality(S) \in Nat
<1>1. IsFiniteSet(Seqs)
  BY BoundsAssumption, FS_Interval DEF Seqs
<1>2. \A S \in SUBSET Seqs : IsFiniteSet(S) /\ Cardinality(S) \in Nat
  BY <1>1, FS_Subset, FS_CardinalityType
<1> QED
  BY <1>2 DEF Cached

\* Rehydrate installs committed records below the floor, within the budget.
LEMMA RehydrateEffect ==
    ASSUME LifecycleInv, NEW s \in Sets, Rehydrate(s)
    PROVE  /\ IInv'
           /\ UNCHANGED <<receiptVars, inboxRest, events, archiveFloor>>
           /\ \A k \in Seqs : archiveCache'[k] # NoBody => k <= archiveFloor
           /\ cacheBytes' = Cardinality(Cached')
           /\ cacheBytes' \in 0..CacheMax
<1>1. /\ UNCHANGED <<receiptVars, inboxRest, events, archiveFloor>>
      /\ log' = log /\ head' = head
  BY DEF Rehydrate, receiptVars, inboxRest, historyVars
<1>2. PICK lo \in Seqs : \E hi \in lo..Lesser(lo + RehydrateBatch - 1, MaxSequence) :
       \E batch \in [lo..hi -> ExportRecord] :
          /\ \A k \in lo..hi : batch[k].record.sequence = k /\ Rehydratable(s, batch[k])
          /\ Cardinality(Cached \cup (lo..hi)) <= CacheMax
          /\ archiveCache' = [k \in Seqs |-> IF k \in lo..hi THEN batch[k].record
                                                             ELSE archiveCache[k]]
          /\ cacheBytes' = cacheBytes + Cardinality((lo..hi) \ Cached)
  BY DEF Rehydrate
<1>3. PICK hi \in lo..Lesser(lo + RehydrateBatch - 1, MaxSequence) :
       \E batch \in [lo..hi -> ExportRecord] :
          /\ \A k \in lo..hi : batch[k].record.sequence = k /\ Rehydratable(s, batch[k])
          /\ Cardinality(Cached \cup (lo..hi)) <= CacheMax
          /\ archiveCache' = [k \in Seqs |-> IF k \in lo..hi THEN batch[k].record
                                                             ELSE archiveCache[k]]
          /\ cacheBytes' = cacheBytes + Cardinality((lo..hi) \ Cached)
  BY <1>2
<1>4. PICK batch \in [lo..hi -> ExportRecord] :
          /\ \A k \in lo..hi : batch[k].record.sequence = k /\ Rehydratable(s, batch[k])
          /\ Cardinality(Cached \cup (lo..hi)) <= CacheMax
          /\ archiveCache' = [k \in Seqs |-> IF k \in lo..hi THEN batch[k].record
                                                             ELSE archiveCache[k]]
          /\ cacheBytes' = cacheBytes + Cardinality((lo..hi) \ Cached)
  BY <1>3
<1>5. lo..hi \subseteq Seqs
  BY BoundsAssumption, LifecycleAssumption DEF Seqs, Lesser
<1>6. IInv /\ TypeOK /\ BytesPreserved
  BY DEF LifecycleInv, IInv
<1>7. \A k \in lo..hi : /\ batch[k].record \in Record
                        /\ batch[k].record = log[k]
                        /\ k <= archiveFloor
  <2> SUFFICES ASSUME NEW k \in lo..hi
               PROVE  /\ batch[k].record \in Record
                      /\ batch[k].record = log[k]
                      /\ k <= archiveFloor
    OBVIOUS
  <2>1. batch[k].record \in Record
    BY DEF ExportRecord
  <2>2. /\ batch[k].record.sequence = k /\ k <= archiveFloor
        /\ ids[batch[k].record.event.id] = Binding(batch[k].record)
    BY <1>4 DEF Rehydratable
  <2> QED
    BY <2>1, <2>2, <1>6, BoundIsCommitted
<1>8. \A k \in Seqs : archiveCache'[k] = IF k \in lo..hi THEN log[k] ELSE archiveCache[k]
  BY <1>4, <1>7
<1>9. archiveCache' \in [Seqs -> Record \cup {NoBody}]
  BY <1>4, <1>6, <1>7 DEF TypeOK
<1>10. BytesPreserved'
  BY <1>1, <1>6, <1>8 DEF BytesPreserved
<1>11. IInv'
  BY <1>1, <1>6, <1>9, <1>10, ArchiveKeepsIInv DEF TypeOK, IInv, Frontier
<1>12. \A k \in Seqs : archiveCache'[k] # NoBody => k <= archiveFloor
  BY <1>7, <1>8 DEF LifecycleInv, StoreExact
<1>13. Cached' = Cached \cup (lo..hi)
  <2>1. \A k \in lo..hi : log[k] # NoBody
    BY <1>7, Sentinels
  <2> QED
    BY <2>1, <1>5, <1>8 DEF Cached
<1>14. cacheBytes' = Cardinality(Cached')
  <2> DEFINE D == (lo..hi) \ Cached
  <2>1. IsFiniteSet(Cached) /\ IsFiniteSet(D) /\ Cardinality(Cached) \in Nat
        /\ Cardinality(D) \in Nat
    BY <1>5, CachedFinite
  <2>2. Cached' = Cached \cup D /\ Cached \cap D = {}
    BY <1>13
  <2>3. Cardinality(Cached \cup D) = Cardinality(Cached) + Cardinality(D) - Cardinality(Cached \cap D)
    BY <2>1, FS_Union
  <2>4. Cardinality(Cached \cap D) = 0
    BY <2>2, FS_EmptySet
  <2>5. cacheBytes = Cardinality(Cached)
    BY DEF LifecycleInv, RetireInv, CacheCounted
  <2> QED
    BY <2>1, <2>2, <2>3, <2>4, <2>5, <1>4
<1>15. cacheBytes' \in 0..CacheMax
  <2>1. Cardinality(Cached \cup (lo..hi)) \in Nat
    BY <1>5, CachedFinite
  <2> QED
    BY <2>1, <1>4, <1>13, <1>14, LifecycleAssumption
<1> QED
  BY <1>1, <1>11, <1>12, <1>14, <1>15

\* EvictCache drops cached bodies and gives their budget back.
LEMMA EvictEffect ==
    ASSUME LifecycleInv, NEW through \in Seqs, EvictCache(through)
    PROVE  /\ IInv'
           /\ UNCHANGED <<receiptVars, inboxRest, events, archiveFloor>>
           /\ \A k \in Seqs : archiveCache'[k] # NoBody => k <= archiveFloor
           /\ cacheBytes' = Cardinality(Cached')
           /\ cacheBytes' \in 0..CacheMax
<1> DEFINE victims == {k \in Cached : /\ k <= through
                                      /\ Cardinality(Cached \cap (1..k)) <= EvictBatch}
<1>1. /\ UNCHANGED <<receiptVars, inboxRest, events, archiveFloor>>
      /\ log' = log /\ head' = head
  BY DEF EvictCache, receiptVars, inboxRest, historyVars
<1>2. /\ archiveCache' = [k \in Seqs |-> IF k \in victims THEN NoBody ELSE archiveCache[k]]
      /\ cacheBytes' = cacheBytes - Cardinality(victims)
  BY DEF EvictCache
<1>3. IInv /\ TypeOK /\ BytesPreserved
  BY DEF LifecycleInv, IInv
<1>4. victims \subseteq Cached
  OBVIOUS
<1> HIDE DEF victims
<1>5. archiveCache' \in [Seqs -> Record \cup {NoBody}]
  BY <1>2, <1>3 DEF TypeOK
<1>6. BytesPreserved'
  BY <1>1, <1>2, <1>3 DEF BytesPreserved
<1>7. IInv'
  BY <1>1, <1>3, <1>5, <1>6, ArchiveKeepsIInv DEF TypeOK, IInv, Frontier
<1>8. \A k \in Seqs : archiveCache'[k] # NoBody => k <= archiveFloor
  BY <1>2 DEF LifecycleInv, StoreExact
<1>9. Cached' = Cached \ victims
  BY <1>2, <1>4 DEF Cached
<1>10. /\ Cardinality(Cached') = Cardinality(Cached) - Cardinality(victims)
       /\ Cardinality(Cached') \in Nat /\ Cardinality(victims) \in Nat
  <2>1. IsFiniteSet(Cached) /\ Cardinality(Cached) \in Nat
        /\ IsFiniteSet(victims) /\ Cardinality(victims) \in Nat
        /\ IsFiniteSet(Cached \ victims) /\ Cardinality(Cached \ victims) \in Nat
    BY <1>4, CachedFinite
  <2>2. Cached = (Cached \ victims) \cup victims /\ (Cached \ victims) \cap victims = {}
    BY <1>4
  <2>3. Cardinality((Cached \ victims) \cup victims) =
          Cardinality(Cached \ victims) + Cardinality(victims)
          - Cardinality((Cached \ victims) \cap victims)
    BY <2>1, FS_Union
  <2>4. Cardinality((Cached \ victims) \cap victims) = 0
    BY <2>2, FS_EmptySet
  <2>5. Cardinality(Cached) = Cardinality(Cached \ victims) + Cardinality(victims)
    <3>1. Cardinality(Cached) = Cardinality((Cached \ victims) \cup victims)
      BY <2>2
    <3> QED
      BY <3>1, <2>1, <2>3, <2>4
  <2>6. Cardinality(Cached') = Cardinality(Cached \ victims)
    BY <1>9
  <2> QED
    BY <2>1, <2>5, <2>6
<1>11. cacheBytes = Cardinality(Cached) /\ cacheBytes \in 0..CacheMax
  BY DEF LifecycleInv, RetireInv, CacheCounted, LifecycleTypeOK
<1> QED
  BY <1>1, <1>2, <1>7, <1>8, <1>10, <1>11, LifecycleAssumption

\* What the lifecycle relies on in a step of the inbox: committed records
\* keep bytes and receipt time, floor and cache stay, version 2 is final.
InboxKeeps ==
    /\ head \in Nat /\ head' \in Nat /\ head <= head'
    /\ \A k \in 1..head : log'[k] = log[k]
    /\ UNCHANGED <<archiveFloor, archiveCache>>
    /\ version = "2" => /\ version' = "2"
                        /\ \A k \in 1..head : ReceiptTime(k)' = ReceiptTime(k)

\* A fresh record is added past everything the lifecycle looks at.
LEMMA StoreRecordKeeps ==
    ASSUME IInv, StoreExact, NEW e \in Events, ids[e.id] = NoReceipt,
           head < MaxSequence, StoreRecord(e)
    PROVE  InboxKeeps /\ StoreExact'
<1> PICK n : n = head + 1
  OBVIOUS
<1>1. TypeOK /\ Frontier
  BY DEF IInv
<1>2. /\ n \in Seqs /\ head \in Nat /\ n = head + 1 /\ archiveFloor \in Nat
      /\ archiveFloor <= head
      /\ \A k \in Seqs : k \in Nat
      /\ \A k \in 1..head : k \in Seqs /\ k # n
  BY <1>1, BoundsAssumption DEF TypeOK, Seqs, Frontier
<1>3. /\ head' = n
      /\ events' = [events EXCEPT ![n] = [sequence |-> n, event |-> e]]
      /\ log' = [log EXCEPT ![n] = [sequence |-> n, event |-> e]]
      /\ version' = version /\ legacyAgeFloor' = legacyAgeFloor
      /\ archiveFloor' = archiveFloor /\ archiveCache' = archiveCache
      /\ receiptIds' = IF version = "1" THEN receiptIds
                                        ELSE [receiptIds EXCEPT ![n] = e.id]
      /\ receiptTimes' = IF version = "1" THEN receiptTimes
                                          ELSE [receiptTimes EXCEPT ![n] = now]
  BY DEF StoreRecord
<1>4. \A k \in Seqs : k # n => /\ events'[k] = events[k]
                               /\ log'[k] = log[k]
                               /\ receiptIds'[k] = receiptIds[k]
                               /\ receiptTimes'[k] = receiptTimes[k]
  BY <1>1, <1>2, <1>3 DEF TypeOK
<1>5. \A k \in 1..head : ReceiptTime(k)' = ReceiptTime(k)
  BY <1>2, <1>3, <1>4 DEF ReceiptTime
<1>6. InboxKeeps
  BY <1>2, <1>3, <1>4, <1>5 DEF InboxKeeps
<1>7. StoreExact'
  <2> SUFFICES ASSUME NEW k \in Seqs
               PROVE  /\ k > head' => receiptIds'[k] = NoId /\ receiptTimes'[k] = NoTime
                      /\ k <= archiveFloor => events'[k] = NoBody
                      /\ archiveCache[k] # NoBody => k <= archiveFloor
    BY <1>3 DEF StoreExact
  <2>1. (k > head' => k # n /\ k > head) /\ (k <= archiveFloor => k # n)
    BY <1>2, <1>3
  <2> QED
    BY <2>1, <1>4 DEF StoreExact
<1> QED
  BY <1>6, <1>7

\* A step that leaves bodies, receipts and log alone.
LEMMA StoreStill ==
    ASSUME IInv, StoreExact,
           UNCHANGED <<version, head, events, receiptIds, receiptTimes,
                       legacyAgeFloor, archiveFloor, archiveCache, log>>
    PROVE  InboxKeeps /\ StoreExact'
<1>1. head \in Nat
  BY BoundsAssumption DEF IInv, TypeOK
<1>2. InboxKeeps
  BY <1>1 DEF InboxKeeps, ReceiptTime
<1>3. StoreExact'
  BY DEF StoreExact
<1> QED
  BY <1>2, <1>3

\* A migration batch lies at or below the head and ends before version 2.
LEMMA MigrateKeeps ==
    ASSUME IInv, StoreExact, NEW batch \in 1..MigrateBatch, Migrate(batch)
    PROVE  InboxKeeps /\ StoreExact'
<1>1. TypeOK /\ Frontier /\ head \in Nat
  BY BoundsAssumption DEF IInv, TypeOK
<1>2. /\ version # "2"
      /\ UNCHANGED <<head, events, archiveFloor, archiveCache, log>>
      /\ \A k \in Seqs : k \notin MigrateRange(batch) =>
            receiptIds'[k] = receiptIds[k] /\ receiptTimes'[k] = receiptTimes[k]
  BY DEF Migrate, historyVars
<1>3. \A k \in Seqs : k > head => k \notin MigrateRange(batch)
  BY <1>1, BoundsAssumption DEF MigrateRange, MigrateEnd, Lesser, Frontier, TypeOK, Seqs
<1>4. InboxKeeps
  BY <1>1, <1>2 DEF InboxKeeps
<1>5. StoreExact'
  BY <1>2, <1>3 DEF StoreExact
<1> QED
  BY <1>4, <1>5

\* Every step of the inbox.
LEMMA InboxStepKeeps ==
    ASSUME IInv, StoreExact, InboxNext
    PROVE  InboxKeeps /\ StoreExact'
<1> USE DEF storeVars, historyVars
<1>1. ASSUME NEW e \in Events, InsertEvent(e) PROVE InboxKeeps /\ StoreExact'
  <2>1. CASE InsertFresh(e)
    BY <2>1, StoreRecordKeeps DEF InsertFresh
  <2>2. CASE InsertAmbiguous(e)
    <3>1. CASE StoreRecord(e)
      BY <2>2, <3>1, StoreRecordKeeps DEF InsertAmbiguous
    <3>2. CASE UNCHANGED <<storeVars, log, receivedAt>>
      BY <3>2, StoreStill
    <3> QED
      BY <2>2, <3>1, <3>2 DEF InsertAmbiguous
  <2>3. CASE InsertExhausted(e)
    BY <2>3, StoreStill DEF InsertExhausted
  <2>4. CASE InsertKnown(e)
    BY <2>4, StoreStill DEF InsertKnown
  <2> QED
    BY <1>1, <2>1, <2>2, <2>3, <2>4 DEF InsertEvent
<1>2. ASSUME NEW limit \in 1..PageLimit, Page(limit) PROVE InboxKeeps /\ StoreExact'
  BY <1>2, StoreStill DEF Page
<1>3. ASSUME NEW batch \in 1..MigrateBatch, Migrate(batch) PROVE InboxKeeps /\ StoreExact'
  BY <1>3, MigrateKeeps
<1>4. ASSUME NEW mode \in BOOLEAN, Open(mode) PROVE InboxKeeps /\ StoreExact'
  BY <1>4, StoreStill DEF Open
<1>5. CASE AdmitRecovery \/ FinishAdmission \/ Tick \/ Stop
  BY <1>5, StoreStill DEF AdmitRecovery, FinishAdmission, Tick, Stop
<1> QED
  BY <1>1, <1>2, <1>3, <1>4, <1>5 DEF InboxNext, InboxRun

\* The steps of the lifecycle that leave the whole inbox alone.
QuietNext ==
    \/ CaptureNext
    \/ \E s \in Sets : \/ Sign(s) \/ VerifyCatalog(s) \/ FinishWrite(s)
                       \/ FinishTorn(s) \/ FinishPut(s) \/ FinishClean(s)
                       \/ FinishFail(s)
    \/ \E o \in Ops, p \in Plans : \/ Activate(o, p)
                                   \/ PlanRetirement(o, p)
                                   \/ AbortCheck(o, p)
    \/ \E o \in Ops : RequestAbort(o) \/ ApplyCheck(o)
    \/ \E r \in inflight : AbortCommit(r)

\* None of them touches a variable of the inbox.
LEMMA QuietIsQuiet == ASSUME QuietNext PROVE UNCHANGED vars
<1> USE DEF vars, inboxRest
<1>1. CASE CaptureNext
  <2>1. ASSUME NEW s \in Sets, CaptureVisit(s) \/ CaptureBegin(s) PROVE UNCHANGED vars
    BY <2>1 DEF CaptureVisit, CaptureBegin
  <2>2. CASE CaptureScan \/ CaptureSnapshot \/ CaptureExport
    BY <2>2 DEF CaptureScan, CaptureSnapshot, CaptureExport
  <2>3. CASE CaptureSeal \/ CaptureRemoveSnapshot \/ UploadSave \/ CaptureFail
    BY <2>3 DEF CaptureSeal, CaptureRemoveSnapshot, UploadSave, CaptureFail
  <2>4. CASE UploadParts \/ UploadManifest
    BY <2>4 DEF UploadParts, UploadManifest, UploadObject
  <2> QED
    BY <1>1, <2>1, <2>2, <2>3, <2>4 DEF CaptureNext
<1>2. ASSUME NEW s \in Sets, \/ Sign(s) \/ VerifyCatalog(s) \/ FinishWrite(s)
                             \/ FinishTorn(s) \/ FinishPut(s) \/ FinishClean(s)
                             \/ FinishFail(s)
      PROVE  UNCHANGED vars
  BY <1>2 DEF Sign, VerifyCatalog, FinishWrite, FinishTorn, FinishPut, FinishClean, FinishFail
<1>3. ASSUME NEW o \in Ops, NEW p \in Plans,
             Activate(o, p) \/ PlanRetirement(o, p) \/ AbortCheck(o, p)
      PROVE  UNCHANGED vars
  BY <1>3 DEF Activate, PlanRetirement, AbortCheck
<1>4. ASSUME NEW o \in Ops, RequestAbort(o) \/ ApplyCheck(o) PROVE UNCHANGED vars
  BY <1>4 DEF RequestAbort, ApplyCheck
<1>5. ASSUME NEW r \in inflight, AbortCommit(r) PROVE UNCHANGED vars
  BY <1>5 DEF AbortCommit
<1> QED
  BY <1>1, <1>2, <1>3, <1>4, <1>5 DEF QuietNext

\* The inbox's invariant, and what the lifecycle adds to it, in every step.
LEMMA StoreStep ==
    ASSUME LifecycleInv, LifecycleNext
    PROVE  IInv' /\ StoreExact'
<1>0. IInv /\ StoreExact
  BY DEF LifecycleInv
<1>1. CASE InboxStep \/ StopAll
  <2>1. InboxNext
    BY <1>1 DEF InboxStep, StopAll, InboxNext
  <2> QED
    BY <1>0, <2>1, InboxNextKeepsIInv, InboxStepKeeps
<1>2. CASE QuietNext
  <2>1. UNCHANGED vars
    BY <1>2, QuietIsQuiet
  <2>2. IInv'
    BY <1>0, <2>1, InboxStutter
  <2>3. StoreExact'
    BY <1>0, <2>1 DEF vars, storeVars, StoreExact
  <2> QED
    BY <2>2, <2>3
<1>3. ASSUME NEW s \in Sets, Rehydrate(s) PROVE IInv' /\ StoreExact'
  <2>1. /\ IInv' /\ UNCHANGED <<receiptVars, inboxRest, events, archiveFloor>>
        /\ \A k \in Seqs : archiveCache'[k] # NoBody => k <= archiveFloor
    BY <1>3, RehydrateEffect
  <2> QED
    BY <1>0, <2>1 DEF StoreExact, receiptVars
<1>4. ASSUME NEW through \in Seqs, EvictCache(through) PROVE IInv' /\ StoreExact'
  <2>1. /\ IInv' /\ UNCHANGED <<receiptVars, inboxRest, events, archiveFloor>>
        /\ \A k \in Seqs : archiveCache'[k] # NoBody => k <= archiveFloor
    BY <1>4, EvictEffect
  <2> QED
    BY <1>0, <2>1 DEF StoreExact, receiptVars
<1>5. ASSUME NEW r \in inflight, ApplyCommit(r) PROVE IInv' /\ StoreExact'
  <2>1. IInv'
    BY <1>5, ApplyKeepsIInv
  <2>2. UNCHANGED <<receiptVars, archiveCache>> /\ r.kind = "apply"
    BY <1>5 DEF ApplyCommit, receiptVars
  <2>3. CASE Applicable(r)
    <3> DEFINE p == r.st.plan
    <3>1. /\ p.from = archiveFloor + 1 /\ p.from <= p.through
          /\ p.from \in Seqs /\ p.through \in Seqs
      BY <2>2, <2>3, ApplicableRange
    <3>2. /\ events' = [k \in Seqs |-> IF k \in p.from..p.through THEN NoBody ELSE events[k]]
          /\ archiveFloor' = p.through
      BY <1>5, <2>3 DEF ApplyCommit, Retire
    <3>3. archiveFloor \in Nat
      BY <1>0, BoundsAssumption DEF IInv, TypeOK
    <3>4. \A k \in Seqs : /\ k <= p.through => k <= archiveFloor \/ k \in p.from..p.through
                          /\ k <= archiveFloor => k <= p.through
      BY <3>1, <3>3, BoundsAssumption DEF Seqs
    <3> QED
      BY <1>0, <2>1, <2>2, <3>2, <3>4 DEF StoreExact, receiptVars
  <2>4. CASE ~Applicable(r)
    <3>1. UNCHANGED <<events, archiveFloor>>
      BY <1>5, <2>4 DEF ApplyCommit
    <3> QED
      BY <1>0, <2>1, <2>2, <3>1 DEF StoreExact, receiptVars
  <2> QED
    BY <2>3, <2>4
<1> QED
  BY <1>1, <1>2, <1>3, <1>4, <1>5 DEF LifecycleNext, QuietNext

-----------------------------------------------------------------------------
(***************************************************************************)
(* Backup sets.                                                            *)
(***************************************************************************)

\* Committed records and their receipt times, in any step.
LogKept ==
    /\ head \in Nat /\ head' \in Nat /\ head <= head'
    /\ \A k \in 1..head : log'[k] = log[k]
    /\ version = "2" => /\ version' = "2"
                        /\ \A k \in 1..head : ReceiptTime(k)' = ReceiptTime(k)

\* A step outside the inbox leaves log and receipts alone.
LEMMA ReceiptsStill ==
    ASSUME LifecycleInv, UNCHANGED <<receiptVars, log>>
    PROVE  LogKept
<1>1. head \in Nat
  BY BoundsAssumption DEF LifecycleInv, IInv, TypeOK
<1> QED
  BY <1>1 DEF LogKept, receiptVars, ReceiptTime

\* Every step of the lifecycle keeps the committed log.
LEMMA StepKeepsLog ==
    ASSUME LifecycleInv, LifecycleNext
    PROVE  LogKept
<1> USE DEF vars, storeVars, receiptVars, historyVars, inboxRest
<1>1. CASE InboxStep \/ StopAll
  <2>1. InboxNext /\ IInv /\ StoreExact
    BY <1>1 DEF InboxStep, StopAll, InboxNext, LifecycleInv
  <2> QED
    BY <2>1, InboxStepKeeps DEF InboxKeeps, LogKept
<1>2. CASE QuietNext
  BY <1>2, QuietIsQuiet, ReceiptsStill
<1>3. ASSUME NEW s \in Sets, Rehydrate(s) PROVE LogKept
  BY <1>3, ReceiptsStill DEF Rehydrate
<1>4. ASSUME NEW through \in Seqs, EvictCache(through) PROVE LogKept
  BY <1>4, ReceiptsStill DEF EvictCache
<1>5. ASSUME NEW r \in inflight, ApplyCommit(r) PROVE LogKept
  BY <1>5, ReceiptsStill DEF ApplyCommit
<1> QED
  BY <1>1, <1>2, <1>3, <1>4, <1>5 DEF LifecycleNext, QuietNext

\* The fields of a manifest.
LEMMA ManifestFields ==
    ASSUME NEW m \in Manifest
    PROVE  /\ m.from \in Nat /\ m.from <= MaxSequence
           /\ m.through \in Nat /\ m.through <= MaxSequence
           /\ m.high \in Nat /\ m.high <= MaxSequence
           /\ m.records \in [Seqs -> ExportRecord \cup {NoBody}]
           /\ m # NoManifest
BY BoundsAssumption, LifecycleAssumption DEF Manifest

\* A version 2 store knows when each record was received.
LEMMA ReceiptTimeType ==
    ASSUME IInv, version = "2", NEW k \in 1..head
    PROVE  /\ ReceiptTime(k) \in 0..MaxTime
           /\ ReceiptTime(k) <= now
           /\ receivedAt[k] \in 0..MaxTime
           /\ receivedAt[k] <= ReceiptTime(k)
<1>1. /\ TypeOK /\ Frontier /\ head \in Nat /\ now \in 0..MaxTime
      /\ legacyThrough \in Nat /\ backfilledThrough \in Nat
  BY BoundsAssumption DEF IInv, TypeOK
<1>2. Bound(k)
  BY <1>1 DEF Bound, Frontier
<1>3. receiptTimes[k] = IF k <= legacyThrough THEN Legacy ELSE receivedAt[k]
  BY <1>2 DEF IInv, ReceiptsMatchLog
<1>4. receivedAt[k] \in 0..now /\ legacyAgeFloor \in 0..now
      /\ (k <= legacyThrough => receivedAt[k] <= legacyAgeFloor)
  BY <1>1 DEF IInv, Clock
<1>5. receivedAt[k] \in 0..MaxTime /\ legacyAgeFloor \in 0..MaxTime
  BY <1>1, <1>4, BoundsAssumption
<1>6. receivedAt[k] # Legacy
  BY <1>5, Sentinels
<1>7. ReceiptTime(k) = IF k <= legacyThrough THEN legacyAgeFloor ELSE receivedAt[k]
  BY <1>3, <1>6 DEF ReceiptTime
<1> QED
  BY <1>1, <1>4, <1>5, <1>7

\* The export of a committed record has the type of one, and is a body.
LEMMA ExportedType ==
    ASSUME IInv, version = "2", NEW k \in 1..head
    PROVE  k \in Seqs /\ Exported(k) \in ExportRecord /\ Exported(k) # NoBody
<1>1. k \in Seqs
  BY BoundsAssumption DEF IInv, TypeOK, Seqs
<1>2. log[k] \in Record
  BY <1>1, BoundsAssumption DEF IInv, LogShape, TypeOK
<1>3. Exported(k) \in ExportRecord
  BY <1>2, ReceiptTimeType DEF Exported, ExportRecord
<1> QED
  BY <1>1, <1>3, LifecycleAssumption

\* A true manifest stays true.
LEMMA FaithfulKept ==
    ASSUME LifecycleInv, LogKept, version = "2", NEW m, Faithful(m)
    PROVE  Faithful(m)'
<1>1. /\ m \in Manifest /\ m.from \in Nat /\ m.through \in Nat /\ m.high \in Nat
  BY ManifestFields DEF Faithful
<1>2. m.through <= m.high /\ m.high <= head /\ head <= head' /\ head \in Nat /\ head' \in Nat
  BY <1>1 DEF Faithful, LogKept
<1>3. \A k \in Seqs : k \in m.from..m.through => k \in 1..head
  BY <1>1, <1>2, BoundsAssumption DEF Seqs
<1>4. \A k \in Seqs : k \in m.from..m.through => Exported(k)' = Exported(k)
  BY <1>3 DEF LogKept, Exported
<1>5. m.high <= head'
  BY <1>1, <1>2
<1> QED
  BY <1>4, <1>5 DEF Faithful

\* A sealed set exports exactly the range of its manifest.
LEMMA ExportsRange ==
    ASSUME LifecycleInv, NEW s \in Sets, NEW k \in Seqs
    PROVE  Exports(s, k) <=> /\ captures[s].status \in SealedStatus
                             /\ k \in captures[s].manifest.from..captures[s].manifest.through
<1> DEFINE m == captures[s].manifest
<1>1. CASE captures[s].status \notin SealedStatus
  BY <1>1 DEF Exports, SealedStatus
<1>2. CASE captures[s].status \in SealedStatus
  <2>1. Faithful(m)
    BY <1>2 DEF LifecycleInv, CaptureInv, SealedFaithful
  <2>2. /\ m.from \in Nat /\ m.through \in Nat /\ m.high \in Nat
        /\ m.through <= m.high /\ m.high <= head /\ head \in Nat
    BY <2>1, ManifestFields, BoundsAssumption DEF Faithful, LifecycleInv, IInv, TypeOK
  <2>3. k \in m.from..m.through => Exported(k) # NoBody
    <3>1. k \in m.from..m.through => k \in 1..head
      BY <2>2, BoundsAssumption DEF Seqs
    <3>2. version = "2" /\ IInv
      BY <1>2 DEF LifecycleInv, CaptureInv, SealedFaithful
    <3> QED
      BY <3>1, <3>2, ExportedType
  <2>4. m.records[k] = IF k \in m.from..m.through THEN Exported(k) ELSE NoBody
    BY <2>1 DEF Faithful
  <2> QED
    BY <1>2, <2>3, <2>4 DEF Exports, SealedStatus
<1> QED
  BY <1>1, <1>2

\* The idle worker, and the fields of any.
LEMMA IdleFields ==
    /\ Idle.stage = "idle" /\ Idle.set = NoSet /\ Idle.todo = {}
    /\ Idle.manifest = NoManifest
    /\ Idle.list \in [Sets -> SetStatus]
    /\ Idle \in [stage : {"idle", "scan", "begun", "snapshot", "exported",
                          "sealed", "upload", "manifest", "save"},
                 set : Sets \cup {NoSet}, list : [Sets -> SetStatus],
                 todo : SUBSET Sets, manifest : Manifest \cup {NoManifest}]
BY DEF Idle, SetStatus

\* The snapshot is a true manifest of what follows captured_through.
LEMMA SnapshotEffect ==
    ASSUME LifecycleInv, CaptureSnapshot
    PROVE  /\ version = "2"
           /\ worker.stage = "begun"
           /\ worker'.stage = "snapshot"
           /\ worker'.set = worker.set
           /\ worker'.list = worker.list
           /\ worker'.todo = worker.todo
           /\ Faithful(worker'.manifest)
           /\ IF worker'.manifest.from = 0
              THEN worker'.manifest.high = capturedThrough
              ELSE worker'.manifest.from = capturedThrough + 1
<1> PICK from : from = ExportFrom
  OBVIOUS
<1> DEFINE m == [from |-> from,
                 through |-> IF from = 0 THEN 0 ELSE head,
                 high |-> head,
                 created |-> now,
                 records |-> [k \in Seqs |->
                     IF from # 0 /\ k \in from..head
                     THEN IF events[k] = NoBody THEN NoBody
                          ELSE [record |-> events[k], at |-> ReceiptTime(k)]
                     ELSE NoBody]]
<1>1. worker.stage = "begun" /\ version = "2"
      /\ worker' = [worker EXCEPT !.stage = "snapshot", !.manifest = m]
  BY DEF CaptureSnapshot, Ready
<1>2. /\ worker'.stage = "snapshot" /\ worker'.set = worker.set /\ worker'.manifest = m
      /\ worker'.list = worker.list /\ worker'.todo = worker.todo
  BY <1>1 DEF LifecycleInv, LifecycleTypeOK
<1>3. /\ head \in Nat /\ head <= MaxSequence /\ capturedThrough \in Nat /\ archiveFloor \in Nat
      /\ archiveFloor <= capturedThrough /\ capturedThrough <= head
      /\ now \in 0..MaxTime
  BY BoundsAssumption DEF LifecycleInv, IInv, TypeOK, LifecycleTypeOK, CaptureInv, CaptureFrontier
<1>4. from = IF capturedThrough + 1 > head THEN 0 ELSE capturedThrough + 1
  BY <1>3 DEF ExportFrom, Larger
<1>5. \A k \in Seqs : m.records[k] = IF k \in from..m.through THEN Exported(k) ELSE NoBody
  <2> SUFFICES ASSUME NEW k \in Seqs
               PROVE  m.records[k] = IF k \in from..m.through THEN Exported(k) ELSE NoBody
    OBVIOUS
  <2>1. k \in from..m.through <=> from # 0 /\ k \in from..head
    BY <1>3, <1>4, BoundsAssumption DEF Seqs
  <2>2. ASSUME from # 0, k \in from..head PROVE events[k] # NoBody /\ events[k] = log[k]
    <3>1. archiveFloor < k /\ k <= head
      BY <2>2, <1>3, <1>4
    <3> QED
      BY <3>1 DEF LifecycleInv, IInv, BytesPreserved
  <2> QED
    BY <2>1, <2>2 DEF Exported
<1>6. m.records \in [Seqs -> ExportRecord \cup {NoBody}]
  <2>1. \A k \in Seqs : k \in from..m.through => k \in 1..head
    BY <1>3, <1>4, BoundsAssumption DEF Seqs
  <2>2. \A k \in Seqs : k \in from..m.through => Exported(k) \in ExportRecord
    BY <2>1, <1>1, ExportedType DEF LifecycleInv
  <2> QED
    BY <2>2, <1>5
<1>7. m \in Manifest
  <2>1. from \in 0..MaxSequence /\ head \in 0..MaxSequence
        /\ (IF from = 0 THEN 0 ELSE head) \in 0..MaxSequence
    BY <1>3, <1>4, BoundsAssumption
  <2> QED
    BY <2>1, <1>3, <1>6 DEF Manifest
<1>8. m.high = head /\ m.from = from /\ m.through = IF from = 0 THEN 0 ELSE head
  OBVIOUS
<1>9. /\ m.high <= head
      /\ IF m.from = 0 THEN m.through = 0 ELSE m.from <= m.through /\ m.through = m.high
      /\ IF m.from = 0 THEN m.high = capturedThrough ELSE m.from = capturedThrough + 1
  BY <1>3, <1>4, <1>8
<1> HIDE DEF m
<1>10. Faithful(m)
  BY <1>5, <1>7, <1>8, <1>9 DEF Faithful
<1> QED
  BY <1>1, <1>2, <1>9, <1>10

\* Set s goes from one status to the next and everything else of the
\* captures stays.
Moves(s, before, after) ==
    /\ captures[s].status = before
    /\ captures'[s].status = after
    /\ captures'[s].manifest = captures[s].manifest
    /\ \A t \in Sets : t # s => captures'[t] = captures[t]
    /\ captures' \in [Sets -> [status : SetStatus, manifest : Manifest \cup {NoManifest}]]
    /\ capturedThrough' = capturedThrough

\* A status is replaced in its record.
LEMMA MovesByStatus ==
    ASSUME LifecycleInv, NEW s \in Sets, NEW after \in SetStatus,
           captures' = [captures EXCEPT ![s].status = after],
           capturedThrough' = capturedThrough
    PROVE  Moves(s, captures[s].status, after)
BY DEF LifecycleInv, LifecycleTypeOK, Moves

\* The four moves of a set that keep its manifest.
LEMMA VisitCapturingMoves ==
    ASSUME LifecycleInv, NEW s \in Sets, CaptureVisit(s), VisitCapturing(s)
    PROVE  Moves(s, "capturing", "abandoned")
<1>1. captures' = [captures EXCEPT ![s].status = "abandoned"] /\ capturedThrough' = capturedThrough
  BY DEF CaptureVisit, VisitCapturing
<1>2. captures[s].status = "capturing"
  BY DEF CaptureVisit, VisitCapturing, LifecycleInv, CaptureInv, ScanCurrent
<1> QED
  BY <1>1, <1>2, MovesByStatus DEF SetStatus

\* CaptureBegin.
LEMMA BeginMoves ==
    ASSUME LifecycleInv, NEW s \in Sets, CaptureBegin(s)
    PROVE  Moves(s, "none", "capturing")
<1>1. /\ captures' = [captures EXCEPT ![s].status = "capturing"]
      /\ capturedThrough' = capturedThrough /\ captures[s].status = "none"
  BY DEF CaptureBegin
<1> QED
  BY <1>1, MovesByStatus DEF SetStatus

\* UploadSave writes back what it read.
LEMMA UploadSaveMoves ==
    ASSUME LifecycleInv, UploadSave
    PROVE  worker.set \in Sets /\ Moves(worker.set, "sealed", "uploaded")
<1>1. /\ captures' = [captures EXCEPT ![worker.set] =
                         [status |-> "uploaded", manifest |-> worker.manifest]]
      /\ capturedThrough' = capturedThrough /\ worker.stage = "save"
  BY DEF UploadSave
<1>2. /\ worker.set \in Sets
      /\ captures[worker.set] = [status |-> "sealed", manifest |-> worker.manifest]
  BY <1>1 DEF LifecycleInv, CaptureInv, CaptureCurrent
<1>3. /\ captures \in [Sets -> [status : SetStatus, manifest : Manifest \cup {NoManifest}]]
      /\ worker.manifest \in Manifest \cup {NoManifest}
  BY DEF LifecycleInv, LifecycleTypeOK
<1>4. /\ captures'[worker.set].status = "uploaded"
      /\ captures'[worker.set].manifest = worker.manifest
      /\ captures[worker.set].status = "sealed"
      /\ captures[worker.set].manifest = worker.manifest
  BY <1>1, <1>2, <1>3
<1>5. captures' \in [Sets -> [status : SetStatus, manifest : Manifest \cup {NoManifest}]]
  BY <1>1, <1>2, <1>3 DEF SetStatus
<1> QED
  BY <1>1, <1>2, <1>3, <1>4, <1>5 DEF Moves

\* VerifyCatalog moves an uploaded set, or repeats itself.
LEMMA VerifyMoves ==
    ASSUME LifecycleInv, NEW s \in Sets, VerifyCatalog(s)
    PROVE  /\ s \in signed
           /\ \/ /\ Moves(s, "uploaded", "verified")
                 /\ catalog' = [catalog EXCEPT ![s] = captures[s].manifest]
              \/ /\ captures[s].status = "verified"
                 /\ UNCHANGED <<captures, catalog, capturedThrough>>
<1>1. s \in signed /\ capturedThrough' = capturedThrough
  BY DEF VerifyCatalog, VerifyCompletion
<1>2. CASE /\ captures[s].status = "uploaded"
           /\ catalog' = [catalog EXCEPT ![s] = captures[s].manifest]
           /\ captures' = [captures EXCEPT ![s].status = "verified"]
  <2>1. Moves(s, "uploaded", "verified")
    BY <1>1, <1>2, MovesByStatus DEF SetStatus
  <2> QED
    BY <1>1, <1>2, <2>1
<1>3. CASE captures[s].status = "verified" /\ UNCHANGED <<captures, catalog>>
  BY <1>1, <1>3
<1> QED
  BY <1>2, <1>3 DEF VerifyCatalog

\* CaptureSeal publishes the snapshot's manifest.
LEMMA SealEffect ==
    ASSUME LifecycleInv, CaptureSeal
    PROVE  /\ worker.set \in Sets
           /\ version = "2"
           /\ captures[worker.set].status = "capturing"
           /\ captures'[worker.set] = [status |-> "sealed", manifest |-> worker.manifest]
           /\ captures'[worker.set].status = "sealed"
           /\ captures'[worker.set].manifest = worker.manifest
           /\ \A t \in Sets : t # worker.set => captures'[t] = captures[t]
           /\ captures' \in [Sets -> [status : SetStatus, manifest : Manifest \cup {NoManifest}]]
           /\ Faithful(worker.manifest)
           /\ capturedThrough' = worker.manifest.high
           /\ IF worker.manifest.from = 0
              THEN worker.manifest.high = capturedThrough
              ELSE worker.manifest.from = capturedThrough + 1
           /\ Files \subseteq scratch[worker.set]
<1>1. /\ captures' = [captures EXCEPT ![worker.set] =
                         [status |-> "sealed", manifest |-> worker.manifest]]
      /\ capturedThrough' = worker.manifest.high /\ worker.stage = "exported"
  BY DEF CaptureSeal
<1>2. /\ worker.set \in Sets /\ captures[worker.set].status = "capturing" /\ version = "2"
      /\ Faithful(worker.manifest) /\ Files \subseteq scratch[worker.set]
      /\ IF worker.manifest.from = 0
         THEN worker.manifest.high = capturedThrough
         ELSE worker.manifest.from = capturedThrough + 1
  BY <1>1 DEF LifecycleInv, CaptureInv, CaptureCurrent
<1>3. captures \in [Sets -> [status : SetStatus, manifest : Manifest \cup {NoManifest}]]
  BY DEF LifecycleInv, LifecycleTypeOK
<1>4. worker.manifest \in Manifest
  BY <1>2 DEF Faithful
<1> QED
  BY <1>1, <1>2, <1>3, <1>4 DEF SetStatus

\* How a step changes the captures.
CapturesChange ==
    \/ UNCHANGED <<captures, capturedThrough>>
    \/ \E s \in Sets : CaptureBegin(s) /\ Moves(s, "none", "capturing")
    \/ \E s \in Sets : \/ Moves(s, "capturing", "abandoned")
                       \/ Moves(s, "sealed", "uploaded")
                       \/ Moves(s, "uploaded", "verified")
    \/ CaptureSeal

\* Only these steps do.
LEMMA StepChangesCaptures == ASSUME LifecycleInv, LifecycleNext PROVE CapturesChange
<1> USE DEF lifeVars, lifeStoreVars, externalVars, callVars
<1>1. CASE InboxStep \/ StopAll
  BY <1>1 DEF InboxStep, StopAll, CapturesChange
<1>2. ASSUME NEW s \in Sets, CaptureVisit(s) PROVE CapturesChange
  <2>1. CASE VisitCapturing(s)
    BY <1>2, <2>1, VisitCapturingMoves DEF CapturesChange
  <2>2. CASE VisitUploaded(s) \/ VisitSealed(s) \/ VisitFinished(s)
    BY <1>2, <2>2 DEF CaptureVisit, VisitUploaded, VisitSealed, VisitFinished, CapturesChange
  <2> QED
    BY <1>2, <2>1, <2>2 DEF CaptureVisit
<1>3. ASSUME NEW s \in Sets, CaptureBegin(s) PROVE CapturesChange
  BY <1>3, BeginMoves DEF CapturesChange
<1>4. CASE UploadSave
  BY <1>4, UploadSaveMoves DEF CapturesChange
<1>5. CASE CaptureSeal
  BY <1>5 DEF CapturesChange
<1>6. CASE CaptureScan \/ CaptureSnapshot \/ CaptureExport \/ CaptureRemoveSnapshot \/ CaptureFail
  BY <1>6 DEF CaptureScan, CaptureSnapshot, CaptureExport, CaptureRemoveSnapshot, CaptureFail,
              CapturesChange
<1>7. CASE UploadParts \/ UploadManifest
  BY <1>7 DEF UploadParts, UploadManifest, UploadObject, CapturesChange
<1>8. ASSUME NEW s \in Sets, VerifyCatalog(s) PROVE CapturesChange
  BY <1>8, VerifyMoves DEF CapturesChange
<1>9. ASSUME NEW s \in Sets, \/ Sign(s) \/ FinishWrite(s) \/ FinishTorn(s) \/ FinishPut(s)
                             \/ FinishClean(s) \/ FinishFail(s) \/ Rehydrate(s)
      PROVE  CapturesChange
  BY <1>9 DEF Sign, FinishWrite, FinishTorn, FinishPut, FinishClean, FinishFail, Rehydrate,
              CapturesChange
<1>10. ASSUME NEW o \in Ops, NEW p \in Plans,
              Activate(o, p) \/ PlanRetirement(o, p) \/ AbortCheck(o, p)
       PROVE  CapturesChange
  BY <1>10 DEF Activate, PlanRetirement, AbortCheck, CapturesChange
<1>11. ASSUME NEW o \in Ops, RequestAbort(o) \/ ApplyCheck(o) PROVE CapturesChange
  BY <1>11 DEF RequestAbort, ApplyCheck, CapturesChange
<1>12. ASSUME NEW r \in inflight, ApplyCommit(r) \/ AbortCommit(r) PROVE CapturesChange
  BY <1>12 DEF ApplyCommit, AbortCommit, CapturesChange
<1>13. ASSUME NEW through \in Seqs, EvictCache(through) PROVE CapturesChange
  BY <1>13 DEF EvictCache, CapturesChange
<1> QED
  BY <1>1, <1>2, <1>3, <1>4, <1>5, <1>6, <1>7, <1>8, <1>9, <1>10, <1>11, <1>12, <1>13
     DEF LifecycleNext, CaptureNext

\* A step that keeps the sealed sets and their manifests keeps the partition.
LEMMA SealedKept ==
    ASSUME LifecycleInv, LogKept, capturedThrough' = capturedThrough,
           \A s \in Sets :
              /\ captures'[s].status \in SealedStatus <=> captures[s].status \in SealedStatus
              /\ captures[s].status \in SealedStatus =>
                    captures'[s].manifest = captures[s].manifest
    PROVE  SealedFaithful' /\ CapturesPartition'
<1>1. SealedFaithful /\ CapturesPartition
  BY DEF LifecycleInv, CaptureInv
<1>2. SealedFaithful'
  <2> SUFFICES ASSUME NEW s \in Sets, captures'[s].status \in SealedStatus
               PROVE  /\ version' = "2"
                      /\ Faithful(captures[s].manifest)'
                      /\ captures'[s].manifest.high <= capturedThrough'
    BY DEF SealedFaithful
  <2>1. /\ captures[s].status \in SealedStatus /\ version = "2"
        /\ captures'[s].manifest = captures[s].manifest
        /\ Faithful(captures[s].manifest)
        /\ captures[s].manifest.high <= capturedThrough
    BY <1>1 DEF SealedFaithful
  <2>2. PICK m : m = captures[s].manifest
    OBVIOUS
  <2>3. Faithful(m)'
    BY <2>1, <2>2, FaithfulKept
  <2>4. Faithful(captures[s].manifest)'
    BY <2>1, <2>2, <2>3 DEF Faithful
  <2> QED
    BY <2>1, <2>4 DEF LogKept
<1>3. \A s \in Sets, k \in Seqs : Exports(s, k)' <=> Exports(s, k)
  BY DEF Exports, SealedStatus
<1>4. CapturesPartition'
  BY <1>1, <1>3 DEF CapturesPartition
<1> QED
  BY <1>2, <1>4

\* A seal adds one range to the partition.
LEMMA SealKeepsPartition ==
    ASSUME LifecycleInv, LogKept, CaptureSeal
    PROVE  SealedFaithful' /\ CapturesPartition' /\ PendingIsNewest' /\ OnePendingSet'
<1> PICK w : w = worker.set
  OBVIOUS
<1> PICK m : m = worker.manifest
  OBVIOUS
<1>1. /\ w \in Sets /\ version = "2" /\ captures[w].status = "capturing"
      /\ captures'[w].status = "sealed" /\ captures'[w].manifest = m
      /\ \A t \in Sets : t # w => captures'[t] = captures[t]
      /\ Faithful(m) /\ capturedThrough' = m.high
      /\ IF m.from = 0 THEN m.high = capturedThrough ELSE m.from = capturedThrough + 1
  BY SealEffect
<1>2. /\ m.from \in Nat /\ m.through \in Nat /\ m.high \in Nat /\ capturedThrough \in Nat
      /\ IF m.from = 0 THEN m.through = 0 ELSE m.from <= m.through /\ m.through = m.high
  BY <1>1, ManifestFields, BoundsAssumption DEF Faithful, LifecycleInv, LifecycleTypeOK
<1>3. capturedThrough <= m.high
  BY <1>1, <1>2
<1>4. SealedFaithful /\ CapturesPartition /\ PendingIsNewest /\ OnePendingSet
  BY DEF LifecycleInv, CaptureInv
<1>5. \A t \in Sets : t # w => captures[t].status \notin PendingStatus
  BY <1>1, <1>4 DEF OnePendingSet, PendingStatus
<1>6. SealedFaithful'
  <2> SUFFICES ASSUME NEW s \in Sets, captures'[s].status \in SealedStatus
               PROVE  /\ version' = "2"
                      /\ Faithful(captures[s].manifest)'
                      /\ captures'[s].manifest.high <= capturedThrough'
    BY DEF SealedFaithful
  <2>1. version' = "2" /\ Faithful(m)'
    BY <1>1, FaithfulKept DEF LogKept
  <2>2. CASE s = w
    BY <2>1, <2>2, <1>1, <1>2 DEF Faithful
  <2>3. CASE s # w
    <3>1. /\ captures'[s] = captures[s] /\ Faithful(captures[s].manifest)
          /\ captures[s].manifest.high <= capturedThrough
      BY <2>3, <1>1, <1>4 DEF SealedFaithful
    <3>2. PICK x : x = captures[s].manifest
      OBVIOUS
    <3>3. Faithful(x)' /\ x.high \in Nat
      BY <1>1, <3>1, <3>2, FaithfulKept, ManifestFields DEF Faithful
    <3>4. Faithful(captures[s].manifest)'
      BY <3>1, <3>2, <3>3 DEF Faithful
    <3> QED
      BY <2>1, <3>1, <3>2, <3>3, <3>4, <1>1, <1>2, <1>3
  <2> QED
    BY <2>2, <2>3
<1>7. \A k \in Seqs : Exports(w, k)' <=> k \in m.from..m.through
  <2> SUFFICES ASSUME NEW k \in Seqs PROVE Exports(w, k)' <=> k \in m.from..m.through
    OBVIOUS
  <2>1. m.records[k] = IF k \in m.from..m.through THEN Exported(k) ELSE NoBody
    BY <1>1 DEF Faithful
  <2>2. k \in m.from..m.through => k \in 1..head
    BY <1>1, <1>2, BoundsAssumption DEF Faithful, Seqs, LogKept
  <2>3. k \in m.from..m.through => Exported(k) # NoBody
    BY <2>2, <1>1, ExportedType DEF LifecycleInv
  <2> QED
    BY <2>1, <2>3, <1>1 DEF Exports
<1>8. \A k \in Seqs : k \in m.from..m.through => capturedThrough < k /\ k <= m.high
  BY <1>1, <1>2, BoundsAssumption DEF Seqs
<1>9. \A k \in Seqs : capturedThrough < k /\ k <= m.high => k \in m.from..m.through
  BY <1>1, <1>2, BoundsAssumption DEF Seqs
<1>10. \A k \in Seqs, s \in Sets : s # w => (Exports(s, k)' <=> Exports(s, k))
  BY <1>1 DEF Exports
<1>11. \A k \in Seqs : ~Exports(w, k)
  BY <1>1 DEF Exports
<1>12. CapturesPartition'
  <2> SUFFICES ASSUME NEW k \in Seqs
               PROVE  /\ k <= m.high => \E s \in Sets : Exports(s, k)'
                      /\ \A s, t \in Sets : Exports(s, k)' /\ Exports(t, k)' => s = t
                      /\ \A s \in Sets : Exports(s, k)' => k <= m.high
    BY <1>1 DEF CapturesPartition
  <2>1. k \in Nat /\ (k <= capturedThrough \/ capturedThrough < k)
        /\ (k <= capturedThrough => k <= m.high)
    BY <1>2, <1>3, BoundsAssumption DEF Seqs
  <2>2. /\ k <= capturedThrough => \E s \in Sets : Exports(s, k)
        /\ \A s, t \in Sets : Exports(s, k) /\ Exports(t, k) => s = t
        /\ \A s \in Sets : Exports(s, k) => k <= capturedThrough
    BY <1>4 DEF CapturesPartition
  <2>3. CASE capturedThrough < k
    <3>1. \A s \in Sets : ~Exports(s, k)
      BY <2>1, <2>2, <2>3, <1>2
    <3> QED
      BY <3>1, <2>3, <1>1, <1>7, <1>8, <1>9, <1>10
  <2>4. CASE k <= capturedThrough
    <3>1. k \notin m.from..m.through
      BY <2>1, <2>4, <1>2, <1>8
    <3>2. ~Exports(w, k)'
      BY <3>1, <1>7
    <3> QED
      BY <3>2, <2>1, <2>2, <2>4, <1>10, <1>11
  <2> QED
    BY <2>1, <2>3, <2>4
<1>13. PendingIsNewest'
  <2> SUFFICES ASSUME NEW s \in Sets, NEW t \in Sets,
                      captures'[s].status \in {"sealed", "uploaded"},
                      captures'[t].status = "verified", captures'[s].manifest.from # 0
               PROVE  captures'[t].manifest.high < captures'[s].manifest.from
    BY DEF PendingIsNewest
  <2>1. s = w
    BY <1>1, <1>5 DEF PendingStatus
  <2>2. t # w /\ captures'[t] = captures[t] /\ captures[t].status = "verified"
    BY <1>1
  <2>3. /\ captures[t].manifest.high <= capturedThrough /\ captures[t].manifest.high \in Nat
    BY <2>2, <1>4, ManifestFields DEF SealedFaithful, SealedStatus, Faithful
  <2> QED
    BY <2>1, <2>2, <2>3, <1>1, <1>2
<1>14. OnePendingSet'
  BY <1>1, <1>5 DEF OnePendingSet, PendingStatus
<1> QED
  BY <1>6, <1>12, <1>13, <1>14

\* A new set is begun only when no other one is pending.
LEMMA BeginIsAlone ==
    ASSUME LifecycleInv, NEW s \in Sets, CaptureBegin(s)
    PROVE  \A t \in Sets : captures[t].status \notin PendingStatus
<1>1. worker.stage = "scan" /\ worker.todo = {}
  BY DEF CaptureBegin
<1>2. \A t \in Sets : worker.list[t] \notin PendingStatus
  BY <1>1 DEF LifecycleInv, CaptureInv, ScanCurrent
<1> QED
  BY <1>1, <1>2 DEF LifecycleInv, CaptureInv, ScanCurrent, PendingStatus

\* The sealed sets, in every step.
LEMMA SetsStep ==
    ASSUME LifecycleInv, LifecycleNext
    PROVE  SealedFaithful' /\ CapturesPartition' /\ PendingIsNewest' /\ OnePendingSet'
<1>0. LogKept /\ CapturesChange /\ PendingIsNewest /\ OnePendingSet
  BY StepKeepsLog, StepChangesCaptures DEF LifecycleInv, CaptureInv
<1>1. CASE UNCHANGED <<captures, capturedThrough>>
  <2>1. SealedFaithful' /\ CapturesPartition'
    BY <1>0, <1>1, SealedKept
  <2> QED
    BY <1>0, <1>1, <2>1 DEF PendingIsNewest, OnePendingSet
<1>2. ASSUME NEW s \in Sets, CaptureBegin(s), Moves(s, "none", "capturing")
      PROVE  SealedFaithful' /\ CapturesPartition' /\ PendingIsNewest' /\ OnePendingSet'
  <2>1. \A t \in Sets : captures[t].status \notin PendingStatus
    BY <1>2, BeginIsAlone
  <2>2. SealedFaithful' /\ CapturesPartition'
    BY <1>0, <1>2, SealedKept DEF Moves, SealedStatus
  <2>3. OnePendingSet' /\ PendingIsNewest'
    BY <1>2, <2>1 DEF Moves, OnePendingSet, PendingIsNewest, PendingStatus
  <2> QED
    BY <2>2, <2>3
<1>3. ASSUME NEW s \in Sets, Moves(s, "capturing", "abandoned")
      PROVE  SealedFaithful' /\ CapturesPartition' /\ PendingIsNewest' /\ OnePendingSet'
  <2>1. SealedFaithful' /\ CapturesPartition'
    BY <1>0, <1>3, SealedKept DEF Moves, SealedStatus
  <2>2. OnePendingSet' /\ PendingIsNewest'
    BY <1>0, <1>3 DEF Moves, OnePendingSet, PendingIsNewest
  <2> QED
    BY <2>1, <2>2
<1>4. ASSUME NEW s \in Sets, Moves(s, "sealed", "uploaded")
      PROVE  SealedFaithful' /\ CapturesPartition' /\ PendingIsNewest' /\ OnePendingSet'
  <2>1. SealedFaithful' /\ CapturesPartition'
    BY <1>0, <1>4, SealedKept DEF Moves, SealedStatus
  <2>2. OnePendingSet' /\ PendingIsNewest'
    BY <1>0, <1>4 DEF Moves, OnePendingSet, PendingIsNewest
  <2> QED
    BY <2>1, <2>2
<1>5. ASSUME NEW s \in Sets, Moves(s, "uploaded", "verified")
      PROVE  SealedFaithful' /\ CapturesPartition' /\ PendingIsNewest' /\ OnePendingSet'
  <2>1. SealedFaithful' /\ CapturesPartition'
    BY <1>0, <1>5, SealedKept DEF Moves, SealedStatus
  <2>2. \A t \in Sets : captures'[t].status \notin PendingStatus
    BY <1>0, <1>5 DEF Moves, OnePendingSet, PendingStatus
  <2>3. OnePendingSet' /\ PendingIsNewest'
    BY <2>2 DEF OnePendingSet, PendingIsNewest, PendingStatus
  <2> QED
    BY <2>1, <2>3
<1>6. CASE CaptureSeal
  BY <1>0, <1>6, SealKeepsPartition
<1> QED
  BY <1>0, <1>1, <1>2, <1>3, <1>4, <1>5, <1>6 DEF CapturesChange

\* The steps of Capture and the calls that interfere with it; in every other
\* step the worker and its files stay as they are.
BackupNext ==
    \/ StopAll
    \/ CaptureNext
    \/ \E s \in Sets : \/ VerifyCatalog(s) \/ FinishWrite(s) \/ FinishTorn(s)
                       \/ FinishPut(s) \/ FinishClean(s) \/ FinishFail(s) \/ Sign(s)

backupVars == <<captures, capturedThrough, catalog, scratch, cloud, signed, worker, finishing>>

\* The rest leaves the backup alone.
LEMMA NotBackup ==
    ASSUME LifecycleNext, ~BackupNext
    PROVE  UNCHANGED backupVars
<1> USE DEF lifeVars, lifeStoreVars, externalVars, callVars, backupVars
<1>1. CASE InboxStep
  BY <1>1 DEF InboxStep
<1>2. ASSUME NEW s \in Sets, Rehydrate(s)
      PROVE  UNCHANGED backupVars
  BY <1>2 DEF Rehydrate
<1>3. ASSUME NEW o \in Ops, NEW p \in Plans,
              Activate(o, p) \/ PlanRetirement(o, p) \/ AbortCheck(o, p)
      PROVE  UNCHANGED backupVars
  BY <1>3 DEF Activate, PlanRetirement, AbortCheck
<1>4. ASSUME NEW o \in Ops, RequestAbort(o) \/ ApplyCheck(o)
      PROVE  UNCHANGED backupVars
  BY <1>4 DEF RequestAbort, ApplyCheck
<1>5. ASSUME NEW r \in inflight, ApplyCommit(r) \/ AbortCommit(r)
      PROVE  UNCHANGED backupVars
  BY <1>5 DEF ApplyCommit, AbortCommit
<1>6. ASSUME NEW through \in Seqs, EvictCache(through)
      PROVE  UNCHANGED backupVars
  BY <1>6 DEF EvictCache
<1> QED
  BY <1>1, <1>2, <1>3, <1>4, <1>5, <1>6 DEF LifecycleNext, BackupNext

\* A step that leaves the running Capture and its set alone.
LEMMA WorkerKept ==
    ASSUME LifecycleInv, LogKept, worker' = worker, capturedThrough' = capturedThrough,
           \A s \in Sets : /\ captures[s].status \in {"capturing", "sealed"} =>
                                captures'[s] = captures[s]
                           /\ \/ captures'[s] = captures[s]
                              \/ Moves(s, "uploaded", "verified"),
           worker.stage = "exported" => Files \subseteq scratch'[worker.set]
    PROVE  ScanCurrent' /\ CaptureCurrent'
<1>1. ScanCurrent /\ CaptureCurrent
  BY DEF LifecycleInv, CaptureInv
<1>2. ScanCurrent'
  BY <1>1 DEF ScanCurrent, Moves
<1>3. worker.stage \in {"snapshot", "exported"} => Faithful(worker.manifest)'
  <2> SUFFICES ASSUME worker.stage \in {"snapshot", "exported"}
               PROVE  Faithful(worker.manifest)'
    OBVIOUS
  <2>1. PICK m : m = worker.manifest
    OBVIOUS
  <2>2. version = "2" /\ Faithful(m)
    BY <1>1, <2>1 DEF CaptureCurrent
  <2>3. Faithful(m)' /\ worker'.manifest = m
    BY <2>1, <2>2, FaithfulKept
  <2> QED
    BY <2>3 DEF Faithful
<1>4. worker.stage \in {"begun", "snapshot", "exported"} =>
         worker.set \in Sets /\ captures'[worker.set].status = "capturing"
  BY <1>1 DEF CaptureCurrent
<1>5. worker.stage \in {"sealed", "upload", "manifest", "save"} =>
         /\ worker.set \in Sets
         /\ captures'[worker.set] = [status |-> "sealed", manifest |-> worker.manifest]
  BY <1>1 DEF CaptureCurrent
<1>6. CaptureCurrent'
  BY <1>1, <1>3, <1>4, <1>5 DEF CaptureCurrent, LogKept
<1> QED
  BY <1>2, <1>6

\* An ended Capture owes nothing.
LEMMA WorkerIdle ==
    ASSUME worker' = Idle
    PROVE  ScanCurrent' /\ CaptureCurrent'
<1>1. worker'.stage = "idle"
  BY IdleFields
<1> QED
  BY <1>1 DEF ScanCurrent, CaptureCurrent

\* One set of the scan.
LEMMA VisitKeepsWorker ==
    ASSUME LifecycleInv, NEW s \in Sets, CaptureVisit(s)
    PROVE  ScanCurrent' /\ CaptureCurrent'
<1>1. /\ ScanCurrent /\ worker.stage = "scan"
      /\ captures \in [Sets -> [status : SetStatus, manifest : Manifest \cup {NoManifest}]]
      /\ worker \in [stage : {"idle", "scan", "begun", "snapshot", "exported",
                              "sealed", "upload", "manifest", "save"},
                     set : Sets \cup {NoSet}, list : [Sets -> SetStatus],
                     todo : SUBSET Sets, manifest : Manifest \cup {NoManifest}]
  BY DEF CaptureVisit, LifecycleInv, CaptureInv, LifecycleTypeOK
<1>2. CASE VisitUploaded(s)
  BY <1>2, WorkerIdle DEF VisitUploaded
<1>3. CASE VisitSealed(s)
  <2>1. /\ worker'.stage = "upload" /\ worker'.set = s
        /\ worker'.manifest = captures[s].manifest /\ captures' = captures
    BY <1>3, IdleFields DEF VisitSealed
  <2>2. captures[s].status = "sealed"
    BY <1>1, <1>3 DEF VisitSealed, ScanCurrent
  <2>3. captures[s] = [status |-> "sealed", manifest |-> captures[s].manifest]
    BY <1>1, <2>2
  <2> QED
    BY <2>1, <2>2, <2>3 DEF ScanCurrent, CaptureCurrent
<1>4. CASE VisitCapturing(s)
  <2>1. Moves(s, "capturing", "abandoned")
    BY <1>4, VisitCapturingMoves
  <2>2. /\ worker'.stage = "scan" /\ worker'.todo = worker.todo
        /\ worker'.list[s] = "abandoned"
        /\ \A t \in Sets : t # s => worker'.list[t] = worker.list[t]
    BY <1>1, <1>4 DEF VisitCapturing
  <2>3. ScanCurrent'
    BY <1>1, <2>1, <2>2 DEF ScanCurrent, Moves, PendingStatus
  <2> QED
    BY <2>2, <2>3 DEF CaptureCurrent
<1>5. CASE VisitFinished(s)
  <2>1. /\ worker'.stage = "scan" /\ worker'.todo = worker.todo \ {s}
        /\ worker'.list = worker.list /\ captures' = captures
        /\ worker.list[s] \in {"abandoned", "verified"}
    BY <1>1, <1>5 DEF VisitFinished
  <2> QED
    BY <1>1, <2>1 DEF ScanCurrent, CaptureCurrent, PendingStatus
<1> QED
  BY <1>2, <1>3, <1>4, <1>5 DEF CaptureVisit

\* The steps of Capture itself.
LEMMA CaptureKeepsWorker ==
    ASSUME LifecycleInv, LogKept, CaptureNext
    PROVE  ScanCurrent' /\ CaptureCurrent'
<1>0. /\ ScanCurrent /\ CaptureCurrent
      /\ captures \in [Sets -> [status : SetStatus, manifest : Manifest \cup {NoManifest}]]
      /\ scratch \in [Sets -> SUBSET {"snapshot", "parts", "manifest", "complete", "torn"}]
      /\ worker \in [stage : {"idle", "scan", "begun", "snapshot", "exported",
                              "sealed", "upload", "manifest", "save"},
                     set : Sets \cup {NoSet}, list : [Sets -> SetStatus],
                     todo : SUBSET Sets, manifest : Manifest \cup {NoManifest}]
  BY DEF LifecycleInv, CaptureInv, LifecycleTypeOK
<1>1. CASE CaptureScan
  <2>1. /\ worker'.stage = "scan" /\ captures' = captures
        /\ \A s \in Sets : worker'.list[s] = captures[s].status
        /\ worker'.todo = {s \in Sets : captures[s].status # "none"}
    BY <1>1, IdleFields DEF CaptureScan, lifeStoreVars
  <2> QED
    BY <2>1 DEF ScanCurrent, CaptureCurrent, PendingStatus
<1>2. ASSUME NEW s \in Sets, CaptureVisit(s) PROVE ScanCurrent' /\ CaptureCurrent'
  BY <1>2, VisitKeepsWorker
<1>3. ASSUME NEW s \in Sets, CaptureBegin(s) PROVE ScanCurrent' /\ CaptureCurrent'
  <2>1. worker'.stage = "begun" /\ worker'.set = s
    BY <1>3, IdleFields DEF CaptureBegin
  <2>2. captures'[s].status = "capturing"
    BY <1>3, BeginMoves DEF Moves
  <2> QED
    BY <2>1, <2>2 DEF ScanCurrent, CaptureCurrent
<1>4. CASE CaptureSnapshot
  <2>1. /\ version = "2" /\ worker.stage = "begun" /\ worker'.stage = "snapshot"
        /\ worker'.set = worker.set /\ Faithful(worker'.manifest)
        /\ IF worker'.manifest.from = 0 THEN worker'.manifest.high = capturedThrough
                                        ELSE worker'.manifest.from = capturedThrough + 1
    BY <1>4, SnapshotEffect
  <2>2. captures' = captures /\ capturedThrough' = capturedThrough
    BY <1>4 DEF CaptureSnapshot, lifeStoreVars
  <2>3. PICK m : m = worker'.manifest
    OBVIOUS
  <2>4. Faithful(m)'
    BY <2>1, <2>3, FaithfulKept
  <2>5. Faithful(worker.manifest)'
    BY <2>3, <2>4 DEF Faithful
  <2>6. worker.set \in Sets /\ captures[worker.set].status = "capturing" /\ version' = "2"
    BY <1>0, <2>1 DEF CaptureCurrent, LogKept
  <2> QED
    BY <2>1, <2>2, <2>5, <2>6 DEF ScanCurrent, CaptureCurrent
<1>5. CASE CaptureExport
  <2>1. /\ worker.stage = "snapshot" /\ worker'.stage = "exported"
        /\ worker'.set = worker.set /\ worker'.manifest = worker.manifest
        /\ scratch' = [scratch EXCEPT ![worker.set] = @ \cup {"parts", "manifest"}]
        /\ captures' = captures /\ capturedThrough' = capturedThrough
    BY <1>0, <1>5 DEF CaptureExport, lifeStoreVars
  <2>2. /\ worker.set \in Sets /\ captures[worker.set].status = "capturing" /\ version = "2"
        /\ Faithful(worker.manifest)
        /\ IF worker.manifest.from = 0 THEN worker.manifest.high = capturedThrough
                                       ELSE worker.manifest.from = capturedThrough + 1
    BY <1>0, <2>1 DEF CaptureCurrent
  <2>3. PICK m : m = worker.manifest
    OBVIOUS
  <2>4. Faithful(m)' /\ version' = "2"
    BY <2>2, <2>3, FaithfulKept DEF LogKept
  <2>5. Faithful(worker.manifest)'
    BY <2>1, <2>3, <2>4 DEF Faithful
  <2>6. Files \subseteq scratch'[worker.set]
    BY <1>0, <2>1, <2>2 DEF Files
  <2> QED
    BY <2>1, <2>2, <2>4, <2>5, <2>6 DEF ScanCurrent, CaptureCurrent
<1>6. CASE CaptureSeal
  <2>1. worker'.stage = "sealed" /\ worker'.set = worker.set /\ worker'.manifest = worker.manifest
    BY <1>0, <1>6 DEF CaptureSeal
  <2>2. /\ worker.set \in Sets
        /\ captures'[worker.set] = [status |-> "sealed", manifest |-> worker.manifest]
    BY <1>6, SealEffect
  <2> QED
    BY <2>1, <2>2 DEF ScanCurrent, CaptureCurrent
<1>7. CASE CaptureRemoveSnapshot \/ UploadParts \/ UploadManifest
  <2>1. /\ worker.stage \in {"sealed", "upload", "manifest"}
        /\ worker'.stage \in {"upload", "manifest", "save"}
        /\ worker'.set = worker.set /\ worker'.manifest = worker.manifest
        /\ captures' = captures
    BY <1>0, <1>7 DEF CaptureRemoveSnapshot, UploadParts, UploadManifest, UploadObject, lifeStoreVars
  <2> QED
    BY <1>0, <2>1 DEF ScanCurrent, CaptureCurrent
<1>8. CASE UploadSave \/ CaptureFail
  BY <1>8, WorkerIdle DEF UploadSave, CaptureFail
<1> QED
  BY <1>1, <1>2, <1>3, <1>4, <1>5, <1>6, <1>7, <1>8 DEF CaptureNext

\* The files of a pending set are never removed.
LEMMA FilesKept ==
    ASSUME LifecycleInv, LifecycleNext, NEW t \in Sets,
           captures[t].status \in PendingStatus, Files \subseteq scratch[t]
    PROVE  Files \subseteq scratch'[t]
<1> USE DEF Files
<1>0. /\ ScanCurrent /\ CaptureCurrent /\ CatalogSound
      /\ scratch \in [Sets -> SUBSET {"snapshot", "parts", "manifest", "complete", "torn"}]
  BY DEF LifecycleInv, CaptureInv, LifecycleTypeOK
<1>1. CASE ~BackupNext
  BY <1>1, NotBackup DEF backupVars
<1>2. CASE StopAll
  BY <1>2 DEF StopAll, externalVars
<1>3. ASSUME NEW s \in Sets, CaptureVisit(s) PROVE Files \subseteq scratch'[t]
  <2>1. CASE VisitFinished(s)
    <3>1. /\ worker.list[s] \in {"abandoned", "verified"} /\ worker.stage = "scan"
          /\ scratch' = [scratch EXCEPT ![s] = IF worker.list[s] = "abandoned" THEN {}
                                               ELSE @ \cap Kept]
      BY <1>3, <2>1 DEF CaptureVisit, VisitFinished
    <3>2. captures[s].status \in {"abandoned", "verified"}
      BY <1>0, <3>1 DEF ScanCurrent
    <3>3. s # t
      BY <3>2 DEF PendingStatus
    <3> QED
      BY <1>0, <3>1, <3>3
  <2>2. CASE VisitUploaded(s) \/ VisitSealed(s) \/ VisitCapturing(s)
    BY <2>2 DEF VisitUploaded, VisitSealed, VisitCapturing
  <2> QED
    BY <1>3, <2>1, <2>2 DEF CaptureVisit
<1>4. ASSUME NEW s \in Sets, CaptureBegin(s) PROVE Files \subseteq scratch'[t]
  BY <1>4 DEF CaptureBegin, externalVars
<1>5. CASE CaptureScan \/ CaptureSeal \/ CaptureFail \/ UploadSave
  BY <1>5 DEF CaptureScan, CaptureSeal, CaptureFail, UploadSave, externalVars
<1>6. CASE UploadParts \/ UploadManifest
  BY <1>6 DEF UploadParts, UploadManifest, UploadObject
<1>7. CASE CaptureSnapshot \/ CaptureExport \/ CaptureRemoveSnapshot
  <2>1. \E S \in SUBSET {"snapshot", "parts", "manifest"} :
           \/ scratch' = [scratch EXCEPT ![worker.set] = @ \cup S]
           \/ scratch' = [scratch EXCEPT ![worker.set] = @ \ {"snapshot"}]
    BY <1>7 DEF CaptureSnapshot, CaptureExport, CaptureRemoveSnapshot
  <2> QED
    BY <1>0, <2>1
<1>8. ASSUME NEW s \in Sets, FinishWrite(s) \/ FinishTorn(s) PROVE Files \subseteq scratch'[t]
  BY <1>0, <1>8 DEF FinishWrite, FinishTorn
<1>9. ASSUME NEW s \in Sets, FinishClean(s) PROVE Files \subseteq scratch'[t]
  <2>1. finishing[s] = "clean" /\ scratch' = [scratch EXCEPT ![s] = @ \cap Kept]
    BY <1>9 DEF FinishClean
  <2>2. captures[s].status = "verified"
    BY <1>0, <2>1 DEF CatalogSound
  <2>3. s # t
    BY <2>2 DEF PendingStatus
  <2> QED
    BY <1>0, <2>1, <2>3
<1>10. ASSUME NEW s \in Sets, VerifyCatalog(s) \/ FinishPut(s) \/ FinishFail(s) \/ Sign(s)
       PROVE  Files \subseteq scratch'[t]
  BY <1>10 DEF VerifyCatalog, FinishPut, FinishFail, Sign, externalVars
<1> QED
  BY <1>1, <1>2, <1>3, <1>4, <1>5, <1>6, <1>7, <1>8, <1>9, <1>10 DEF BackupNext, CaptureNext

\* The running Capture, in every step.
LEMMA WorkerStep ==
    ASSUME LifecycleInv, LifecycleNext
    PROVE  ScanCurrent' /\ CaptureCurrent'
<1>0. LogKept
  BY StepKeepsLog
<1>1. CASE CaptureNext
  BY <1>0, <1>1, CaptureKeepsWorker
<1>2. CASE StopAll
  BY <1>2, WorkerIdle DEF StopAll
<1>3. worker.stage = "exported" => Files \subseteq scratch'[worker.set]
  <2> SUFFICES ASSUME worker.stage = "exported" PROVE Files \subseteq scratch'[worker.set]
    OBVIOUS
  <2>1. /\ worker.set \in Sets /\ captures[worker.set].status \in PendingStatus
        /\ Files \subseteq scratch[worker.set]
    BY DEF LifecycleInv, CaptureInv, CaptureCurrent, PendingStatus
  <2> QED
    BY <2>1, FilesKept
<1>4. ASSUME NEW s \in Sets, VerifyCatalog(s) PROVE ScanCurrent' /\ CaptureCurrent'
  <2>1. worker' = worker /\ capturedThrough' = capturedThrough
    BY <1>4 DEF VerifyCatalog
  <2>2. Moves(s, "uploaded", "verified") \/ captures' = captures
    BY <1>4, VerifyMoves
  <2>3. \A t \in Sets : /\ captures[t].status \in {"capturing", "sealed"} =>
                              captures'[t] = captures[t]
                        /\ \/ captures'[t] = captures[t]
                           \/ Moves(t, "uploaded", "verified")
    <3> SUFFICES ASSUME NEW t \in Sets
                 PROVE  /\ captures[t].status \in {"capturing", "sealed"} =>
                              captures'[t] = captures[t]
                        /\ \/ captures'[t] = captures[t]
                           \/ Moves(t, "uploaded", "verified")
      OBVIOUS
    <3>1. CASE t = s
      <4>1. captures' = captures => captures'[t] = captures[t]
        OBVIOUS
      <4>2. Moves(s, "uploaded", "verified") => captures[t].status = "uploaded"
        BY <3>1 DEF Moves
      <4> QED
        BY <3>1, <2>2, <4>1, <4>2
    <3>2. CASE t # s
      BY <3>2, <2>2 DEF Moves
    <3> QED
      BY <3>1, <3>2
  <2> QED
    BY <1>0, <1>3, <2>1, <2>3, WorkerKept
<1>5. ASSUME NEW s \in Sets, \/ FinishWrite(s) \/ FinishTorn(s) \/ FinishPut(s)
                             \/ FinishClean(s) \/ FinishFail(s) \/ Sign(s)
      PROVE  ScanCurrent' /\ CaptureCurrent'
  <2>1. UNCHANGED <<worker, captures, capturedThrough>>
    BY <1>5 DEF FinishWrite, FinishTorn, FinishPut, FinishClean, FinishFail, Sign,
                lifeStoreVars, callVars
  <2> QED
    BY <1>0, <1>3, <2>1, WorkerKept
<1>6. CASE ~BackupNext
  <2>1. UNCHANGED <<worker, captures, capturedThrough>>
    BY <1>6, NotBackup DEF backupVars
  <2> QED
    BY <1>0, <1>3, <2>1, WorkerKept
<1> QED
  BY <1>1, <1>2, <1>4, <1>5, <1>6 DEF BackupNext

\* A sealed set keeps its files, in every step.
LEMMA ResumableStep ==
    ASSUME LifecycleInv, LifecycleNext
    PROVE  SealedResumable'
<1> SUFFICES ASSUME NEW s \in Sets, captures'[s].status \in {"sealed", "uploaded"}
             PROVE  Files \subseteq scratch'[s]
  BY DEF SealedResumable, Files
<1>0. CapturesChange /\ SealedResumable
  BY StepChangesCaptures DEF LifecycleInv, CaptureInv
<1>1. CASE captures[s].status \in {"sealed", "uploaded"}
  BY <1>0, <1>1, FilesKept DEF SealedResumable, PendingStatus, Files
<1>2. CASE captures[s].status \notin {"sealed", "uploaded"}
  <2>1. CASE CaptureSeal
    <3>1. /\ worker.set \in Sets /\ captures[worker.set].status = "capturing"
          /\ Files \subseteq scratch[worker.set]
          /\ \A t \in Sets : t # worker.set => captures'[t] = captures[t]
      BY <2>1, SealEffect
    <3>2. s = worker.set
      BY <1>2, <3>1
    <3> QED
      BY <3>1, <3>2, FilesKept DEF PendingStatus
  <2>2. CASE UNCHANGED <<captures, capturedThrough>>
    BY <1>2, <2>2
  <2>3. ASSUME NEW t \in Sets, \/ Moves(t, "none", "capturing")
                               \/ Moves(t, "capturing", "abandoned")
                               \/ Moves(t, "sealed", "uploaded")
                               \/ Moves(t, "uploaded", "verified")
        PROVE  FALSE
    BY <1>2, <2>3 DEF Moves
  <2> QED
    BY <1>0, <2>1, <2>2, <2>3 DEF CapturesChange
<1> QED
  BY <1>1, <1>2

\* A step that verifies no set keeps the catalog sound.
LEMMA CatalogKept ==
    ASSUME LifecycleInv, catalog' = catalog, CapturesChange,
           \A s \in Sets : ~Moves(s, "uploaded", "verified"),
           \A s \in Sets : finishing'[s] # "none" => finishing[s] # "none",
           signed \subseteq signed', \A s \in signed' : Files \subseteq cloud'[s]
    PROVE  CatalogSound'
<1>1. \A s \in Sets : \/ captures'[s] = captures[s]
                      \/ captures[s].status # "verified" /\ captures'[s].status # "verified"
  <2>1. CASE CaptureSeal
    BY <2>1, SealEffect
  <2>2. CASE UNCHANGED <<captures, capturedThrough>>
    BY <2>2
  <2>3. ASSUME NEW t \in Sets, \/ Moves(t, "none", "capturing")
                               \/ Moves(t, "capturing", "abandoned")
                               \/ Moves(t, "sealed", "uploaded")
        PROVE  \A s \in Sets :
                  \/ captures'[s] = captures[s]
                  \/ captures[s].status # "verified" /\ captures'[s].status # "verified"
    BY <2>3 DEF Moves
  <2> QED
    BY <2>1, <2>2, <2>3 DEF CapturesChange
<1>2. CatalogSound
  BY DEF LifecycleInv, CaptureInv
<1> QED
  BY <1>1, <1>2 DEF CatalogSound

\* The catalog, in every step.
LEMMA CatalogStep ==
    ASSUME LifecycleInv, LifecycleNext
    PROVE  CatalogSound'
<1> USE DEF lifeStoreVars, externalVars, callVars
<1>0. /\ CatalogSound /\ CapturesChange
      /\ cloud \in [Sets -> SUBSET {"parts", "manifest", "complete"}]
      /\ finishing \in [Sets -> {"none", "write", "put", "clean"}]
      /\ catalog \in [Sets -> Manifest \cup {NoManifest}]
      /\ signed \subseteq Sets
      /\ \A s \in signed : Files \subseteq cloud[s]
  BY StepChangesCaptures DEF LifecycleInv, CaptureInv, LifecycleTypeOK, CatalogSound
<1>1. ASSUME NEW s \in Sets, VerifyCatalog(s) PROVE CatalogSound'
  <2>1. /\ s \in signed /\ signed' = signed /\ cloud' = cloud
        /\ \/ /\ Moves(s, "uploaded", "verified")
              /\ catalog' = [catalog EXCEPT ![s] = captures[s].manifest]
           \/ captures[s].status = "verified" /\ UNCHANGED <<captures, catalog, capturedThrough>>
        /\ finishing' = [finishing EXCEPT ![s] = "write"]
    BY <1>1, VerifyMoves DEF VerifyCatalog
  <2>2. \A t \in Sets : t # s => /\ captures'[t] = captures[t]
                                 /\ catalog'[t] = catalog[t]
                                 /\ finishing'[t] = finishing[t]
    BY <1>0, <2>1 DEF Moves
  <2>3. /\ captures'[s].status = "verified"
        /\ captures'[s].manifest = captures[s].manifest
        /\ catalog'[s] = captures[s].manifest
    BY <1>0, <2>1 DEF Moves, CatalogSound
  <2> QED
    BY <1>0, <2>1, <2>2, <2>3 DEF CatalogSound
<1>2. ASSUME \A s \in Sets : ~VerifyCatalog(s), NEW s \in Sets
      PROVE  ~Moves(s, "uploaded", "verified") /\ catalog' = catalog
  <2>1. CASE ~BackupNext
    BY <2>1, NotBackup DEF backupVars, Moves
  <2>2. CASE StopAll
    BY <2>2 DEF StopAll, Moves
  <2>3. ASSUME NEW t \in Sets, CaptureVisit(t)
        PROVE  ~Moves(s, "uploaded", "verified") /\ catalog' = catalog
    <3>1. CASE VisitCapturing(t)
      BY <2>3, <3>1, VisitCapturingMoves DEF CaptureVisit, Moves
    <3>2. CASE VisitUploaded(t) \/ VisitSealed(t) \/ VisitFinished(t)
      BY <2>3, <3>2 DEF CaptureVisit, VisitUploaded, VisitSealed, VisitFinished, Moves
    <3> QED
      BY <2>3, <3>1, <3>2 DEF CaptureVisit
  <2>4. ASSUME NEW t \in Sets, CaptureBegin(t)
        PROVE  ~Moves(s, "uploaded", "verified") /\ catalog' = catalog
    BY <2>4, BeginMoves DEF CaptureBegin, Moves
  <2>5. CASE CaptureScan \/ CaptureSnapshot \/ CaptureExport \/ CaptureRemoveSnapshot \/ CaptureFail
    BY <2>5 DEF CaptureScan, CaptureSnapshot, CaptureExport, CaptureRemoveSnapshot, CaptureFail, Moves
  <2>6. CASE UploadParts \/ UploadManifest
    BY <2>6 DEF UploadParts, UploadManifest, UploadObject, Moves
  <2>7. CASE UploadSave
    BY <2>7, UploadSaveMoves DEF UploadSave, Moves
  <2>8. CASE CaptureSeal
    BY <2>8, SealEffect DEF CaptureSeal, Moves
  <2>9. ASSUME NEW t \in Sets, \/ FinishWrite(t) \/ FinishTorn(t) \/ FinishPut(t)
                               \/ FinishClean(t) \/ FinishFail(t) \/ Sign(t)
        PROVE  ~Moves(s, "uploaded", "verified") /\ catalog' = catalog
    BY <2>9 DEF FinishWrite, FinishTorn, FinishPut, FinishClean, FinishFail, Sign, Moves
  <2> QED
    BY <1>2, <2>1, <2>2, <2>3, <2>4, <2>5, <2>6, <2>7, <2>8, <2>9 DEF BackupNext, CaptureNext
<1>3. ASSUME \A s \in Sets : ~VerifyCatalog(s)
      PROVE  \A s \in Sets : finishing'[s] # "none" => finishing[s] # "none"
  <2>1. CASE ~BackupNext
    BY <2>1, NotBackup DEF backupVars
  <2>2. CASE StopAll
    BY <2>2 DEF StopAll
  <2>3. CASE CaptureNext
    BY <2>3 DEF CaptureNext, CaptureScan, CaptureVisit, CaptureBegin, CaptureSnapshot,
                CaptureExport, CaptureSeal, CaptureRemoveSnapshot, UploadParts,
                UploadManifest, UploadObject, UploadSave, CaptureFail
  <2>4. ASSUME NEW t \in Sets, \/ FinishWrite(t) \/ FinishTorn(t) \/ FinishPut(t)
                               \/ FinishClean(t) \/ FinishFail(t) \/ Sign(t)
        PROVE  \A s \in Sets : finishing'[s] # "none" => finishing[s] # "none"
    BY <1>0, <2>4 DEF FinishWrite, FinishTorn, FinishPut, FinishClean, FinishFail, Sign
  <2> QED
    BY <1>3, <2>1, <2>2, <2>3, <2>4 DEF BackupNext
<1>4. signed \subseteq signed' /\ \A s \in signed' : Files \subseteq cloud'[s]
  <2>1. CASE ~BackupNext
    BY <1>0, <2>1, NotBackup DEF backupVars
  <2>2. CASE UploadParts \/ UploadManifest
    <3>1. signed' = signed /\ \E x \in {"parts", "manifest"} :
             cloud' = [cloud EXCEPT ![worker.set] = @ \cup {x}]
      BY <2>2 DEF UploadParts, UploadManifest, UploadObject
    <3> QED
      BY <1>0, <3>1
  <2>3. ASSUME NEW t \in Sets, Sign(t)
        PROVE  signed \subseteq signed' /\ \A s \in signed' : Files \subseteq cloud'[s]
    BY <1>0, <2>3 DEF Sign, Files
  <2>4. ASSUME NEW t \in Sets, FinishPut(t)
        PROVE  signed \subseteq signed' /\ \A s \in signed' : Files \subseteq cloud'[s]
    BY <1>0, <2>4 DEF FinishPut
  <2>5. ASSUME NEW t \in Sets, \/ FinishWrite(t) \/ FinishTorn(t) \/ FinishClean(t)
                               \/ FinishFail(t) \/ VerifyCatalog(t)
        PROVE  signed' = signed /\ cloud' = cloud
    BY <2>5 DEF FinishWrite, FinishTorn, FinishClean, FinishFail, VerifyCatalog
  <2>6. CASE StopAll \/ (CaptureNext /\ ~UploadParts /\ ~UploadManifest)
    BY <1>0, <2>6 DEF StopAll, CaptureNext, CaptureScan, CaptureVisit, CaptureBegin, CaptureSnapshot,
                CaptureExport, CaptureSeal, CaptureRemoveSnapshot, UploadSave, CaptureFail
  <2> QED
    BY <1>0, <2>1, <2>2, <2>3, <2>4, <2>5, <2>6 DEF BackupNext
<1>5. CASE \A s \in Sets : ~VerifyCatalog(s)
  <2>1. CASE Sets = {}
    BY <1>0, <1>4, <2>1 DEF CatalogSound
  <2>2. CASE Sets # {}
    BY <1>0, <1>2, <1>3, <1>4, <1>5, <2>2, CatalogKept
  <2> QED
    BY <2>1, <2>2
<1> QED
  BY <1>1, <1>5

\* The floor reaches no further than the captured range, in every step.
LEMMA FrontierStep ==
    ASSUME LifecycleInv, LifecycleNext
    PROVE  CaptureFrontier'
<1>0. /\ LogKept /\ CapturesChange /\ CaptureFrontier /\ capturedThrough \in Nat
      /\ archiveFloor \in Nat
  BY StepKeepsLog, StepChangesCaptures, BoundsAssumption
     DEF LifecycleInv, CaptureInv, LifecycleTypeOK, IInv, TypeOK
<1>1. /\ capturedThrough <= capturedThrough' /\ capturedThrough' \in Nat
      /\ capturedThrough' <= head'
  <2>1. CASE CaptureSeal
    <3>1. /\ Faithful(worker.manifest) /\ capturedThrough' = worker.manifest.high
          /\ IF worker.manifest.from = 0 THEN worker.manifest.high = capturedThrough
                                         ELSE worker.manifest.from = capturedThrough + 1
      BY <2>1, SealEffect
    <3>2. worker.manifest.from \in Nat /\ worker.manifest.through \in Nat
          /\ worker.manifest.high \in Nat
      BY <3>1, ManifestFields DEF Faithful
    <3> QED
      BY <1>0, <3>1, <3>2 DEF Faithful, LogKept
  <2>2. CASE capturedThrough' = capturedThrough
    BY <1>0, <2>2 DEF CaptureFrontier, LogKept
  <2> QED
    BY <1>0, <2>1, <2>2 DEF CapturesChange, Moves
<1>2. CASE archiveFloor' = archiveFloor
  BY <1>0, <1>1, <1>2 DEF CaptureFrontier
<1>3. ASSUME NEW r \in inflight, ApplyCommit(r), Applicable(r) PROVE CaptureFrontier'
  <2> DEFINE p == r.st.plan
  <2>1. r.kind = "apply" /\ archiveFloor' = p.through /\ capturedThrough' = capturedThrough
    BY <1>3 DEF ApplyCommit, Retire
  <2>2. p \in Plan /\ p.through \in Nat /\ p.set \in Sets
    BY <1>3, <2>1, ApplicableRange, BoundsAssumption DEF Plan, Seqs
  <2>3. catalog[p.set] # NoManifest /\ catalog[p.set].through >= p.through
    BY <1>3 DEF Applicable, Covered
  <2>4. /\ captures[p.set].status = "verified" /\ catalog[p.set] = captures[p.set].manifest
    BY <2>2, <2>3 DEF LifecycleInv, CaptureInv, CatalogSound
  <2>5. Faithful(catalog[p.set]) /\ catalog[p.set].high <= capturedThrough
    BY <2>2, <2>4 DEF LifecycleInv, CaptureInv, SealedFaithful, SealedStatus
  <2>6. /\ catalog[p.set].from \in Nat /\ catalog[p.set].through \in Nat
        /\ catalog[p.set].high \in Nat /\ catalog[p.set].through <= catalog[p.set].high
    BY <2>5, ManifestFields DEF Faithful
  <2> QED
    BY <1>0, <1>1, <2>1, <2>2, <2>3, <2>5, <2>6 DEF CaptureFrontier
<1>4. archiveFloor' = archiveFloor \/ \E r \in inflight : ApplyCommit(r) /\ Applicable(r)
  <2>1. CASE InboxStep \/ StopAll
    <3>1. InboxNext /\ IInv /\ StoreExact
      BY <2>1 DEF InboxStep, StopAll, InboxNext, LifecycleInv
    <3> QED
      BY <3>1, InboxStepKeeps DEF InboxKeeps
  <2>2. CASE QuietNext
    BY <2>2, QuietIsQuiet DEF vars, storeVars
  <2>3. ASSUME NEW s \in Sets, Rehydrate(s) PROVE archiveFloor' = archiveFloor
    BY <2>3 DEF Rehydrate
  <2>4. ASSUME NEW through \in Seqs, EvictCache(through) PROVE archiveFloor' = archiveFloor
    BY <2>4 DEF EvictCache
  <2>5. ASSUME NEW r \in inflight, ApplyCommit(r), ~Applicable(r)
        PROVE  archiveFloor' = archiveFloor
    BY <2>5 DEF ApplyCommit
  <2> QED
    BY <2>1, <2>2, <2>3, <2>4, <2>5 DEF LifecycleNext, QuietNext
<1> QED
  BY <1>2, <1>3, <1>4

-----------------------------------------------------------------------------
(***************************************************************************)
(* Retirement.                                                             *)
(***************************************************************************)

\* A catalog entry is permanent.
LEMMA CatalogPermanent ==
    ASSUME LifecycleInv, LifecycleNext, NEW s \in Sets, catalog[s] # NoManifest
    PROVE  catalog'[s] = catalog[s]
<1>1. CapturesChange /\ CatalogSound /\ CatalogSound'
  BY StepChangesCaptures, CatalogStep DEF LifecycleInv, CaptureInv
<1>2. captures[s].status = "verified" /\ catalog[s] = captures[s].manifest
  BY <1>1 DEF CatalogSound
<1>3. captures'[s] = captures[s]
  <2>1. CASE CaptureSeal
    BY <1>2, <2>1, SealEffect
  <2>2. CASE UNCHANGED <<captures, capturedThrough>>
    BY <2>2
  <2>3. ASSUME NEW t \in Sets, \/ Moves(t, "none", "capturing")
                               \/ Moves(t, "capturing", "abandoned")
                               \/ Moves(t, "sealed", "uploaded")
                               \/ Moves(t, "uploaded", "verified")
        PROVE  captures'[s] = captures[s]
    BY <1>2, <2>3 DEF Moves
  <2> QED
    BY <1>1, <2>1, <2>2, <2>3 DEF CapturesChange
<1> QED
  BY <1>1, <1>2, <1>3 DEF CatalogSound

\* A catalog entry is true.
LEMMA CatalogFaithful ==
    ASSUME LifecycleInv, NEW s \in Sets, catalog[s] # NoManifest
    PROVE  /\ s \in signed
           /\ Files \subseteq cloud[s]
           /\ version = "2"
           /\ Faithful(catalog[s])
           /\ catalog[s] = captures[s].manifest
           /\ captures[s].status = "verified"
<1>1. captures[s].status = "verified" /\ catalog[s] = captures[s].manifest
      /\ s \in signed /\ Files \subseteq cloud[s]
  BY DEF LifecycleInv, CaptureInv, CatalogSound
<1> QED
  BY <1>1 DEF LifecycleInv, CaptureInv, SealedFaithful, SealedStatus

\* The calls of retirement, and the authority.
DecisionNext ==
    \/ StopAll
    \/ \E o \in Ops, p \in Plans : \/ Activate(o, p)
                                   \/ PlanRetirement(o, p)
                                   \/ AbortCheck(o, p)
    \/ \E o \in Ops : RequestAbort(o) \/ ApplyCheck(o)
    \/ \E r \in inflight : ApplyCommit(r) \/ AbortCommit(r)

decisionVars == <<operations, authority, inflight, archiveFloor>>

\* The rest leaves decisions and floor alone.
LEMMA NotDecision ==
    ASSUME LifecycleInv, LifecycleNext, ~DecisionNext
    PROVE  UNCHANGED decisionVars
<1> USE DEF lifeVars, lifeStoreVars, externalVars, callVars, decisionVars, storeVars
<1>1. CASE InboxStep
  <2>1. InboxNext /\ IInv /\ StoreExact /\ UNCHANGED <<operations, authority, inflight>>
    BY <1>1 DEF InboxStep, InboxNext, LifecycleInv
  <2> QED
    BY <2>1, InboxStepKeeps DEF InboxKeeps
<1>2. CASE CaptureNext
  BY <1>2 DEF CaptureNext, CaptureScan, CaptureVisit, CaptureBegin, CaptureSnapshot,
              CaptureExport, CaptureSeal, CaptureRemoveSnapshot, UploadParts,
              UploadManifest, UploadObject, UploadSave, CaptureFail
<1>3. ASSUME NEW s \in Sets, \/ Sign(s) \/ VerifyCatalog(s) \/ FinishWrite(s) \/ FinishTorn(s)
                             \/ FinishPut(s) \/ FinishClean(s) \/ FinishFail(s)
      PROVE  UNCHANGED decisionVars
  BY <1>3 DEF Sign, VerifyCatalog, FinishWrite, FinishTorn, FinishPut, FinishClean, FinishFail
<1>4. ASSUME NEW s \in Sets, Rehydrate(s) PROVE UNCHANGED decisionVars
  BY <1>4 DEF Rehydrate
<1>5. ASSUME NEW through \in Seqs, EvictCache(through) PROVE UNCHANGED decisionVars
  BY <1>5 DEF EvictCache
<1> QED
  BY <1>1, <1>2, <1>3, <1>4, <1>5 DEF LifecycleNext, DecisionNext

\* The decision history, the authority and the requests between them.
DecisionInv == OperationsSound /\ FloorTiled /\ AuthorityOnce /\ InflightSound

\* The types of the decision history.
LEMMA DecisionTypes ==
    ASSUME LifecycleInv
    PROVE  /\ operations \in [Ops -> [plan : Plans \cup {NoPlan},
                                      status : {"none", "pending", "completed", "aborted"},
                                      retired : 0..MaxSequence]]
           /\ authority \in [Ops -> [plan : Plans \cup {NoPlan},
                                     status : {"none", "ACTIVE", "ABORT_REQUESTED"}]]
           /\ \A r \in inflight : /\ r.kind \in {"apply", "abort"}
                                  /\ r.op \in Ops
                                  /\ r.st.plan \in Plans
           /\ NoPlan \notin Plans
           /\ archiveFloor \in 0..MaxSequence
           /\ archiveFloor \in Nat
           /\ \A p \in Plans : /\ p.from \in Seqs /\ p.from \in Nat /\ p.from > 0
                               /\ p.through \in Seqs /\ p.through \in Nat
                               /\ p.set \in Sets
           /\ DecisionInv
<1>1. \A p \in Plans : p.from \in Seqs /\ p.through \in Seqs /\ p.set \in Sets
  BY LifecycleAssumption DEF Plan
<1>2. \A k \in Seqs : k \in Nat /\ k > 0
  BY BoundsAssumption DEF Seqs
<1>3. archiveFloor \in 0..MaxSequence /\ archiveFloor \in Nat
  BY BoundsAssumption DEF LifecycleInv, IInv, TypeOK
<1> QED
  BY <1>1, <1>2, <1>3, LifecycleAssumption
     DEF LifecycleInv, LifecycleTypeOK, RetireInv, DecisionInv

\* The authority gives out plans and asks for aborts.
LEMMA AuthorityStep ==
    ASSUME LifecycleInv, NEW o \in Ops,
           (\E p \in Plans : Activate(o, p)) \/ RequestAbort(o)
    PROVE  DecisionInv'
<1> USE DecisionTypes
<1>1. UNCHANGED <<operations, inflight, archiveFloor>>
  BY DEF Activate, RequestAbort, lifeStoreVars, storeVars, callVars
<1>2. \A q \in Ops : /\ authority[q].plan # NoPlan => authority'[q].plan = authority[q].plan
                     /\ authority'[q].status = "none" => authority'[q].plan = NoPlan
  <2>1. ASSUME NEW p \in Plans, Activate(o, p)
        PROVE  \A q \in Ops :
                  /\ authority[q].plan # NoPlan => authority'[q].plan = authority[q].plan
                  /\ authority'[q].status = "none" => authority'[q].plan = NoPlan
    BY <2>1 DEF Activate, DecisionInv, AuthorityOnce
  <2>2. CASE RequestAbort(o)
    BY <2>2 DEF RequestAbort, DecisionInv, AuthorityOnce
  <2> QED
    BY <2>1, <2>2
<1>3. OperationsSound'
  BY <1>1, <1>2 DEF DecisionInv, OperationsSound, PlanValid
<1>4. InflightSound'
  BY <1>1, <1>2 DEF DecisionInv, InflightSound, PlanValid
<1>5. FloorTiled'
  BY <1>1 DEF DecisionInv, FloorTiled
<1>6. AuthorityOnce'
  BY <1>2 DEF AuthorityOnce
<1> QED
  BY <1>3, <1>4, <1>5, <1>6 DEF DecisionInv

\* A step that settles or plans an operation without retiring anything.
LEMMA OperationSet ==
    ASSUME LifecycleInv, NEW o \in Ops, NEW p \in Plans, NEW st \in {"pending", "aborted"},
           operations[o].status \in {"none", "pending"}, PlanValid(p),
           operations' = [operations EXCEPT ![o] =
                             [plan |-> p, status |-> st, retired |-> archiveFloor]],
           UNCHANGED <<authority, archiveFloor>>
    PROVE  OperationsSound' /\ FloorTiled' /\ AuthorityOnce'
<1> USE DecisionTypes
<1>1. /\ operations'[o].plan = p /\ operations'[o].status = st
      /\ operations'[o].retired = archiveFloor
      /\ \A q \in Ops : q # o => operations'[q] = operations[q]
  OBVIOUS
<1>2. OperationsSound'
  BY <1>1 DEF DecisionInv, OperationsSound, PlanValid
<1>3. \A q \in Ops : (operations'[q].status = "completed" <=> operations[q].status = "completed")
                     /\ (operations[q].status = "completed" => operations'[q] = operations[q])
  BY <1>1
<1>4. {q \in Ops : operations'[q].status = "completed"} = {q \in Ops : operations[q].status = "completed"}
  BY <1>3
<1>5. FloorTiled'
  BY <1>3, <1>4 DEF DecisionInv, FloorTiled
<1>6. AuthorityOnce'
  BY DEF DecisionInv, AuthorityOnce
<1> QED
  BY <1>2, <1>5, <1>6

\* PlanRetirement, the two checks and the abort transaction.
LEMMA RequestStep ==
    ASSUME LifecycleInv, NEW o \in Ops,
           \/ \E p \in Plans : PlanRetirement(o, p) \/ AbortCheck(o, p)
           \/ ApplyCheck(o)
    PROVE  DecisionInv'
<1> USE DecisionTypes
<1>1. ASSUME NEW p \in Plans, PlanRetirement(o, p) PROVE DecisionInv'
  <2>1. UNCHANGED <<authority, archiveFloor, inflight>>
    BY <1>1 DEF PlanRetirement, externalVars, storeVars, callVars
  <2>2. OperationsSound' /\ FloorTiled' /\ AuthorityOnce'
    BY <1>1, <2>1, OperationSet DEF PlanRetirement
  <2>3. InflightSound'
    BY <2>1 DEF DecisionInv, InflightSound, PlanValid
  <2> QED
    BY <2>2, <2>3 DEF DecisionInv
<1>2. ASSUME UNCHANGED <<operations, authority, archiveFloor>>
      PROVE  OperationsSound' /\ FloorTiled' /\ AuthorityOnce'
  BY <1>2 DEF DecisionInv, OperationsSound, FloorTiled, AuthorityOnce, PlanValid
<1>3. ASSUME NEW p \in Plans, AbortCheck(o, p) PROVE DecisionInv'
  <2> DEFINE n == [kind |-> "abort", op |-> o,
                   st |-> [plan |-> p, status |-> "pending", retired |-> 0]]
  <2>1. UNCHANGED <<operations, authority, archiveFloor>> /\ PlanValid(p)
        /\ inflight' = inflight \cup {n}
    BY <1>3 DEF AbortCheck, lifeStoreVars, externalVars, storeVars
  <2>2. n.st.plan = p /\ n.kind # "apply"
    OBVIOUS
  <2> HIDE DEF n
  <2>3. InflightSound'
    BY <2>1, <2>2 DEF DecisionInv, InflightSound, PlanValid
  <2> QED
    BY <1>2, <2>1, <2>3 DEF DecisionInv
<1>4. CASE ApplyCheck(o)
  <2> DEFINE n == [kind |-> "apply", op |-> o, st |-> operations[o]]
  <2>1. UNCHANGED <<operations, authority, archiveFloor>>
        /\ operations[o].status = "pending"
        /\ authority[o].plan = operations[o].plan
        /\ inflight' = inflight \cup {n}
    BY <1>4 DEF ApplyCheck, Authorized, lifeStoreVars, externalVars, storeVars
  <2>2. n.st = operations[o] /\ n.op = o
    OBVIOUS
  <2> HIDE DEF n
  <2>3. PlanValid(operations[o].plan)
    BY <2>1 DEF DecisionInv, OperationsSound
  <2>4. InflightSound'
    BY <2>1, <2>2, <2>3 DEF DecisionInv, InflightSound, PlanValid
  <2> QED
    BY <1>2, <2>1, <2>4 DEF DecisionInv
<1> QED
  BY <1>1, <1>3, <1>4

\* The abort transaction.
LEMMA AbortStep ==
    ASSUME LifecycleInv, NEW r \in inflight, AbortCommit(r)
    PROVE  DecisionInv'
<1> USE DecisionTypes
<1> DEFINE live == operations[r.op]
<1>1. UNCHANGED <<authority, archiveFloor>> /\ inflight' \subseteq inflight
  BY DEF AbortCommit, externalVars, storeVars
<1>2. InflightSound'
  BY <1>1 DEF DecisionInv, InflightSound, PlanValid
<1>3. CASE Writable /\ Ready /\ live.status \in {"none", "pending"}
  <2>1. PICK p : p = IF live.status = "none" THEN r.st.plan ELSE live.plan
    OBVIOUS
  <2>2. operations' = [operations EXCEPT ![r.op] =
                          [plan |-> p, status |-> "aborted", retired |-> archiveFloor]]
    BY <1>3, <2>1 DEF AbortCommit, Tombstone
  <2>3. p \in Plans /\ PlanValid(p)
    BY <1>3, <2>1 DEF DecisionInv, InflightSound, OperationsSound
  <2>4. OperationsSound' /\ FloorTiled' /\ AuthorityOnce'
    BY <1>1, <1>3, <2>2, <2>3, OperationSet
  <2> QED
    BY <1>2, <2>4 DEF DecisionInv
<1>4. CASE ~(Writable /\ Ready /\ live.status \in {"none", "pending"})
  <2>1. operations' = operations
    BY <1>4 DEF AbortCommit
  <2>2. OperationsSound' /\ FloorTiled' /\ AuthorityOnce'
    BY <1>1, <2>1 DEF DecisionInv, OperationsSound, FloorTiled, AuthorityOnce, PlanValid
  <2> QED
    BY <1>2, <2>2 DEF DecisionInv
<1> QED
  BY <1>3, <1>4

\* The retirement transaction adds one tile on top of the floor.
LEMMA ApplyStep ==
    ASSUME LifecycleInv, NEW r \in inflight, ApplyCommit(r)
    PROVE  DecisionInv'
<1> USE DecisionTypes
<1>1. authority' = authority /\ inflight' \subseteq inflight /\ r.kind = "apply"
  BY DEF ApplyCommit, externalVars
<1>2. InflightSound' /\ AuthorityOnce'
  BY <1>1 DEF DecisionInv, InflightSound, AuthorityOnce, PlanValid
<1>3. CASE ~Applicable(r)
  <2>1. UNCHANGED <<operations, archiveFloor>>
    BY <1>3 DEF ApplyCommit
  <2>2. OperationsSound' /\ FloorTiled'
    BY <1>1, <2>1 DEF DecisionInv, OperationsSound, FloorTiled, PlanValid
  <2> QED
    BY <1>2, <2>2 DEF DecisionInv
<1>4. CASE Applicable(r)
  <2>1. PICK o \in Ops : o = r.op
    OBVIOUS
  <2>2. PICK p \in Plans : p = r.st.plan
    OBVIOUS
  <2>3. /\ p.from = archiveFloor + 1 /\ p.from <= p.through
    BY <1>1, <1>4, <2>2, ApplicableRange
  <2>4. /\ archiveFloor' = p.through
        /\ operations' = [operations EXCEPT ![o] =
              [plan |-> p, status |-> "completed", retired |-> p.through]]
    BY <1>4, <2>1, <2>2 DEF ApplyCommit, Retire
  <2>5. /\ operations[o].status = "pending" /\ authority[o].plan = p /\ PlanValid(p)
    BY <1>1, <1>4, <2>1, <2>2 DEF Applicable, DecisionInv, InflightSound
  <2>6. /\ operations'[o].plan = p /\ operations'[o].status = "completed"
        /\ operations'[o].retired = p.through
        /\ \A q \in Ops : q # o => operations'[q] = operations[q]
    BY <2>4
  <2>7. OperationsSound'
    <3> SUFFICES ASSUME NEW q \in Ops, operations'[q].status # "none"
                 PROVE  /\ operations'[q].plan \in Plans
                        /\ PlanValid(operations'[q].plan)
                        /\ operations'[q].retired <= p.through
                        /\ operations'[q].status = "completed" =>
                              /\ operations'[q].retired = operations'[q].plan.through
                              /\ authority[q].plan = operations'[q].plan
      BY <1>1, <2>4 DEF OperationsSound, PlanValid
    <3>1. CASE q = o
      BY <3>1, <2>5, <2>6
    <3>2. CASE q # o
      <4>1. /\ operations'[q] = operations[q] /\ operations[q].plan \in Plans
            /\ PlanValid(operations[q].plan) /\ operations[q].retired <= archiveFloor
            /\ operations[q].status = "completed" =>
                  /\ operations[q].retired = operations[q].plan.through
                  /\ authority[q].plan = operations[q].plan
        BY <3>2, <2>6 DEF DecisionInv, OperationsSound
      <4>2. operations[q].retired <= p.through
        <5>1. operations[q].retired \in Nat
          BY BoundsAssumption
        <5> QED
          BY <4>1, <5>1, <2>3
      <4> QED
        BY <4>1, <4>2
    <3> QED
      BY <3>1, <3>2
  <2>8. FloorTiled'
    <3> DEFINE done == {q \in Ops : operations[q].status = "completed"}
    <3> DEFINE span(q) == operations[q].plan.from..operations[q].plan.through
    <3>1. {q \in Ops : operations'[q].status = "completed"} = done \cup {o} /\ o \notin done
      BY <2>5, <2>6
    <3>2. \A q \in done : /\ q \in Ops /\ operations'[q] = operations[q]
                          /\ operations[q].plan \in Plans
      BY <2>5, <2>6 DEF DecisionInv, OperationsSound
    <3>3. /\ \A k \in 1..archiveFloor :
                \E q \in done : k \in span(q) /\ \A u \in done \ {q} : k \notin span(u)
          /\ \A q \in done : operations[q].plan.through <= archiveFloor
      BY DEF DecisionInv, FloorTiled
    <3>4. \A q \in done \cup {o} : operations'[q].plan.through <= p.through
      <4>1. ASSUME NEW q \in done PROVE operations'[q].plan.through <= p.through
        <5>1. operations[q].plan.through \in Nat /\ operations[q].plan.through <= archiveFloor
          BY <3>2, <3>3
        <5> QED
          BY <5>1, <3>2, <2>3
      <4> QED
        BY <4>1, <2>6
    <3>5. \A k \in 1..p.through :
             \E q \in done \cup {o} :
                /\ k \in operations'[q].plan.from..operations'[q].plan.through
                /\ \A u \in (done \cup {o}) \ {q} :
                      k \notin operations'[u].plan.from..operations'[u].plan.through
      <4> SUFFICES ASSUME NEW k \in 1..p.through
                   PROVE  \E q \in done \cup {o} :
                             /\ k \in operations'[q].plan.from..operations'[q].plan.through
                             /\ \A u \in (done \cup {o}) \ {q} :
                                   k \notin operations'[u].plan.from..operations'[u].plan.through
        OBVIOUS
      <4>1. CASE k <= archiveFloor
        <5>1. PICK q \in done : k \in span(q) /\ \A u \in done \ {q} : k \notin span(u)
          BY <4>1, <3>3
        <5>2. k \notin p.from..p.through
          BY <4>1, <2>3
        <5>3. \A u \in (done \cup {o}) \ {q} :
                 k \notin operations'[u].plan.from..operations'[u].plan.through
          BY <5>1, <5>2, <3>2, <2>6
        <5>4. k \in operations'[q].plan.from..operations'[q].plan.through
          BY <5>1, <3>2
        <5> QED
          BY <5>3, <5>4
      <4>2. CASE ~(k <= archiveFloor)
        <5>1. k \in p.from..p.through
          BY <4>2, <2>3
        <5>2. \A u \in done : k \notin span(u)
          BY <4>2, <3>2, <3>3
        <5>3. k \in operations'[o].plan.from..operations'[o].plan.through
          BY <5>1, <2>6
        <5>4. \A u \in (done \cup {o}) \ {o} :
                 k \notin operations'[u].plan.from..operations'[u].plan.through
          BY <5>2, <3>2
        <5> QED
          BY <5>3, <5>4
      <4> QED
        BY <4>1, <4>2
    <3> QED
      BY <3>1, <3>4, <3>5, <2>4 DEF FloorTiled
  <2> QED
    BY <1>2, <2>7, <2>8 DEF DecisionInv
<1> QED
  BY <1>3, <1>4

\* Decisions, in every step.
LEMMA DecisionStep ==
    ASSUME LifecycleInv, LifecycleNext
    PROVE  DecisionInv'
<1>1. CASE ~DecisionNext
  BY <1>1, NotDecision, DecisionTypes
     DEF decisionVars, DecisionInv, OperationsSound, FloorTiled, AuthorityOnce,
         InflightSound, PlanValid
<1>2. CASE StopAll
  <2>1. UNCHANGED <<operations, authority, archiveFloor>> /\ inflight' = {}
    BY <1>2 DEF StopAll, Stop, lifeStoreVars, externalVars, storeVars
  <2> QED
    BY <2>1, DecisionTypes DEF DecisionInv, OperationsSound, FloorTiled, AuthorityOnce,
         InflightSound, PlanValid
<1> QED
  BY <1>1, <1>2, AuthorityStep, RequestStep, ApplyStep, AbortStep DEF DecisionNext

\* A plan is recorded and applied for committed records only, in every step.
LEMMA RangesStep ==
    ASSUME LifecycleInv, LifecycleNext
    PROVE  RangesCommitted'
<1> USE DecisionTypes
<1>1. head \in Nat /\ head' \in Nat /\ head <= head'
  BY StepKeepsLog, BoundsAssumption DEF LogKept, LifecycleInv, IInv, TypeOK
<1>2. ASSUME NEW q \in Ops,
             operations'[q].status \in {"pending", "completed"} =>
                 \/ operations'[q] = operations[q]
                 \/ operations'[q].plan \in Plans /\ operations'[q].plan.through <= head
      PROVE  operations'[q].status \in {"pending", "completed"} =>
                 operations'[q].plan.through <= head'
  <2>1. operations[q].status \in {"pending", "completed"} =>
            operations[q].plan \in Plans /\ operations[q].plan.through <= head
    BY DEF LifecycleInv, RetireInv, RangesCommitted, OperationsSound
  <2> QED
    BY <1>1, <1>2, <2>1
<1>3. CASE operations' = operations
  BY <1>2, <1>3 DEF RangesCommitted
<1>4. ASSUME NEW o \in Ops, NEW p \in Plans, PlanRetirement(o, p) PROVE RangesCommitted'
  BY <1>2, <1>4 DEF PlanRetirement, RangesCommitted
<1>5. ASSUME NEW r \in inflight, ApplyCommit(r) PROVE RangesCommitted'
  <2>1. CASE Applicable(r)
    <3>1. r.st.plan \in Plans /\ r.st.plan.through <= head
      BY <1>5, <2>1, ApplicableRange DEF ApplyCommit
    <3>2. operations' = [operations EXCEPT ![r.op] =
             [plan |-> r.st.plan, status |-> "completed", retired |-> r.st.plan.through]]
      BY <1>5, <2>1 DEF ApplyCommit, Retire
    <3> QED
      BY <1>2, <3>1, <3>2 DEF RangesCommitted
  <2> QED
    BY <1>3, <1>5, <2>1 DEF ApplyCommit
<1>6. ASSUME NEW r \in inflight, AbortCommit(r) PROVE RangesCommitted'
  <2>1. PICK p : p = IF operations[r.op].status = "none" THEN r.st.plan
                                                        ELSE operations[r.op].plan
    OBVIOUS
  <2>2. \/ operations' = operations
        \/ operations' = [operations EXCEPT ![r.op] =
              [plan |-> p, status |-> "aborted", retired |-> archiveFloor]]
    BY <1>6, <2>1 DEF AbortCommit, Tombstone
  <2> QED
    BY <1>2, <1>3, <2>2 DEF RangesCommitted
<1>7. \/ operations' = operations
      \/ \E o \in Ops, p \in Plans : PlanRetirement(o, p)
      \/ \E r \in inflight : ApplyCommit(r) \/ AbortCommit(r)
  BY NotDecision DEF decisionVars, DecisionNext, StopAll, Activate, AbortCheck, RequestAbort,
                     ApplyCheck, lifeStoreVars
<1> QED
  BY <1>3, <1>4, <1>5, <1>6, <1>7

\* An abort is checked with the authority first, which does not take it back,
\* in every step.
LEMMA AbortsStep ==
    ASSUME LifecycleInv, LifecycleNext
    PROVE  AbortsWanted'
<1> USE DecisionTypes
<1>1. AbortsWanted
  BY DEF LifecycleInv, RetireInv
<1>2. \A q \in Ops : authority[q].status = "ABORT_REQUESTED" =>
                      authority'[q].status = "ABORT_REQUESTED"
  <2>1. ASSUME NEW o \in Ops, NEW p \in Plans, Activate(o, p)
        PROVE  \A q \in Ops : authority[q].status = "ABORT_REQUESTED" =>
                                authority'[q].status = "ABORT_REQUESTED"
    BY <2>1 DEF Activate
  <2>2. ASSUME NEW o \in Ops, RequestAbort(o)
        PROVE  \A q \in Ops : authority[q].status = "ABORT_REQUESTED" =>
                                authority'[q].status = "ABORT_REQUESTED"
    BY <2>2 DEF RequestAbort
  <2>3. \/ authority' = authority
        \/ \E o \in Ops, p \in Plans : Activate(o, p)
        \/ \E o \in Ops : RequestAbort(o)
    BY NotDecision DEF decisionVars, DecisionNext, StopAll, PlanRetirement, AbortCheck,
                       ApplyCheck, ApplyCommit, AbortCommit, externalVars
  <2> QED
    BY <2>1, <2>2, <2>3
<1>3. ASSUME NEW r \in inflight', r.kind = "abort"
      PROVE  r.op \in Ops /\ authority[r.op].status = "ABORT_REQUESTED"
  <2>1. CASE r \in inflight
    BY <1>1, <1>3, <2>1 DEF AbortsWanted
  <2>2. CASE r \notin inflight
    <3>1. \E o \in Ops : ApplyCheck(o) \/ \E p \in Plans : AbortCheck(o, p)
      BY <2>2, NotDecision DEF decisionVars, DecisionNext, StopAll, PlanRetirement, Activate,
                     RequestAbort, ApplyCommit, AbortCommit, callVars
    <3>2. PICK o \in Ops, p \in Plans : AbortCheck(o, p)
      BY <1>3, <2>2, <3>1 DEF ApplyCheck
    <3>3. r = [kind |-> "abort", op |-> o,
               st |-> [plan |-> p, status |-> "pending", retired |-> 0]]
      BY <2>2, <3>2 DEF AbortCheck
    <3> QED
      BY <3>2, <3>3 DEF AbortCheck, Authorized
  <2> QED
    BY <2>1, <2>2
<1>4. ASSUME NEW q \in Ops, operations'[q].status = "aborted"
      PROVE  authority[q].status = "ABORT_REQUESTED"
  <2>1. CASE operations'[q] = operations[q]
    BY <1>1, <1>4, <2>1 DEF AbortsWanted
  <2>2. CASE operations'[q] # operations[q]
    <3>1. ASSUME NEW o \in Ops, NEW p \in Plans, PlanRetirement(o, p) PROVE FALSE
      BY <1>4, <2>2, <3>1 DEF PlanRetirement
    <3>2. ASSUME NEW r \in inflight, ApplyCommit(r) PROVE FALSE
      BY <1>4, <2>2, <3>2 DEF ApplyCommit, Retire
    <3>3. PICK r \in inflight : AbortCommit(r)
      BY <2>2, <3>1, <3>2, NotDecision
         DEF decisionVars, DecisionNext, StopAll, Activate, AbortCheck, RequestAbort,
             ApplyCheck, lifeStoreVars
    <3>4. PICK tomb : operations' = [operations EXCEPT ![r.op] = tomb]
      BY <2>2, <3>3 DEF AbortCommit
    <3>5. r.op = q /\ r.kind = "abort"
      BY <2>2, <3>3, <3>4 DEF AbortCommit
    <3> QED
      BY <1>1, <3>5 DEF AbortsWanted
  <2> QED
    BY <2>1, <2>2
<1> QED
  BY <1>2, <1>3, <1>4 DEF AbortsWanted

\* What is retired is in the catalog, in every step.
LEMMA FloorStep ==
    ASSUME LifecycleInv, LifecycleNext
    PROVE  FloorInCatalog'
<1> SUFFICES ASSUME NEW k \in 1..archiveFloor'
             PROVE  \E s \in Sets : catalog'[s] # NoManifest
                                    /\ k \in catalog'[s].from..catalog'[s].through
  BY DEF FloorInCatalog
<1>1. ASSUME NEW s \in Sets, catalog[s] # NoManifest, k \in catalog[s].from..catalog[s].through
      PROVE  catalog'[s] # NoManifest /\ k \in catalog'[s].from..catalog'[s].through
  BY <1>1, CatalogPermanent
<1>2. CASE k \in 1..archiveFloor
  BY <1>1, <1>2 DEF LifecycleInv, RetireInv, FloorInCatalog
<1>3. CASE k \notin 1..archiveFloor
  <2>1. DecisionNext
    BY <1>3, NotDecision DEF decisionVars
  <2>2. archiveFloor' # archiveFloor
    BY <1>3
  <2>3. PICK r \in inflight : ApplyCommit(r) /\ Applicable(r)
    BY <2>1, <2>2 DEF DecisionNext, StopAll, Stop, Activate, PlanRetirement, AbortCheck,
                      RequestAbort, ApplyCheck, ApplyCommit, AbortCommit, storeVars
  <2> DEFINE p == r.st.plan
  <2>4. archiveFloor' = p.through /\ r.kind = "apply"
    BY <2>3 DEF ApplyCommit, Retire
  <2>5. /\ p.from = archiveFloor + 1 /\ p \in Plans /\ p.from \in Nat /\ p.through \in Nat
        /\ p.set \in Sets /\ archiveFloor \in Nat
    BY <2>3, <2>4, ApplicableRange, DecisionTypes
  <2>6. k \in p.from..p.through
    BY <1>3, <2>4, <2>5
  <2>7. /\ catalog[p.set] # NoManifest /\ catalog[p.set].from <= p.from
        /\ catalog[p.set].through >= p.through
    BY <2>3 DEF Applicable, Covered
  <2>8. catalog[p.set].from \in Nat /\ catalog[p.set].through \in Nat
    BY <2>5, <2>7, CatalogFaithful, ManifestFields DEF Faithful
  <2>9. k \in catalog[p.set].from..catalog[p.set].through
    BY <2>5, <2>6, <2>7, <2>8
  <2> QED
    BY <1>1, <2>5, <2>7, <2>9
<1> QED
  BY <1>2, <1>3

\* The cache budget, in every step.
LEMMA CacheStep ==
    ASSUME LifecycleInv, LifecycleNext
    PROVE  CacheCounted' /\ cacheBytes' \in 0..CacheMax
<1>1. CASE UNCHANGED <<archiveCache, cacheBytes>>
  BY <1>1 DEF LifecycleInv, RetireInv, CacheCounted, Cached, LifecycleTypeOK
<1>2. ASSUME NEW s \in Sets, Rehydrate(s) PROVE CacheCounted' /\ cacheBytes' \in 0..CacheMax
  BY <1>2, RehydrateEffect DEF CacheCounted
<1>3. ASSUME NEW through \in Seqs, EvictCache(through)
      PROVE  CacheCounted' /\ cacheBytes' \in 0..CacheMax
  BY <1>3, EvictEffect DEF CacheCounted
<1>4. CASE InboxStep \/ StopAll
  <2>1. InboxNext /\ IInv /\ StoreExact /\ cacheBytes' = cacheBytes
    BY <1>4 DEF InboxStep, StopAll, InboxNext, LifecycleInv, lifeVars, lifeStoreVars
  <2>2. archiveCache' = archiveCache
    BY <2>1, InboxStepKeeps DEF InboxKeeps
  <2> QED
    BY <1>1, <2>1, <2>2
<1>5. CASE QuietNext \/ \E r \in inflight : ApplyCommit(r)
  <2>1. archiveCache' = archiveCache
    BY <1>5, QuietIsQuiet DEF vars, storeVars, ApplyCommit
  <2>2. cacheBytes' = cacheBytes
    <3>1. CASE CaptureNext
      BY <3>1 DEF CaptureNext, CaptureScan, CaptureVisit, CaptureBegin, CaptureSnapshot,
              CaptureExport, CaptureSeal, CaptureRemoveSnapshot, UploadParts,
              UploadManifest, UploadObject, UploadSave, CaptureFail, lifeStoreVars
    <3>2. ASSUME NEW s \in Sets, \/ Sign(s) \/ VerifyCatalog(s) \/ FinishWrite(s)
                                 \/ FinishTorn(s) \/ FinishPut(s) \/ FinishClean(s)
                                 \/ FinishFail(s)
          PROVE  cacheBytes' = cacheBytes
      BY <3>2 DEF Sign, VerifyCatalog, FinishWrite, FinishTorn, FinishPut, FinishClean,
                  FinishFail, lifeStoreVars
    <3>3. ASSUME NEW o \in Ops, NEW p \in Plans,
                 Activate(o, p) \/ PlanRetirement(o, p) \/ AbortCheck(o, p)
          PROVE  cacheBytes' = cacheBytes
      BY <3>3 DEF Activate, PlanRetirement, AbortCheck, lifeStoreVars
    <3>4. ASSUME NEW o \in Ops, RequestAbort(o) \/ ApplyCheck(o) PROVE cacheBytes' = cacheBytes
      BY <3>4 DEF RequestAbort, ApplyCheck, lifeStoreVars
    <3>5. ASSUME NEW r \in inflight, ApplyCommit(r) \/ AbortCommit(r)
          PROVE  cacheBytes' = cacheBytes
      BY <3>5 DEF ApplyCommit, AbortCommit
    <3> QED
      BY <1>5, <3>1, <3>2, <3>3, <3>4, <3>5 DEF QuietNext
  <2> QED
    BY <1>1, <2>1, <2>2
<1> QED
  BY <1>2, <1>3, <1>4, <1>5 DEF LifecycleNext, QuietNext

-----------------------------------------------------------------------------
(***************************************************************************)
(* Types, and the invariant as a whole.                                    *)
(***************************************************************************)

Stages == {"idle", "scan", "begun", "snapshot", "exported", "sealed", "upload",
           "manifest", "save"}

WorkerType == [stage : Stages, set : Sets \cup {NoSet}, list : [Sets -> SetStatus],
               todo : SUBSET Sets, manifest : Manifest \cup {NoManifest}]

\* The running Capture keeps its type.
LEMMA WorkerTypeStep ==
    ASSUME LifecycleInv, LifecycleNext
    PROVE  worker' \in WorkerType
<1> USE DEF WorkerType, Stages
<1>0. /\ worker \in WorkerType /\ Idle \in WorkerType
      /\ captures \in [Sets -> [status : SetStatus, manifest : Manifest \cup {NoManifest}]]
  BY IdleFields DEF LifecycleInv, LifecycleTypeOK
<1>1. CASE ~BackupNext
  BY <1>0, <1>1, NotBackup DEF backupVars
<1>2. CASE StopAll \/ UploadSave \/ CaptureFail
  BY <1>0, <1>2 DEF StopAll, UploadSave, CaptureFail
<1>3. CASE CaptureScan
  <2>1. /\ worker' = [Idle EXCEPT !.stage = "scan",
                              !.list = [s \in Sets |-> captures[s].status],
                              !.todo = {s \in Sets : captures[s].status # "none"}]
    BY <1>3 DEF CaptureScan
  <2>2. [s \in Sets |-> captures[s].status] \in [Sets -> SetStatus]
    BY <1>0
  <2> QED
    BY <1>0, <2>1, <2>2
<1>4. ASSUME NEW s \in Sets, CaptureVisit(s) PROVE worker' \in WorkerType
  <2>1. CASE VisitUploaded(s)
    BY <1>0, <2>1 DEF VisitUploaded
  <2>2. CASE VisitSealed(s)
    <3>1. captures[s].manifest \in Manifest \cup {NoManifest}
      BY <1>0
    <3> QED
      BY <1>0, <2>2, <3>1 DEF VisitSealed
  <2>3. CASE VisitCapturing(s)
    BY <1>0, <2>3 DEF VisitCapturing, SetStatus
  <2>4. CASE VisitFinished(s)
    BY <1>0, <2>4 DEF VisitFinished
  <2> QED
    BY <1>4, <2>1, <2>2, <2>3, <2>4 DEF CaptureVisit
<1>5. ASSUME NEW s \in Sets, CaptureBegin(s) PROVE worker' \in WorkerType
  BY <1>0, <1>5 DEF CaptureBegin
<1>6. CASE CaptureSnapshot
  <2>1. Faithful(worker'.manifest)
    BY <1>6, SnapshotEffect
  <2>2. \E m : worker' = [worker EXCEPT !.stage = "snapshot", !.manifest = m]
    BY <1>6 DEF CaptureSnapshot
  <2>3. PICK m : worker' = [worker EXCEPT !.stage = "snapshot", !.manifest = m]
    BY <2>2
  <2>4. worker'.manifest = m
    BY <1>0, <2>3
  <2>5. m \in Manifest
    BY <2>1, <2>4 DEF Faithful
  <2> QED
    BY <1>0, <2>3, <2>5
<1>7. CASE CaptureExport \/ CaptureSeal \/ CaptureRemoveSnapshot \/ UploadParts \/ UploadManifest
  <2>1. \E st \in Stages : worker' = [worker EXCEPT !.stage = st]
    BY <1>7 DEF CaptureExport, CaptureSeal, CaptureRemoveSnapshot, UploadParts, UploadManifest,
                UploadObject
  <2> QED
    BY <1>0, <2>1
<1>8. ASSUME NEW s \in Sets, \/ VerifyCatalog(s) \/ FinishWrite(s) \/ FinishTorn(s)
                             \/ FinishPut(s) \/ FinishClean(s) \/ FinishFail(s) \/ Sign(s)
      PROVE  worker' \in WorkerType
  BY <1>0, <1>8 DEF VerifyCatalog, FinishWrite, FinishTorn, FinishPut, FinishClean,
                    FinishFail, Sign, callVars
<1> QED
  BY <1>1, <1>2, <1>3, <1>4, <1>5, <1>6, <1>7, <1>8 DEF BackupNext, CaptureNext

FileNames == {"snapshot", "parts", "manifest", "complete", "torn"}

\* Captures, catalog, files and objects keep their types.
LEMMA BackupTypeStep ==
    ASSUME LifecycleInv, LifecycleNext
    PROVE  /\ captures' \in [Sets -> [status : SetStatus, manifest : Manifest \cup {NoManifest}]]
           /\ capturedThrough' \in 0..MaxSequence
           /\ catalog' \in [Sets -> Manifest \cup {NoManifest}]
           /\ scratch' \in [Sets -> SUBSET FileNames]
           /\ cloud' \in [Sets -> SUBSET {"parts", "manifest", "complete"}]
           /\ signed' \subseteq Sets
           /\ finishing' \in [Sets -> {"none", "write", "put", "clean"}]
<1> USE DEF lifeStoreVars, externalVars, callVars
<1>0. /\ captures \in [Sets -> [status : SetStatus, manifest : Manifest \cup {NoManifest}]]
      /\ capturedThrough \in 0..MaxSequence
      /\ catalog \in [Sets -> Manifest \cup {NoManifest}]
      /\ scratch \in [Sets -> SUBSET FileNames]
      /\ cloud \in [Sets -> SUBSET {"parts", "manifest", "complete"}]
      /\ signed \subseteq Sets
      /\ finishing \in [Sets -> {"none", "write", "put", "clean"}]
  BY DEF LifecycleInv, LifecycleTypeOK, FileNames
<1>1. /\ captures' \in [Sets -> [status : SetStatus, manifest : Manifest \cup {NoManifest}]]
      /\ capturedThrough' \in 0..MaxSequence
  <2>1. CASE CaptureSeal
    <3>1. /\ captures' \in [Sets -> [status : SetStatus, manifest : Manifest \cup {NoManifest}]]
          /\ Faithful(worker.manifest) /\ capturedThrough' = worker.manifest.high
      BY <2>1, SealEffect
    <3>2. worker.manifest.high \in 0..MaxSequence
      BY <3>1, ManifestFields, BoundsAssumption DEF Faithful
    <3> QED
      BY <3>1, <3>2
  <2> QED
    BY <1>0, <2>1, StepChangesCaptures DEF CapturesChange, Moves
<1>2. CASE ~BackupNext
  BY <1>0, <1>1, <1>2, NotBackup DEF backupVars
<1>3. CASE StopAll
  BY <1>0, <1>1, <1>3 DEF StopAll
<1>4. CASE CaptureNext
  <2>1. UNCHANGED <<catalog, signed, finishing>>
    BY <1>4 DEF CaptureNext, CaptureScan, CaptureVisit, CaptureBegin, CaptureSnapshot,
                CaptureExport, CaptureSeal, CaptureRemoveSnapshot, UploadParts,
                UploadManifest, UploadObject, UploadSave, CaptureFail
  <2>2. cloud' \in [Sets -> SUBSET {"parts", "manifest", "complete"}]
    <3>1. cloud' = cloud \/ \E x \in {"parts", "manifest"} :
                               cloud' = [cloud EXCEPT ![worker.set] = @ \cup {x}]
      BY <1>4 DEF CaptureNext, CaptureScan, CaptureVisit, CaptureBegin, CaptureSnapshot,
                CaptureExport, CaptureSeal, CaptureRemoveSnapshot, UploadParts,
                UploadManifest, UploadObject, UploadSave, CaptureFail
    <3> QED
      BY <1>0, <3>1
  <2>3. scratch' \in [Sets -> SUBSET FileNames]
    <3>1. ASSUME NEW s \in Sets, CaptureVisit(s) PROVE scratch' \in [Sets -> SUBSET FileNames]
      <4>1. scratch' = scratch \/ \E S \in {{}, Kept} :
                                     scratch' = [scratch EXCEPT ![s] = @ \cap S]
        <5>1. CASE VisitFinished(s)
          <6>1. scratch' = [scratch EXCEPT ![s] = IF worker.list[s] = "abandoned" THEN {}
                                                  ELSE @ \cap Kept]
            BY <5>1 DEF VisitFinished
          <6>2. scratch[s] \cap {} = {}
            OBVIOUS
          <6> QED
            BY <6>1, <6>2
        <5>2. CASE VisitUploaded(s) \/ VisitSealed(s) \/ VisitCapturing(s)
          BY <5>2 DEF VisitUploaded, VisitSealed, VisitCapturing
        <5> QED
          BY <3>1, <5>1, <5>2 DEF CaptureVisit
      <4> QED
        BY <1>0, <4>1
    <3>2. CASE CaptureSnapshot \/ CaptureExport \/ CaptureRemoveSnapshot
      <4>1. \/ scratch' = [scratch EXCEPT ![worker.set] = @ \cup {"snapshot"}]
            \/ scratch' = [scratch EXCEPT ![worker.set] = @ \cup {"parts", "manifest"}]
            \/ scratch' = [scratch EXCEPT ![worker.set] = @ \ {"snapshot"}]
        BY <3>2 DEF CaptureSnapshot, CaptureExport, CaptureRemoveSnapshot
      <4> QED
        BY <1>0, <4>1 DEF FileNames
    <3>3. CASE CaptureScan \/ CaptureSeal \/ UploadParts \/ UploadManifest \/ UploadSave \/ CaptureFail
      BY <1>0, <3>3 DEF CaptureScan, CaptureSeal, UploadParts, UploadManifest, UploadObject,
                        UploadSave, CaptureFail
    <3>4. ASSUME NEW s \in Sets, CaptureBegin(s) PROVE scratch' \in [Sets -> SUBSET FileNames]
      BY <1>0, <3>4 DEF CaptureBegin
    <3> QED
      BY <1>4, <3>1, <3>2, <3>3, <3>4 DEF CaptureNext
  <2> QED
    BY <1>0, <1>1, <2>1, <2>2, <2>3
<1>5. ASSUME NEW s \in Sets, VerifyCatalog(s)
      PROVE  /\ catalog' \in [Sets -> Manifest \cup {NoManifest}]
             /\ finishing' \in [Sets -> {"none", "write", "put", "clean"}]
             /\ UNCHANGED <<scratch, cloud, signed>>
  <2>1. captures[s].manifest \in Manifest \cup {NoManifest}
    BY <1>0
  <2> QED
    BY <1>0, <1>5, <2>1 DEF VerifyCatalog
<1>6. ASSUME NEW s \in Sets, \/ FinishWrite(s) \/ FinishTorn(s) \/ FinishPut(s)
                             \/ FinishClean(s) \/ FinishFail(s) \/ Sign(s)
      PROVE  /\ catalog' = catalog
             /\ scratch' \in [Sets -> SUBSET FileNames]
             /\ cloud' \in [Sets -> SUBSET {"parts", "manifest", "complete"}]
             /\ signed' \subseteq Sets
             /\ finishing' \in [Sets -> {"none", "write", "put", "clean"}]
  <2>1. CASE FinishWrite(s) \/ FinishTorn(s)
    BY <1>0, <2>1 DEF FinishWrite, FinishTorn, FileNames
  <2>2. CASE FinishPut(s) \/ FinishFail(s) \/ Sign(s)
    BY <1>0, <2>2 DEF FinishPut, FinishFail, Sign
  <2>3. CASE FinishClean(s)
    BY <1>0, <2>3 DEF FinishClean
  <2> QED
    BY <1>6, <2>1, <2>2, <2>3
<1> QED
  BY <1>0, <1>1, <1>2, <1>3, <1>4, <1>5, <1>6 DEF BackupNext

OperationType == [plan : Plans \cup {NoPlan},
                  status : {"none", "pending", "completed", "aborted"},
                  retired : 0..MaxSequence]

AuthorityType == [plan : Plans \cup {NoPlan}, status : {"none", "ACTIVE", "ABORT_REQUESTED"}]

\* Operations, authority and running requests keep their types.
LEMMA DecisionTypeStep ==
    ASSUME LifecycleInv, LifecycleNext
    PROVE  /\ operations' \in [Ops -> OperationType]
           /\ authority' \in [Ops -> AuthorityType]
           /\ \A r \in inflight' : /\ r.kind \in {"apply", "abort"}
                                   /\ r.op \in Ops
                                   /\ r.st.plan \in Plans
<1> USE DEF lifeStoreVars, externalVars, callVars
<1> DEFINE Typed(S) == \A r \in S : /\ r.kind \in {"apply", "abort"}
                                    /\ r.op \in Ops
                                    /\ r.st.plan \in Plans
<1>0. /\ operations \in [Ops -> OperationType] /\ authority \in [Ops -> AuthorityType]
      /\ Typed(inflight)
  BY DecisionTypes DEF OperationType, AuthorityType
<1>1. CASE ~DecisionNext
  BY <1>0, <1>1, NotDecision DEF decisionVars
<1>2. CASE StopAll
  BY <1>0, <1>2 DEF StopAll
<1>3. ASSUME NEW o \in Ops, NEW p \in Plans, Activate(o, p)
      PROVE  authority' \in [Ops -> AuthorityType] /\ UNCHANGED <<operations, inflight>>
  BY <1>0, <1>3 DEF Activate, AuthorityType
<1>4. ASSUME NEW o \in Ops, RequestAbort(o)
      PROVE  authority' \in [Ops -> AuthorityType] /\ UNCHANGED <<operations, inflight>>
  BY <1>0, <1>4 DEF RequestAbort, AuthorityType
<1>5. ASSUME NEW o \in Ops, NEW p \in Plans, PlanRetirement(o, p)
      PROVE  operations' \in [Ops -> OperationType] /\ UNCHANGED <<authority, inflight>>
  BY <1>0, <1>5, DecisionTypes DEF PlanRetirement, OperationType
<1>6. ASSUME NEW o \in Ops, NEW p \in Plans, AbortCheck(o, p)
      PROVE  Typed(inflight') /\ UNCHANGED <<operations, authority>>
  <2>1. inflight' = inflight \cup
          {[kind |-> "abort", op |-> o,
            st |-> [plan |-> p, status |-> "pending", retired |-> 0]]}
    BY <1>6 DEF AbortCheck
  <2>2. Typed(inflight')
    BY <1>0, <2>1
  <2> QED
    BY <1>6, <2>2 DEF AbortCheck
<1>7. ASSUME NEW o \in Ops, ApplyCheck(o)
      PROVE  Typed(inflight') /\ UNCHANGED <<operations, authority>>
  <2>1. inflight' = inflight \cup {[kind |-> "apply", op |-> o, st |-> operations[o]]}
        /\ operations[o].status = "pending"
    BY <1>7 DEF ApplyCheck
  <2>2. operations[o].plan \in Plans
    BY <2>1, DecisionTypes DEF DecisionInv, OperationsSound
  <2>3. Typed(inflight')
    BY <1>0, <2>1, <2>2
  <2> QED
    BY <1>7, <2>3 DEF ApplyCheck
<1>8. ASSUME NEW r \in inflight, ApplyCommit(r)
      PROVE  /\ operations' \in [Ops -> OperationType] /\ authority' = authority
             /\ inflight' \subseteq inflight
  <2>1. r.op \in Ops /\ r.st.plan \in Plans /\ r.st.plan.through \in 0..MaxSequence
    BY DecisionTypes, BoundsAssumption DEF Seqs
  <2>2. \/ operations' = operations
        \/ operations' = [operations EXCEPT ![r.op] =
              [plan |-> r.st.plan, status |-> "completed", retired |-> r.st.plan.through]]
    BY <1>8 DEF ApplyCommit, Retire
  <2>3. operations' \in [Ops -> OperationType]
    BY <1>0, <2>1, <2>2 DEF OperationType
  <2> QED
    BY <1>8, <2>3 DEF ApplyCommit
<1>9. ASSUME NEW r \in inflight, AbortCommit(r)
      PROVE  /\ operations' \in [Ops -> OperationType] /\ authority' = authority
             /\ inflight' \subseteq inflight
  <2>1. r.op \in Ops /\ r.st.plan \in Plans /\ archiveFloor \in 0..MaxSequence
    BY DecisionTypes
  <2>2. operations[r.op].plan \in Plans \cup {NoPlan}
    BY <1>0, <2>1 DEF OperationType
  <2>3. operations' = operations \/ \E p \in Plans \cup {NoPlan} :
          operations' = [operations EXCEPT ![r.op] =
                            [plan |-> p, status |-> "aborted", retired |-> archiveFloor]]
    BY <1>9, <2>1, <2>2 DEF AbortCommit, Tombstone
  <2>4. operations' \in [Ops -> OperationType]
    <3>1. CASE operations' = operations
      BY <1>0, <3>1
    <3>2. ASSUME NEW p \in Plans \cup {NoPlan},
                 operations' = [operations EXCEPT ![r.op] =
                            [plan |-> p, status |-> "aborted", retired |-> archiveFloor]]
          PROVE  operations' \in [Ops -> OperationType]
      <4>1. [plan |-> p, status |-> "aborted", retired |-> archiveFloor] \in OperationType
        BY <2>1 DEF OperationType
      <4> QED
        BY <1>0, <2>1, <3>2, <4>1
    <3> QED
      BY <2>3, <3>1, <3>2
  <2> QED
    BY <1>9, <2>4 DEF AbortCommit
<1> QED
  BY <1>0, <1>1, <1>2, <1>3, <1>4, <1>5, <1>6, <1>7, <1>8, <1>9 DEF DecisionNext

\* An empty store without backups satisfies it all.
LEMMA LifecycleInitInv == LifecycleInit => LifecycleInv
<1> SUFFICES ASSUME LifecycleInit PROVE LifecycleInv
  OBVIOUS
<1> USE BoundsAssumption, LifecycleAssumption
<1>1. IInv
  BY InitIInv DEF LifecycleInit
<1>2. StoreExact
  BY Sentinels DEF LifecycleInit, Init, StoreExact, Seqs
<1>3. /\ captures = [s \in Sets |-> [status |-> "none", manifest |-> NoManifest]]
      /\ capturedThrough = 0 /\ head = 0 /\ archiveFloor = 0 /\ worker.stage = "idle"
      /\ catalog = [s \in Sets |-> NoManifest]
      /\ signed = {} /\ finishing = [s \in Sets |-> "none"]
      /\ operations = [o \in Ops |-> [plan |-> NoPlan, status |-> "none", retired |-> 0]]
      /\ authority = [o \in Ops |-> [plan |-> NoPlan, status |-> "none"]]
      /\ inflight = {} /\ cacheBytes = 0
      /\ scratch = [s \in Sets |-> {}] /\ cloud = [s \in Sets |-> {}] /\ worker = Idle
  BY IdleFields DEF LifecycleInit, Init
<1>4. LifecycleTypeOK
  <2>1. captures \in [Sets -> [status : SetStatus, manifest : Manifest \cup {NoManifest}]]
        /\ catalog \in [Sets -> Manifest \cup {NoManifest}]
    BY <1>3 DEF SetStatus
  <2>2. capturedThrough \in 0..MaxSequence /\ cacheBytes \in 0..CacheMax
    BY <1>3
  <2>3. /\ operations \in [Ops -> [plan : Plans \cup {NoPlan},
                               status : {"none", "pending", "completed", "aborted"},
                               retired : 0..MaxSequence]]
        /\ authority \in [Ops -> [plan : Plans \cup {NoPlan},
                              status : {"none", "ACTIVE", "ABORT_REQUESTED"}]]
    BY <1>3
  <2> QED
    BY <1>3, <2>1, <2>2, <2>3, IdleFields DEF LifecycleTypeOK
<1>5. CaptureInv
  <2>1. \A s \in Sets : captures[s].status = "none"
    BY <1>3
  <2>2. ScanCurrent /\ CaptureCurrent
    BY <1>3 DEF ScanCurrent, CaptureCurrent
  <2>3. OnePendingSet /\ SealedResumable /\ SealedFaithful /\ PendingIsNewest
    BY <2>1 DEF OnePendingSet, SealedResumable, SealedFaithful, PendingIsNewest, SealedStatus
  <2>4. CaptureFrontier
    BY <1>3 DEF CaptureFrontier
  <2>5. CapturesPartition
    BY <1>3, <2>1 DEF CapturesPartition, Exports, Seqs
  <2>6. CatalogSound
    BY <1>3 DEF CatalogSound
  <2> QED
    BY <2>2, <2>3, <2>4, <2>5, <2>6 DEF CaptureInv
<1>6. RetireInv
  <2>1. /\ FloorInCatalog /\ OperationsSound /\ AuthorityOnce /\ InflightSound
        /\ RangesCommitted /\ AbortsWanted
    BY <1>3 DEF FloorInCatalog, OperationsSound, AuthorityOnce, InflightSound,
                RangesCommitted, AbortsWanted
  <2>2. FloorTiled
    BY <1>3 DEF FloorTiled
  <2>3. Cached = {}
    BY DEF LifecycleInit, Init, Cached
  <2>4. CacheCounted
    BY <1>3, <2>3, FS_EmptySet DEF CacheCounted
  <2> QED
    BY <2>1, <2>2, <2>4 DEF RetireInv
<1> QED
  BY <1>1, <1>2, <1>4, <1>5, <1>6 DEF LifecycleInv

\* Every step keeps it.
LEMMA LifecycleStep == LifecycleInv /\ LifecycleNext => LifecycleInv'
<1> SUFFICES ASSUME LifecycleInv, LifecycleNext PROVE LifecycleInv'
  OBVIOUS
<1>1. IInv' /\ StoreExact'
  BY StoreStep
<1>2. LifecycleTypeOK'
  <2>1. cacheBytes' \in 0..CacheMax
    BY CacheStep
  <2> QED
    BY <2>1, WorkerTypeStep, BackupTypeStep, DecisionTypeStep
       DEF LifecycleTypeOK, WorkerType, Stages, FileNames, OperationType, AuthorityType
<1>3. CaptureInv'
  BY WorkerStep, SetsStep, ResumableStep, FrontierStep, CatalogStep DEF CaptureInv
<1>4. RetireInv'
  BY FloorStep, DecisionStep, RangesStep, AbortsStep, CacheStep DEF RetireInv, DecisionInv
<1> QED
  BY <1>1, <1>2, <1>3, <1>4 DEF LifecycleInv

\* Stuttering does.
LEMMA LifecycleStutter == LifecycleInv /\ UNCHANGED lifecycleVars => LifecycleInv'
<1> SUFFICES ASSUME LifecycleInv, UNCHANGED lifecycleVars PROVE LifecycleInv'
  OBVIOUS
<1> USE DEF lifecycleVars, lifeVars, lifeStoreVars, externalVars, callVars
<1>1. UNCHANGED vars /\ UNCHANGED <<storeVars, historyVars>>
  BY DEF vars
<1>2. IInv'
  BY <1>1, InboxStutter DEF LifecycleInv
<1>3. StoreExact'
  BY <1>1 DEF LifecycleInv, StoreExact, storeVars
<1>4. LifecycleTypeOK'
  BY DEF LifecycleInv, LifecycleTypeOK
<1>5. \A m : Faithful(m)' <=> Faithful(m)
  BY <1>1 DEF Faithful, Exported, ReceiptTime, storeVars, historyVars
<1>6. /\ ScanCurrent' /\ OnePendingSet' /\ SealedResumable' /\ PendingIsNewest' /\ CatalogSound'
  BY DEF LifecycleInv, CaptureInv, ScanCurrent, OnePendingSet, SealedResumable,
         PendingIsNewest, CatalogSound
<1>7. CaptureFrontier' /\ CapturesPartition'
  BY <1>1 DEF LifecycleInv, CaptureInv, CaptureFrontier, CapturesPartition, Exports, storeVars
<1>8. LogKept
  BY <1>1, ReceiptsStill DEF receiptVars, storeVars, historyVars
<1>9. SealedFaithful'
  BY <1>8, SealedKept
<1>10. CaptureCurrent'
  BY <1>8, WorkerKept DEF LifecycleInv, CaptureInv, CaptureCurrent
<1>11. FloorInCatalog' /\ OperationsSound' /\ FloorTiled' /\ AuthorityOnce' /\ InflightSound'
  BY <1>1 DEF LifecycleInv, RetireInv, FloorInCatalog, OperationsSound, FloorTiled,
              AuthorityOnce, InflightSound, PlanValid, storeVars
<1>12. RangesCommitted' /\ AbortsWanted' /\ CacheCounted'
  BY <1>1 DEF LifecycleInv, RetireInv, RangesCommitted, AbortsWanted, CacheCounted, Cached,
              storeVars
<1> QED
  BY <1>2, <1>3, <1>4, <1>6, <1>7, <1>9, <1>10, <1>11, <1>12
     DEF LifecycleInv, CaptureInv, RetireInv

-----------------------------------------------------------------------------
(***************************************************************************)
(* The invariant.                                                          *)
(***************************************************************************)

\* Capture, VerifyCatalog, retirement, rehydration and the inbox calls, in any
\* order and with a crash at any point, keep LifecycleInv.
THEOREM LifecycleInductive == LifecycleSpec => []LifecycleInv
<1>1. LifecycleInv /\ [LifecycleNext]_lifecycleVars => LifecycleInv'
  BY LifecycleStep, LifecycleStutter
<1> QED
  BY <1>1, LifecycleInitInv, PTL DEF LifecycleSpec

\* Buckets, files, objects and running calls keep their types.
THEOREM LifecycleTypeCorrect == LifecycleSpec => []LifecycleTypeOK
<1>1. LifecycleInv => LifecycleTypeOK
  BY DEF LifecycleInv
<1> QED
  BY <1>1, LifecycleInductive, PTL

\* Capture and retirement do not disturb the inbox: its inductive invariant,
\* and with it every state property proved of the inbox alone, also holds of
\* the inbox inside the lifecycle.
THEOREM InboxInsideLifecycle == LifecycleSpec => []IInv
<1>1. LifecycleInv => IInv
  BY DEF LifecycleInv
<1> QED
  BY <1>1, LifecycleInductive, PTL
=============================================================================
