---------------------- MODULE BillingLifecycleTheorems ----------------------
(***************************************************************************)
(* What the inductive invariant of the raw-data lifecycle gives: retired   *)
(* and protected records are archived, backup sets split the log, the      *)
(* audit refuses for two named reasons only, decisions are backed by the   *)
(* authority and final, and the whole implements the abstract ledger.      *)
(***************************************************************************)
EXTENDS BillingLifecycleProofs

\* The archive holds the export of every sequence in the range of a catalog
\* entry, in a set that is signed and uploaded.
LEMMA CatalogHolds ==
    ASSUME LifecycleInv, NEW s \in Sets, catalog[s] # NoManifest,
           NEW k \in catalog[s].from..catalog[s].through, k > 0
    PROVE  /\ s \in signed
           /\ {"parts", "manifest"} \subseteq cloud[s]
           /\ k \in 1..head
           /\ k \in Seqs
           /\ catalog[s].records[k] = Exported(k)
<1>1. /\ s \in signed /\ Files \subseteq cloud[s] /\ Faithful(catalog[s])
  BY CatalogFaithful
<1> PICK m : m = catalog[s]
  OBVIOUS
<1>2. m \in Manifest /\ Faithful(m) /\ k \in m.from..m.through
  BY <1>1 DEF Faithful
<1>3. /\ m.from \in Nat /\ m.through \in Nat /\ m.high \in Nat
      /\ head \in 0..MaxSequence
  BY <1>2, ManifestFields DEF LifecycleInv, IInv, TypeOK
<1>4. k \in 1..head /\ k \in Seqs
  BY <1>2, <1>3, BoundsAssumption DEF Faithful, Seqs
<1>5. m.records[k] = Exported(k)
  BY <1>2, <1>4 DEF Faithful
<1> QED
  BY <1>1, <1>4, <1>5 DEF Files

\* Nothing is deleted that cannot be brought back: ApplyRetirement deletes only
\* bodies that a signed, uploaded set holds byte for byte.
THEOREM RetirementIsArchived == LifecycleSpec => []RetiredIsArchived
<1>1. LifecycleInv => RetiredIsArchived
  <2> SUFFICES ASSUME LifecycleInv, NEW k \in 1..archiveFloor
               PROVE  \E s \in signed : /\ {"parts", "manifest"} \subseteq cloud[s]
                                        /\ catalog[s] # NoManifest
                                        /\ catalog[s].records[k] = Exported(k)
    BY DEF RetiredIsArchived, Exported
  <2>1. PICK s \in Sets : catalog[s] # NoManifest
                          /\ k \in catalog[s].from..catalog[s].through
    BY DEF LifecycleInv, RetireInv, FloorInCatalog
  <2>2. k > 0
    BY DEF LifecycleInv, IInv, TypeOK
  <2> QED
    BY <2>1, <2>2, CatalogHolds
<1> QED
  BY <1>1, LifecycleInductive, PTL

\* A set of naturals below a bound has a largest one.
LEMMA LargestExists ==
    ASSUME NEW n \in Nat, NEW S \in SUBSET (0..n), S # {}
    PROVE  \E m \in S : \A k \in S : k <= m
<1> DEFINE T == {(k + 1)..n : k \in S}
           R == StrictSubsetOrdering(0..n)
<1>1. \A k \in S : (k + 1)..n \in FiniteSubsetsOf(0..n)
  <2> SUFFICES ASSUME NEW k \in S PROVE (k + 1)..n \in FiniteSubsetsOf(0..n)
    OBVIOUS
  <2>1. IsFiniteSet((k + 1)..n)
    BY FS_Interval
  <2>2. (k + 1)..n \subseteq 0..n
    OBVIOUS
  <2> QED
    BY <2>1, <2>2 DEF FiniteSubsetsOf
<1>2. T \subseteq FiniteSubsetsOf(0..n) /\ T # {}
  BY <1>1
<1>3. PICK x \in T : \A y \in T : ~(<<y, x>> \in R)
  <2> HIDE DEF T
  <2> QED
    BY <1>2, WFMin, FS_StrictSubsetOrderingWellFounded
<1>4. PICK m \in S : x = (m + 1)..n
  OBVIOUS
<1>5. ASSUME NEW k \in S PROVE k <= m
  <2> SUFFICES ASSUME m < k PROVE FALSE
    OBVIOUS
  <2> DEFINE y == (k + 1)..n
  <2>1. y \subseteq x /\ k \in x /\ k \notin y
    BY <1>4
  <2>2. <<y, x>> \in R
    BY <1>1, <1>4, <2>1 DEF StrictSubsetOrdering, FiniteSubsetsOf
  <2> QED
    BY <1>3, <2>2
<1> QED
  BY <1>4, <1>5

\* Every record up to the frontier of a catalog entry is in some catalog entry.
LEMMA BelowVerifiedIsArchived ==
    ASSUME LifecycleInv, NEW s \in Sets, catalog[s] # NoManifest,
           NEW k \in 1..catalog[s].high
    PROVE  \E t \in Sets : catalog[t] # NoManifest
                           /\ k \in catalog[t].from..catalog[t].through
<1>1. /\ Faithful(catalog[s]) /\ catalog[s] = captures[s].manifest
      /\ captures[s].status = "verified"
  BY CatalogFaithful
<1>2. /\ catalog[s].high \in Nat /\ catalog[s].high <= MaxSequence
  BY <1>1, ManifestFields DEF Faithful
<1>3. k \in Seqs /\ catalog[s].high <= capturedThrough /\ capturedThrough \in Nat
  BY <1>1, <1>2, BoundsAssumption
     DEF Seqs, LifecycleInv, CaptureInv, SealedFaithful, SealedStatus, LifecycleTypeOK
<1>4. PICK t \in Sets : Exports(t, k)
  BY <1>2, <1>3 DEF LifecycleInv, CaptureInv, CapturesPartition
<1>5. /\ captures[t].status \in SealedStatus
      /\ k \in captures[t].manifest.from..captures[t].manifest.through
  BY <1>3, <1>4, ExportsRange
<1>6. /\ captures[t].manifest \in Manifest
      /\ captures[t].manifest.from \in Nat
      /\ captures[t].manifest.through \in Nat
  BY <1>5, ManifestFields DEF LifecycleInv, CaptureInv, SealedFaithful, Faithful
<1>7. captures[t].status = "verified"
  <2> SUFFICES ASSUME captures[t].status \in {"sealed", "uploaded"} PROVE FALSE
    BY <1>5 DEF SealedStatus
  <2>1. CASE captures[t].manifest.from # 0
    <3>1. catalog[s].high < captures[t].manifest.from
      BY <1>1, <2>1 DEF LifecycleInv, CaptureInv, PendingIsNewest
    <3> QED
      BY <3>1, <1>2, <1>5, <1>6
  <2>2. CASE captures[t].manifest.from = 0
    <3>1. captures[t].manifest.through = 0
      BY <1>5, <2>2 DEF LifecycleInv, CaptureInv, SealedFaithful, Faithful
    <3> QED
      BY <3>1, <2>2, <1>5, <1>2
  <2> QED
    BY <2>1, <2>2
<1>8. catalog[t] = captures[t].manifest
  BY <1>7 DEF LifecycleInv, CaptureInv, CatalogSound
<1> QED
  BY <1>5, <1>6, <1>8, LifecycleAssumption

\* The status tells the truth: every record up to protected_high_water is in a
\* signed, uploaded set, although Worker looks at the newest frontier only.
THEOREM ProtectionIsArchived == LifecycleSpec => []ProtectedIsArchived
<1>1. LifecycleInv => ProtectedIsArchived
  <2> SUFFICES ASSUME LifecycleInv, NEW k \in 1..ProtectedHighWater
               PROVE  \E s \in signed : /\ {"parts", "manifest"} \subseteq cloud[s]
                                        /\ catalog[s] # NoManifest
                                        /\ catalog[s].records[k] = Exported(k)
    BY DEF ProtectedIsArchived, Exported
  <2> DEFINE verified == {s \in Sets : catalog[s] # NoManifest /\ VerifyCompletion(s)}
             highs == {catalog[s].high : s \in verified}
  <2>1. \A s \in verified : catalog[s].high \in 0..MaxSequence
    BY CatalogFaithful, ManifestFields DEF Faithful
  <2>2. verified # {}
    <3> SUFFICES ASSUME verified = {} PROVE FALSE
      OBVIOUS
    <3>1. ProtectedHighWater = 0
      BY DEF ProtectedHighWater
    <3> QED
      BY <3>1
  <2>3. PICK m \in highs : \A h \in highs : h <= m
    <3>1. highs \in SUBSET (0..MaxSequence) /\ highs # {}
      BY <2>1, <2>2
    <3> HIDE DEF highs
    <3> QED
      BY <3>1, LargestExists, BoundsAssumption
  <2>4. PICK best \in verified : m = catalog[best].high
    OBVIOUS
  <2>5. \E x \in {catalog[s] : s \in verified} :
           \A s \in verified : catalog[s].high <= x.high
    <3>1. catalog[best] \in {catalog[s] : s \in verified}
      OBVIOUS
    <3>2. \A s \in verified : catalog[s].high <= catalog[best].high
      BY <2>3, <2>4
    <3> QED
      BY <3>1, <3>2
  <2>6. PICK c : c = CHOOSE x \in {catalog[s] : s \in verified} :
                        \A s \in verified : catalog[s].high <= x.high
    OBVIOUS
  <2>7. c \in {catalog[s] : s \in verified} /\ ProtectedHighWater = c.high
    <3>1. ProtectedHighWater = c.high
      BY <2>2, <2>6 DEF ProtectedHighWater
    <3>2. c \in {catalog[s] : s \in verified}
      BY <2>5, <2>6
    <3> QED
      BY <3>1, <3>2
  <2>8. PICK s \in verified : c = catalog[s]
    BY <2>7
  <2>9. PICK t \in Sets : catalog[t] # NoManifest
                          /\ k \in catalog[t].from..catalog[t].through
    BY <2>7, <2>8, BelowVerifiedIsArchived
  <2>10. k > 0
    BY <2>1, <2>7, <2>8
  <2> QED
    BY <2>9, <2>10, CatalogHolds
<1> QED
  BY <1>1, LifecycleInductive, PTL

\* One Capture at a time settles its set before the next one begins.
THEOREM OneSetPending == LifecycleSpec => []OnePendingSet
<1>1. LifecycleInv => OnePendingSet
  BY DEF LifecycleInv, CaptureInv
<1> QED
  BY <1>1, LifecycleInductive, PTL

\* Whatever crashes between snapshot and seal, the sealed sets split the
\* captured range: no record is skipped and none is exported twice.
THEOREM CapturesSplitTheLog == LifecycleSpec => []CapturesPartition
<1>1. LifecycleInv => CapturesPartition
  BY DEF LifecycleInv, CaptureInv
<1> QED
  BY <1>1, LifecycleInductive, PTL

\* No cleanup removes the files an upload may still have to read.
THEOREM SealedIsResumable == LifecycleSpec => []SealedResumable
<1>1. LifecycleInv => SealedResumable
  BY DEF LifecycleInv, CaptureInv
<1> QED
  BY <1>1, LifecycleInductive, PTL

\* ApplyRetirement completes only what the authority holds with this plan, and
\* AbortRetirementPlan aborts only an operation that the authority wants aborted,
\* though maybe with another plan than the authority's.
THEOREM DecisionsAreAuthorized == LifecycleSpec => []DecisionsAuthorized
<1>1. LifecycleInv => DecisionsAuthorized
  BY DEF LifecycleInv, RetireInv, OperationsSound, AbortsWanted, DecisionsAuthorized
<1> QED
  BY <1>1, LifecycleInductive, PTL

\* A version 2 store has the complete receipt of every committed record.
LEMMA ReceiptOf ==
    ASSUME LifecycleInv, version = "2", NEW k \in 1..head
    PROVE  /\ k \in Seqs
           /\ log[k] \in Record /\ log[k].sequence = k /\ log[k].event.id \in Ids
           /\ ids[log[k].event.id] = Binding(log[k])
           /\ Binding(log[k]).form = "binding" /\ Binding(log[k]).seq = k
           /\ receiptIds[k] = log[k].event.id
           /\ receiptTimes[k] # NoTime
<1>1. IInv /\ head \in 0..MaxSequence
  BY DEF LifecycleInv, IInv, TypeOK
<1>2. k \in Seqs
  BY <1>1, BoundsAssumption DEF Seqs
<1>3. log[k] \in Record /\ log[k].sequence = k
  BY <1>1, <1>2 DEF IInv, LogShape
<1>4. Bound(k)
  BY <1>1 DEF Bound, IInv, Frontier, TypeOK
<1>5. ids[log[k].event.id] = Binding(log[k])
  BY <1>1, <1>4 DEF IInv, IndexMatchesLog, IndexEntry
<1>6. /\ receiptIds[k] = log[k].event.id
      /\ receiptTimes[k] = IF k <= legacyThrough THEN Legacy ELSE receivedAt[k]
  BY <1>1, <1>4 DEF IInv, ReceiptsMatchLog
<1>7. receivedAt[k] \in 0..MaxTime
  BY <1>1, ReceiptTimeType
<1>8. receiptTimes[k] # NoTime
  BY <1>6, <1>7, Sentinels
<1> QED
  BY <1>2, <1>3, <1>5, <1>6, <1>8, EntryTypes

\* There are as many used event ids as committed records.
LEMMA UsedIdsCounted ==
    ASSUME LifecycleInv, version = "2"
    PROVE  Cardinality({i \in Ids : ids[i] # NoReceipt}) = head
<1> DEFINE used == {i \in Ids : ids[i] # NoReceipt}
           idOf == [k \in 1..head |-> log[k].event.id]
<1>1. head \in Nat
  BY DEF LifecycleInv, IInv, TypeOK
<1>2. \A k \in 1..head : idOf[k] \in used /\ ids[idOf[k]].seq = k
  <2> SUFFICES ASSUME NEW k \in 1..head
               PROVE  log[k].event.id \in used /\ ids[log[k].event.id].seq = k
    OBVIOUS
  <2>1. /\ log[k].event.id \in Ids /\ log[k] \in Record
        /\ ids[log[k].event.id] = Binding(log[k]) /\ Binding(log[k]).seq = k
    BY ReceiptOf
  <2>2. Binding(log[k]) \in Receipt
    BY <2>1, EntryTypes
  <2> QED
    BY <2>1, <2>2, Sentinels
<1>3. \A i \in used : ids[i].seq \in 1..head /\ idOf[ids[i].seq] = i
  BY DEF LifecycleInv, IInv, IndexMatchesLog
<1>4. idOf \in Bijection(1..head, used)
  BY <1>2, <1>3 DEF Bijection, Injection, Surjection, IsInjective
<1>5. ExistsBijection(1..head, used)
  BY <1>4 DEF ExistsBijection
<1>6. IsFiniteSet(1..head) /\ Cardinality(1..head) = head
  BY <1>1, FS_Interval
<1> HIDE DEF used
<1>7. Cardinality(used) = Cardinality(1..head)
  BY <1>5, <1>6, FS_Bijection
<1> QED
  BY <1>6, <1>7 DEF used

\* The audit of receipts, bodies, catalog and cache.
LEMMA AuditOfRecords ==
    ASSUME LifecycleInv, version = "2"
    PROVE  AuditRecords
<1> DEFINE used == {i \in Ids : ids[i] # NoReceipt}
<1>1. /\ IInv /\ TypeOK /\ StoreExact
      /\ head \in 0..MaxSequence /\ archiveFloor \in 0..MaxSequence
  BY DEF LifecycleInv, IInv, TypeOK
<1>2. /\ archiveFloor <= head /\ legacyThrough <= head
      /\ backfilledThrough = legacyThrough /\ legacyAgeFloor # NoTime
  <2>1. now \in 0..MaxTime /\ legacyAgeFloor \in 0..now
    BY <1>1 DEF IInv, Clock, TypeOK
  <2>2. legacyAgeFloor \in 0..MaxTime
    BY <2>1, BoundsAssumption
  <2> QED
    BY <1>1, <2>2, Sentinels DEF IInv, Frontier
<1>3. ASSUME NEW i \in Ids, ids[i] # NoReceipt
      PROVE  /\ ids[i].form = "binding" /\ ids[i].seq \in 1..head
             /\ receiptIds[ids[i].seq] = i
  <2>1. ids[i].seq \in 1..head /\ log[ids[i].seq].event.id = i
    BY <1>1, <1>3 DEF IInv, IndexMatchesLog
  <2> QED
    BY <2>1, ReceiptOf
<1>4. Cardinality(used) = head
  BY UsedIdsCounted
<1>5. ASSUME NEW k \in Seqs
      PROVE  /\ (receiptIds[k] # NoId) = (k <= head)
             /\ (receiptTimes[k] # NoTime) = (k <= head)
  <2>1. CASE k <= head
    <3>1. k \in 1..head
      BY <1>1, <2>1 DEF Seqs
    <3>2. receiptIds[k] \in Ids /\ receiptTimes[k] # NoTime
      BY <3>1, ReceiptOf
    <3> QED
      BY <2>1, <3>2, Sentinels
  <2>2. CASE ~(k <= head)
    <3>1. k > head
      BY <1>1, <2>2, BoundsAssumption DEF Seqs
    <3> QED
      BY <1>1, <2>2, <3>1 DEF StoreExact
  <2> QED
    BY <2>1, <2>2
<1>6. ASSUME NEW k \in Seqs
      PROVE  /\ (events[k] # NoBody) = (k \in (archiveFloor + 1)..head)
             /\ events[k] # NoBody => /\ events[k].sequence = k
                                      /\ receiptIds[k] = events[k].event.id
                                      /\ ids[receiptIds[k]] = Binding(events[k])
  <2>1. events[k] # NoBody => k \in 1..head /\ log[k] = events[k]
    BY <1>1, BodyCommitted
  <2>2. events[k] # NoBody => k > archiveFloor
    BY <1>1, BoundsAssumption DEF StoreExact, Seqs
  <2>3. k \in (archiveFloor + 1)..head => events[k] # NoBody
    BY <1>1, BoundsAssumption DEF IInv, BytesPreserved, Seqs
  <2>4. events[k] # NoBody => k \in (archiveFloor + 1)..head
    BY <1>1, <2>1, <2>2, BoundsAssumption DEF Seqs
  <2>5. events[k] # NoBody => /\ events[k].sequence = k
                              /\ receiptIds[k] = events[k].event.id
                              /\ ids[receiptIds[k]] = Binding(events[k])
    BY <2>1, ReceiptOf
  <2> QED
    BY <2>3, <2>4, <2>5
<1>7. FloorInCatalog /\ cacheBytes = Cardinality(Cached)
  BY DEF LifecycleInv, RetireInv, CacheCounted
<1>8. ASSUME NEW k \in Cached
      PROVE  /\ k <= archiveFloor
             /\ archiveCache[k].sequence = k
             /\ ids[archiveCache[k].event.id] = Binding(archiveCache[k])
  <2>1. k \in Seqs /\ archiveCache[k] # NoBody /\ k <= archiveFloor
    BY <1>1, <1>8 DEF Cached, StoreExact
  <2>2. archiveCache[k] = log[k] /\ k \in 1..head
    BY <1>1, <1>2, <2>1, BoundsAssumption DEF IInv, BytesPreserved, Seqs
  <2> QED
    BY <2>1, <2>2, ReceiptOf
<1> QED
  BY <1>2, <1>3, <1>4, <1>5, <1>6, <1>7, <1>8 DEF AuditRecords, FloorInCatalog

\* Of the conditions of auditLifecycleTx, the source environment of the bodies
\* apart, every version 2 store that the calls produce meets all but one: the
\* range of an aborted operation may lie past the head.
THEOREM AuditFailuresAreExplained == LifecycleSpec => []AuditFailureExplained
<1>1. LifecycleInv => AuditFailureExplained
  <2> SUFFICES ASSUME LifecycleInv, version = "2"
               PROVE  AuditRecords /\ AuditOperations /\ RangesCommitted
    BY DEF AuditFailureExplained, RangesCommitted
  <2>1. AuditOperations /\ RangesCommitted
    BY DEF LifecycleInv, RetireInv, OperationsSound, AuditOperations
  <2> QED
    BY <2>1, AuditOfRecords
<1> QED
  BY <1>1, LifecycleInductive, PTL

-----------------------------------------------------------------------------
(***************************************************************************)
(* What a step may never do.                                               *)
(***************************************************************************)

\* Backup, retirement and cache leave receipts, process, log and collector of
\* the inbox alone.
LEMMA NotInbox ==
    ASSUME LifecycleNext, ~InboxStep, ~StopAll
    PROVE  UNCHANGED <<receiptVars, inboxRest>>
<1> USE DEF receiptVars, inboxRest
<1>1. CASE QuietNext
  BY <1>1, QuietIsQuiet DEF vars, storeVars
<1>2. ASSUME NEW s \in Sets, Rehydrate(s) PROVE UNCHANGED <<receiptVars, inboxRest>>
  BY <1>2 DEF Rehydrate
<1>3. ASSUME NEW through \in Seqs, EvictCache(through)
      PROVE  UNCHANGED <<receiptVars, inboxRest>>
  BY <1>3 DEF EvictCache
<1>4. ASSUME NEW r \in inflight, ApplyCommit(r) PROVE UNCHANGED <<receiptVars, inboxRest>>
  BY <1>4 DEF ApplyCommit
<1> QED
  BY <1>1, <1>2, <1>3, <1>4 DEF LifecycleNext, QuietNext

\* Only ApplyRetirement deletes a hot body, and only one that is old enough.
LEMMA DeletionStep ==
    ASSUME LifecycleInv, LifecycleNext, NEW k \in Seqs,
           events[k] # NoBody, events'[k] = NoBody
    PROVE  receivedAt[k] + Retention <= now
<1>1. IInv /\ IInv' /\ StoreExact
  BY StoreStep DEF LifecycleInv
<1>2. ~InboxStep /\ ~StopAll
  <2> SUFFICES ASSUME InboxStep \/ StopAll PROVE FALSE
    OBVIOUS
  <2>1. InboxNext
    BY DEF InboxStep, StopAll, InboxNext
  <2>2. archiveFloor' = archiveFloor /\ head \in Nat /\ head' \in Nat /\ head <= head'
    BY <1>1, <2>1, InboxStepKeeps DEF InboxKeeps
  <2>3. k <= head /\ k \in Nat
    BY <1>1, BodyCommitted, BoundsAssumption DEF Seqs
  <2>4. archiveFloor < k
    BY <1>1, BoundsAssumption DEF StoreExact, IInv, TypeOK, Seqs
  <2> QED
    BY <1>1, <2>2, <2>3, <2>4 DEF IInv, BytesPreserved
<1>3. ~QuietNext
  BY QuietIsQuiet DEF vars, storeVars
<1>4. \A s \in Sets : ~Rehydrate(s)
  BY DEF Rehydrate
<1>5. \A through \in Seqs : ~EvictCache(through)
  BY DEF EvictCache
<1>6. PICK r \in inflight : ApplyCommit(r)
  BY <1>2, <1>3, <1>4, <1>5 DEF LifecycleNext, QuietNext
<1>7. Applicable(r) /\ r.kind = "apply"
  BY <1>6 DEF ApplyCommit
<1>8. events'[k] = IF k \in r.st.plan.from..r.st.plan.through THEN NoBody ELSE events[k]
  BY <1>6, <1>7 DEF ApplyCommit, Retire
<1>9. version = "2" /\ k \in 1..head /\ ReceiptTime(k) <= now - Retention
  BY <1>1, <1>7, <1>8, ApplicableRange, BodyCommitted
<1>10. ReceiptTime(k) \in 0..MaxTime /\ receivedAt[k] \in 0..MaxTime
       /\ receivedAt[k] <= ReceiptTime(k)
  BY <1>1, <1>9, ReceiptTimeType
<1>11. now \in Nat /\ Retention \in Nat
  BY <1>1, BoundsAssumption, LifecycleAssumption DEF IInv, TypeOK
<1> HIDE DEF ReceiptTime
<1> QED
  BY <1>9, <1>10, <1>11, BoundsAssumption

\* ApplyRetirement honours the retention from the real commit, for legacy
\* records too.
THEOREM RetirementIsAged == LifecycleSpec => RetiredAged
<1> DEFINE Aged == \A k \in Seqs : events[k] # NoBody /\ events'[k] = NoBody =>
                      receivedAt[k] + Retention <= now
<1>1. LifecycleInv /\ [LifecycleNext]_lifecycleVars => [Aged]_lifecycleVars
  BY DeletionStep
<1> QED
  BY <1>1, LifecycleInductive, PTL DEF LifecycleSpec, RetiredAged

\* No call changes a decision that is terminal.
LEMMA TerminalStep ==
    ASSUME LifecycleInv, LifecycleNext, NEW o \in Ops,
           operations[o].status \in {"completed", "aborted"}
    PROVE  operations'[o] = operations[o]
<1>1. CASE ~DecisionNext
  BY <1>1, NotDecision DEF decisionVars
<1>2. CASE StopAll
  BY <1>2 DEF StopAll, lifeStoreVars
<1>3. ASSUME NEW q \in Ops, NEW p \in Plans,
             Activate(q, p) \/ PlanRetirement(q, p) \/ AbortCheck(q, p)
      PROVE  operations'[o] = operations[o]
  <2>1. CASE PlanRetirement(q, p)
    <3>1. /\ operations[q].status = "none"
          /\ operations' = [operations EXCEPT ![q] =
                [plan |-> p, status |-> "pending", retired |-> archiveFloor]]
      BY <2>1 DEF PlanRetirement
    <3>2. q # o
      BY <3>1
    <3> QED
      BY <3>1, <3>2
  <2>2. CASE Activate(q, p) \/ AbortCheck(q, p)
    BY <2>2 DEF Activate, AbortCheck, lifeStoreVars
  <2> QED
    BY <1>3, <2>1, <2>2
<1>4. ASSUME NEW q \in Ops, RequestAbort(q) \/ ApplyCheck(q)
      PROVE  operations'[o] = operations[o]
  BY <1>4 DEF RequestAbort, ApplyCheck, lifeStoreVars
<1>5. ASSUME NEW r \in inflight, ApplyCommit(r) PROVE operations'[o] = operations[o]
  <2>1. CASE Applicable(r)
    <3>1. operations[r.op].status = "pending"
      BY <1>5, <2>1 DEF ApplyCommit, Applicable, LifecycleInv, RetireInv, InflightSound
    <3> QED
      BY <1>5, <2>1, <3>1, DecisionTypes DEF ApplyCommit, Retire
  <2> QED
    BY <1>5, <2>1 DEF ApplyCommit
<1>6. ASSUME NEW r \in inflight, AbortCommit(r) PROVE operations'[o] = operations[o]
  <2> PICK tomb : tomb = Tombstone(IF operations[r.op].status = "none" THEN r.st.plan
                                                      ELSE operations[r.op].plan)
    OBVIOUS
  <2>1. CASE operations[r.op].status \in {"none", "pending"}
    <3>1. r.op # o
      BY <2>1
    <3>2. operations' = [operations EXCEPT ![r.op] = tomb] \/ operations' = operations
      BY <1>6 DEF AbortCommit
    <3>3. CASE operations' = [operations EXCEPT ![r.op] = tomb]
      BY <3>1, <3>3, DecisionTypes
    <3> QED
      BY <3>2, <3>3
  <2>2. CASE operations[r.op].status \notin {"none", "pending"}
    BY <1>6, <2>2 DEF AbortCommit
  <2> QED
    BY <2>1, <2>2
<1> QED
  BY <1>1, <1>2, <1>3, <1>4, <1>5, <1>6 DEF DecisionNext

\* A completed or aborted retirement stays as it is: no late apply, abort,
\* plan or retry changes it.
THEOREM DecisionsAreTerminal == LifecycleSpec => TerminalForever
<1> DEFINE Final == \A o \in Ops : operations[o].status \in {"completed", "aborted"} =>
                       operations'[o] = operations[o]
<1>1. LifecycleInv /\ [LifecycleNext]_lifecycleVars => [Final]_lifecycleVars
  BY TerminalStep
<1> QED
  BY <1>1, LifecycleInductive, PTL DEF LifecycleSpec, TerminalForever

\* Retired, archived and rehydrated records are never taken for corruption by
\* InsertEvent and Page.
THEOREM LifecycleNeverFences == LifecycleSpec => NeverFencesItself
<1> DEFINE Fault == failed' /\ ~failed => faults' = faults + 1 \/ Exhausted
<1>1. LifecycleInv /\ [LifecycleNext]_lifecycleVars => [Fault]_vars
  <2> SUFFICES ASSUME LifecycleInv, LifecycleNext PROVE Fault
    BY DEF lifecycleVars
  <2>1. CASE InboxStep \/ StopAll
    <3>1. InboxNext /\ IInv
      BY <2>1 DEF InboxStep, StopAll, InboxNext, LifecycleInv
    <3> QED
      BY <3>1, FaultStep
  <2>2. CASE ~InboxStep /\ ~StopAll
    BY <2>2, NotInbox DEF inboxRest, procVars
  <2> QED
    BY <2>1, <2>2
<1> QED
  BY <1>1, LifecycleInductive, PTL DEF LifecycleSpec, NeverFencesItself

-----------------------------------------------------------------------------
(***************************************************************************)
(* The abstract ledger.                                                    *)
(***************************************************************************)

\* The committed records as a sequence.
Committed == [k \in 1..head |-> log[k]]

\* Hot bodies and catalog together give back every committed record.
LEMMA EntriesAreCommitted ==
    ASSUME LifecycleInv
    PROVE  LedgerEntries = Committed
<1> SUFFICES ASSUME NEW k \in 1..head
             PROVE  (IF events[k] # NoBody THEN events[k] ELSE ArchivedRecord(k)) = log[k]
  BY DEF LedgerEntries, Committed
<1>1. IInv /\ head \in 0..MaxSequence /\ archiveFloor \in 0..MaxSequence
  BY DEF LifecycleInv, IInv, TypeOK
<1>2. k \in Seqs /\ k > 0
  BY <1>1, BoundsAssumption DEF Seqs
<1>3. CASE events[k] # NoBody
  BY <1>1, <1>2, <1>3 DEF IInv, BytesPreserved
<1>4. CASE events[k] = NoBody
  <2> DEFINE holders == {s \in Sets : catalog[s] # NoManifest /\ catalog[s].records[k] # NoBody}
  <2>1. k \in 1..archiveFloor
    BY <1>1, <1>2, <1>4, BoundsAssumption DEF IInv, BytesPreserved, Seqs
  <2>2. PICK s \in Sets : catalog[s] # NoManifest
                          /\ k \in catalog[s].from..catalog[s].through
    BY <2>1 DEF LifecycleInv, RetireInv, FloorInCatalog
  <2>3. catalog[s].records[k] = Exported(k) /\ version = "2"
    BY <1>2, <2>2, CatalogHolds, CatalogFaithful
  <2>4. Exported(k) # NoBody
    BY <1>1, <2>3, ExportedType
  <2>5. holders # {}
    BY <2>2, <2>3, <2>4
  <2> PICK t : t = CHOOSE x \in holders : TRUE
    OBVIOUS
  <2>6. t \in holders
    BY <2>5
  <2>7. Faithful(catalog[t])
    BY <2>6, CatalogFaithful
  <2>8. catalog[t].records[k] = Exported(k)
    BY <1>2, <2>6, <2>7 DEF Faithful
  <2>9. ArchivedRecord(k) = catalog[t].records[k].record
    BY <2>5 DEF ArchivedRecord
  <2> QED
    BY <1>4, <2>8, <2>9 DEF Exported
<1> QED
  BY <1>3, <1>4

\* The committed records are a sequence of records.
LEMMA CommittedShape ==
    ASSUME IInv
    PROVE  /\ Committed \in Seq(Record)
           /\ Len(Committed) = head
           /\ head \in Nat
           /\ \A k \in 1..head : Committed[k] = log[k] /\ log[k] \in Record
<1>1. head \in 0..MaxSequence
  BY DEF IInv, TypeOK
<1>2. \A k \in 1..head : k \in Seqs /\ log[k] \in Record
  BY <1>1, BoundsAssumption DEF IInv, LogShape, Seqs
<1> QED
  BY <1>1, <1>2, BoundsAssumption DEF Committed

\* A fresh record is one more entry, under an id that has none yet.
LEMMA FreshEntry ==
    ASSUME IInv, IInv', NEW e \in Events, ids[e.id] = NoReceipt, head < MaxSequence,
           StoreRecord(e)
    PROVE  /\ Committed' = Append(Committed, [sequence |-> head + 1, event |-> e])
           /\ \A k \in 1..head : log[k].event.id # e.id
<1>1. /\ Committed \in Seq(Record) /\ Len(Committed) = head /\ head \in Nat
      /\ \A k \in 1..head : Committed[k] = log[k] /\ log[k] \in Record
  BY CommittedShape
<1>2. head' = head + 1 /\ log' = [log EXCEPT ![head + 1] = [sequence |-> head + 1, event |-> e]]
  BY DEF StoreRecord
<1>3. DOMAIN log = Seqs /\ head + 1 \in Seqs /\ \A k \in 1..head : k \in Seqs
  BY <1>1, BoundsAssumption DEF IInv, TypeOK, Seqs
<1>4. /\ log'[head + 1] = [sequence |-> head + 1, event |-> e]
      /\ \A k \in 1..head : log'[k] = log[k]
  BY <1>1, <1>2, <1>3
<1>5. Committed' = [k \in 1..(head + 1) |-> log'[k]]
  BY <1>2 DEF Committed
<1>6. Committed' = Append(Committed, [sequence |-> head + 1, event |-> e])
  <2> DEFINE r == [sequence |-> head + 1, event |-> e]
             grown == Append(Committed, r)
  <2>1. grown = [k \in 1..(head + 1) |-> IF k \in 1..head THEN Committed[k] ELSE r]
    BY <1>1
  <2>2. \A k \in 1..(head + 1) : log'[k] = IF k \in 1..head THEN Committed[k] ELSE r
    BY <1>1, <1>4
  <2>3. [k \in 1..(head + 1) |-> log'[k]] =
           [k \in 1..(head + 1) |-> IF k \in 1..head THEN Committed[k] ELSE r]
    BY <2>2, Zenon
  <2> QED
    BY <1>5, <2>1, <2>3, Zenon
<1>7. ASSUME NEW k \in 1..head PROVE log[k].event.id # e.id
  <2>1. ids[log[k].event.id] = IndexEntry(k)
    BY DEF IInv, IndexMatchesLog
  <2>2. IndexEntry(k) \in Receipt
    BY <1>1, <1>3, EntryTypes DEF IndexEntry
  <2> QED
    BY <2>1, <2>2, Sentinels
<1> QED
  BY <1>6, <1>7

\* A step that commits, acknowledges and hands out nothing.
LEMMA LedgerStill ==
    ASSUME LifecycleInv, LifecycleInv', UNCHANGED <<head, log, acked, collected>>
    PROVE  UNCHANGED <<LedgerEntries, acked, collected>>
<1>1. LedgerEntries = Committed /\ (LedgerEntries = Committed)'
  BY EntriesAreCommitted, PTL
<1> QED
  BY <1>1 DEF Committed

\* A commit of InsertEvent, acknowledged or not, is the ledger's Commit.
LEMMA CommitRefines ==
    ASSUME LifecycleInv, LifecycleInv', NEW e \in Events, ids[e.id] = NoReceipt,
           head < MaxSequence, StoreRecord(e),
           acked' \in {acked, acked \cup {ContentDigest(e)}}, collected' = collected
    PROVE  Ledger!Commit
<1>1. LedgerEntries = Committed /\ (LedgerEntries = Committed)'
  BY EntriesAreCommitted, PTL
<1>2. /\ Len(Committed) = head
      /\ \A k \in 1..head : Committed[k] = log[k]
  BY CommittedShape DEF LifecycleInv
<1>3. /\ Committed' = Append(Committed, [sequence |-> head + 1, event |-> e])
      /\ \A k \in 1..head : log[k].event.id # e.id
  BY FreshEntry DEF LifecycleInv
<1>4. \A k \in 1..Len(LedgerEntries) : LedgerEntries[k].event.id # e.id
  BY <1>1, <1>2, <1>3
<1>5. LedgerEntries' = Append(LedgerEntries, [sequence |-> Len(LedgerEntries) + 1, event |-> e])
  BY <1>1, <1>2, <1>3
<1>6. acked' \in {acked, acked \cup {<<e.id, e.content>>}}
  BY DEF ContentDigest
<1>7. e \in [id : Ids, content : Contents, host : Hosts]
  BY DEF Events
<1> QED
  BY <1>4, <1>5, <1>6, <1>7 DEF Ledger!Commit

\* The answer to a duplicate is a promise about a listed content.
LEMMA KnownRefines ==
    ASSUME LifecycleInv, LifecycleInv', NEW e \in Events, InsertKnown(e)
    PROVE  Ledger!Promise \/ UNCHANGED <<LedgerEntries, acked, collected>>
<1>1. /\ ids[e.id] # NoReceipt
      /\ UNCHANGED <<head, log, collected>>
      /\ acked' # acked => /\ StoredDigest(e.id) = ContentDigest(e)
                           /\ acked' = acked \cup {ContentDigest(e)}
  BY DEF InsertKnown, Reply, storeVars, collectorVars
<1>2. IInv /\ TypeOK /\ StoreInv /\ e.id \in Ids
  BY DEF LifecycleInv, IInv, StoreInv, Events
<1>3. LedgerEntries = Committed /\ (LedgerEntries = Committed)'
  BY EntriesAreCommitted, PTL
<1>4. LedgerEntries' = LedgerEntries
  BY <1>1, <1>3 DEF Committed
<1>5. CASE acked' = acked
  BY <1>1, <1>4, <1>5
<1>6. CASE acked' # acked
  <2> DEFINE k == ids[e.id].seq
  <2>1. /\ StoredDigest(e.id) = ContentDigest(log[k].event) /\ k \in 1..head
    BY <1>1, <1>2, IndexTrusted, IndexFacts
  <2>2. acked' = acked \cup {<<log[k].event.id, log[k].event.content>>}
    BY <1>1, <1>6, <2>1 DEF ContentDigest
  <2>3. k \in 1..Len(LedgerEntries) /\ LedgerEntries[k] = log[k]
    BY <1>2, <1>3, <2>1, CommittedShape
  <2>4. <<log[k].event.id, log[k].event.content>> \in Ledger!Listed
    BY <2>3 DEF Ledger!Listed
  <2> QED
    BY <1>1, <1>4, <2>2, <2>4 DEF Ledger!Promise
<1> QED
  BY <1>5, <1>6

\* A page hands the collector the ledger up to the new cursor.
LEMMA PageRefines ==
    ASSUME LifecycleInv, LifecycleInv', NEW limit \in 1..PageLimit, Page(limit)
    PROVE  Ledger!Deliver \/ UNCHANGED <<LedgerEntries, acked, collected>>
<1>1. UNCHANGED <<head, log, acked>>
  BY DEF Page, storeVars, historyVars
<1>2. LedgerEntries = Committed /\ (LedgerEntries = Committed)'
  BY EntriesAreCommitted, PTL
<1>3. LedgerEntries' = LedgerEntries
  BY <1>1, <1>2 DEF Committed
<1>4. /\ IInv /\ cursor.after \in Nat /\ cursor.after <= head
      /\ collected = [i \in 1..cursor.after |-> log[i]]
      /\ collected' = [i \in 1..cursor'.after |-> log[i]]
  <2>1. IInv /\ TypeOK /\ CollectedPrefix /\ CollectedPrefix' /\ CursorValid
    BY DEF LifecycleInv, IInv, CursorAccepted
  <2>2. cursor.after \in Nat /\ cursor.after <= head
    BY <2>1, BoundsAssumption DEF TypeOK, CursorValid
  <2>3. collected = [i \in 1..cursor.after |-> log[i]]
    BY <2>1 DEF CollectedPrefix
  <2>4. collected' = [i \in 1..cursor'.after |-> log[i]]
    BY <2>1, <1>1 DEF CollectedPrefix
  <2> QED
    BY <2>1, <2>2, <2>3, <2>4
<1>5. CASE collected' = collected
  BY <1>1, <1>3, <1>5
<1>6. CASE collected' # collected
  <2> PICK n : n = cursor'.after
    OBVIOUS
  <2>1. cursor' = NextCursor(limit)
    BY <1>6 DEF Page, collectorVars
  <2>2. n \in cursor.after..head
    BY <1>4, <2>1, PageFacts
  <2>3. n # cursor.after
    BY <1>4, <1>6
  <2>4. /\ Committed \in Seq(Record) /\ Len(Committed) = head /\ head \in Nat
        /\ \A k \in 1..head : Committed[k] = log[k]
    BY <1>4, CommittedShape
  <2>5. Len(collected) = cursor.after
    BY <1>4
  <2>6. n \in (Len(collected) + 1)..Len(LedgerEntries)
    BY <1>2, <1>4, <2>2, <2>3, <2>4, <2>5
  <2>7. SubSeq(Committed, 1, n) = [i \in 1..n |-> Committed[i]]
    BY <2>2, <2>4, <1>4
  <2>8. [i \in 1..n |-> Committed[i]] = [i \in 1..n |-> log[i]]
    BY <2>2, <2>4, <1>4
  <2>9. collected' = SubSeq(LedgerEntries, 1, n)
    BY <1>2, <1>4, <2>7, <2>8
  <2> QED
    BY <1>1, <1>3, <2>6, <2>9 DEF Ledger!Deliver
<1> QED
  BY <1>5, <1>6

\* Every step of the lifecycle is a step of the ledger or invisible in it.
LEMMA LedgerStep ==
    ASSUME LifecycleInv, LifecycleInv', LifecycleNext
    PROVE  Ledger!LedgerNext \/ UNCHANGED <<LedgerEntries, acked, collected>>
<1> DEFINE Goal == Ledger!LedgerNext \/ UNCHANGED <<LedgerEntries, acked, collected>>
<1>1. CASE ~InboxStep /\ ~StopAll
  BY <1>1, NotInbox, LedgerStill DEF receiptVars, inboxRest, collectorVars, historyVars
<1>2. CASE StopAll
  BY <1>2, LedgerStill DEF StopAll, Stop, storeVars, collectorVars
<1>3. CASE InboxStep
  <2>1. ASSUME NEW e \in Events, InsertEvent(e) PROVE Goal
    <3>1. CASE InsertFresh(e)
      BY <3>1, CommitRefines DEF InsertFresh, Reply, collectorVars, Ledger!LedgerNext
    <3>2. CASE InsertAmbiguous(e)
      <4>1. CASE StoreRecord(e)
        BY <3>2, <4>1, CommitRefines DEF InsertAmbiguous, collectorVars, Ledger!LedgerNext
      <4>2. CASE UNCHANGED <<storeVars, log, receivedAt>>
        BY <3>2, <4>2, LedgerStill DEF InsertAmbiguous, storeVars, collectorVars
      <4> QED
        BY <3>2, <4>1, <4>2 DEF InsertAmbiguous
    <3>3. CASE InsertExhausted(e)
      BY <3>3, LedgerStill DEF InsertExhausted, storeVars, collectorVars, historyVars
    <3>4. CASE InsertKnown(e)
      BY <3>4, KnownRefines DEF Ledger!LedgerNext
    <3> QED
      BY <2>1, <3>1, <3>2, <3>3, <3>4 DEF InsertEvent
  <2>2. ASSUME NEW limit \in 1..PageLimit, Page(limit) PROVE Goal
    BY <2>2, PageRefines DEF Ledger!LedgerNext
  <2>3. ASSUME NEW batch \in 1..MigrateBatch, Migrate(batch) PROVE Goal
    BY <2>3, LedgerStill DEF Migrate, collectorVars, historyVars
  <2>4. CASE (\E mode \in BOOLEAN : Open(mode)) \/ AdmitRecovery \/ FinishAdmission \/ Tick
    BY <2>4, LedgerStill DEF Open, AdmitRecovery, FinishAdmission, Tick, storeVars,
                             collectorVars, historyVars
  <2> QED
    BY <1>3, <2>1, <2>2, <2>3, <2>4 DEF InboxStep, InboxRun
<1> QED
  BY <1>1, <1>2, <1>3

\* Hot bodies and verified archives together implement the append-only ledger:
\* capture, retirement, rehydration, migration and crashes are invisible in it.
THEOREM ImplementsLedger == LifecycleSpec => RefinesLedger
<1>1. LifecycleInit => Ledger!LedgerInit
  <2> SUFFICES ASSUME LifecycleInit PROVE Ledger!LedgerInit
    OBVIOUS
  <2>1. head = 0 /\ acked = {} /\ collected = <<>>
    BY DEF LifecycleInit, Init
  <2>2. LedgerEntries = <<>>
    BY <2>1 DEF LedgerEntries
  <2> QED
    BY <2>1, <2>2 DEF Ledger!LedgerInit
<1>2. LifecycleInv /\ LifecycleInv' /\ [LifecycleNext]_lifecycleVars =>
         [Ledger!LedgerNext]_<<LedgerEntries, acked, collected>>
  <2> SUFFICES ASSUME LifecycleInv, LifecycleInv', UNCHANGED lifecycleVars
               PROVE  UNCHANGED <<LedgerEntries, acked, collected>>
    BY LedgerStep
  <2> QED
    BY LedgerStill DEF lifecycleVars, vars, storeVars, collectorVars, historyVars
<1> QED
  BY <1>1, <1>2, LifecycleInductive, PTL DEF LifecycleSpec, RefinesLedger, Ledger!LedgerSpec
=============================================================================
