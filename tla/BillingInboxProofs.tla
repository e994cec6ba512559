------------------------- MODULE BillingInboxProofs -------------------------
(***************************************************************************)
(* IInv is an inductive invariant of the inbox; the safety properties      *)
(* follow from it for every value of the constants.                        *)
(***************************************************************************)
EXTENDS BillingInbox, SequenceTheorems, TLAPS

\* The sentinels differ from the values they stand in for.
LEMMA Sentinels ==
    /\ NoBody \notin Record
    /\ NoReceipt \notin Receipt
    /\ NoId \notin Ids
    /\ \A t \in 0..MaxTime : t # NoTime /\ t # Legacy
    /\ Legacy # NoTime
BY SentinelAssumption DEF Record, Receipt

\* Index entries are receipts, and say which sequence they are for.
LEMMA EntryTypes ==
    /\ \A k \in Seqs : /\ RawKey(k) \in Receipt
                       /\ RawKey(k).seq = k
                       /\ RawKey(k).form = "raw"
    /\ \A r \in Record : /\ Binding(r) \in Receipt
                         /\ Binding(r).seq = r.sequence
                         /\ Binding(r).form = "binding"
                         /\ Binding(r).digest = ContentDigest(r.event)
                         /\ Binding(r).record = r
                         /\ ContentDigest(r.event) \in Ids \X Contents
                         /\ r.event.id \in Ids
BY DEF Receipt, RawKey, Binding, Record, Events, ContentDigest

\* The part of the invariant about the database and what was committed.
StoreInv ==
    /\ LogShape
    /\ BytesPreserved
    /\ IndexMatchesLog
    /\ Frontier
    /\ ReceiptsMatchLog
    /\ Clock

\* The initial store is empty.
LEMMA InitIInv == Init => IInv
<1> SUFFICES ASSUME Init PROVE IInv
  OBVIOUS
<1> USE BoundsAssumption, Sentinels
<1>1. TypeOK
  <2>1. /\ version \in {"1", "2-migrating", "2"}
        /\ events \in [Seqs -> Record \cup {NoBody}]
        /\ ids \in [Ids -> Receipt \cup {NoReceipt}]
        /\ receiptIds \in [Seqs -> Ids \cup {NoId}]
        /\ receiptTimes \in [Seqs -> 0..MaxTime \cup {Legacy, NoTime}]
        /\ archiveCache \in [Seqs -> Record \cup {NoBody}]
        /\ log \in [Seqs -> Record \cup {NoBody}]
        /\ receivedAt \in [Seqs -> 0..MaxTime \cup {NoTime}]
    BY DEF Init
  <2>2. /\ head \in 0..MaxSequence /\ legacyThrough \in 0..MaxSequence
        /\ backfilledThrough \in 0..MaxSequence /\ archiveFloor \in 0..MaxSequence
        /\ now \in 0..MaxTime /\ faults \in 0..MaxFaults
        /\ cursor \in [after : 0..MaxSequence, through : 0..MaxSequence]
    BY DEF Init
  <2>3. /\ legacyAgeFloor \in 0..MaxTime \cup {NoTime}
        /\ recoveryFence \in BOOLEAN /\ up \in BOOLEAN
        /\ failed \in BOOLEAN /\ recovering \in BOOLEAN
        /\ acked \subseteq Ids \X Contents
    BY DEF Init
  <2>4. collected \in Seq(Record)
    BY DEF Init
  <2> QED
    BY <2>1, <2>2, <2>3, <2>4 DEF TypeOK
<1>2. LogShape /\ BytesPreserved /\ IndexMatchesLog
  BY DEF Init, LogShape, BytesPreserved, IndexMatchesLog, Seqs
<1>3. Frontier /\ ReceiptsMatchLog /\ Clock /\ CursorAccepted
  BY DEF Init, Frontier, ReceiptsMatchLog, Clock, CursorAccepted, CursorValid
<1>4. CollectedPrefix
  BY DEF Init, CollectedPrefix
<1>5. AckedCommitted /\ FenceKnown
  BY DEF Init, AckedCommitted, FenceKnown
<1> QED
  BY <1>1, <1>2, <1>3, <1>4, <1>5 DEF IInv

\* A fresh record extends the log, the index and the receipts consistently.
LEMMA StoreRecordInv ==
    ASSUME IInv, NEW e \in Events, ids[e.id] = NoReceipt, head < MaxSequence,
           StoreRecord(e), UNCHANGED now
    PROVE  /\ StoreInv'
           /\ head' = head + 1
           /\ \A k \in 1..head : log'[k] = log[k]
           /\ log'[head + 1] = [sequence |-> head + 1, event |-> e]
           /\ version' \in {"1", "2-migrating", "2"}
           /\ head' \in 0..MaxSequence
           /\ events' \in [Seqs -> Record \cup {NoBody}]
           /\ ids' \in [Ids -> Receipt \cup {NoReceipt}]
           /\ receiptIds' \in [Seqs -> Ids \cup {NoId}]
           /\ receiptTimes' \in [Seqs -> 0..MaxTime \cup {Legacy, NoTime}]
           /\ log' \in [Seqs -> Record \cup {NoBody}]
           /\ receivedAt' \in [Seqs -> 0..MaxTime \cup {NoTime}]
<1> PICK n : n = head + 1
  OBVIOUS
<1> DEFINE r == [sequence |-> n, event |-> e]
<1> USE BoundsAssumption
<1>1. /\ TypeOK /\ LogShape /\ BytesPreserved /\ IndexMatchesLog
      /\ Frontier /\ ReceiptsMatchLog /\ Clock
  BY DEF IInv
<1>2. /\ n \in Seqs /\ n \in 1..n /\ head \in Nat /\ n = head + 1
      /\ r \in Record /\ r.sequence = n /\ r.event = e /\ e.id \in Ids
  BY <1>1 DEF TypeOK, Seqs, Record, Events
<1>3. /\ head' = n
      /\ events' = [events EXCEPT ![n] = r]
      /\ log' = [log EXCEPT ![n] = r]
      /\ receivedAt' = [receivedAt EXCEPT ![n] = now]
      /\ version' = version /\ legacyThrough' = legacyThrough
      /\ backfilledThrough' = backfilledThrough
      /\ legacyAgeFloor' = legacyAgeFloor /\ archiveFloor' = archiveFloor
      /\ archiveCache' = archiveCache
  BY DEF StoreRecord
<1>4. /\ ids' = [ids EXCEPT ![e.id] = IF version = "1" THEN RawKey(n) ELSE Binding(r)]
      /\ receiptIds' = IF version = "1" THEN receiptIds
                                        ELSE [receiptIds EXCEPT ![n] = e.id]
      /\ receiptTimes' = IF version = "1" THEN receiptTimes
                                          ELSE [receiptTimes EXCEPT ![n] = now]
  BY DEF StoreRecord
<1>5. \A k \in 1..head : k \in Seqs /\ k # n /\ log'[k] = log[k]
                         /\ receivedAt'[k] = receivedAt[k]
                         /\ log[k] \in Record /\ log[k].event.id \in Ids
  BY <1>1, <1>2, <1>3, EntryTypes DEF TypeOK, LogShape, Seqs
<1>6. log'[n] = r /\ receivedAt'[n] = now /\ events'[n] = r /\ ids'[e.id] =
        (IF version = "1" THEN RawKey(n) ELSE Binding(r))
  BY <1>1, <1>2, <1>3, <1>4 DEF TypeOK
<1>7. LogShape'
  BY <1>1, <1>2, <1>3, <1>6 DEF LogShape, TypeOK, Seqs
<1>8. BytesPreserved'
  <2> SUFFICES ASSUME NEW k \in Seqs
               PROVE  /\ events'[k] \in {log'[k], NoBody}
                      /\ archiveCache'[k] \in {log'[k], NoBody}
                      /\ archiveFloor < k /\ k <= head' => events'[k] # NoBody
    BY <1>3 DEF BytesPreserved
  <2>1. CASE k = n
    <3>1. log[k] = NoBody
      BY <2>1, <1>1, <1>2 DEF LogShape
    <3>2. archiveCache[k] = NoBody
      BY <3>1, <1>1 DEF BytesPreserved
    <3> QED
      BY <2>1, <3>2, <1>2, <1>3, <1>6, Sentinels
  <2>2. CASE k # n
    <3>1. events'[k] = events[k] /\ log'[k] = log[k] /\ (k <= head' => k <= head)
      BY <2>2, <1>1, <1>2, <1>3 DEF TypeOK, Seqs
    <3> QED
      BY <3>1, <1>1, <1>3 DEF BytesPreserved
  <2> QED
    BY <2>1, <2>2
<1>9. \A k \in 1..head : log[k].event.id # e.id
  <2> SUFFICES ASSUME NEW k \in 1..head PROVE log[k].event.id # e.id
    OBVIOUS
  <2>1. IndexEntry(k) \in Receipt
    BY <1>5, EntryTypes DEF IndexEntry
  <2> QED
    BY <2>1, <1>1, Sentinels DEF IndexMatchesLog
<1>10. Frontier'
  BY <1>1, <1>2, <1>3 DEF Frontier, TypeOK
<1>11. \A k \in 1..head : Bound(k)' = Bound(k) /\ IndexEntry(k)' = IndexEntry(k)
  BY <1>3, <1>5 DEF Bound, IndexEntry, Binding, ContentDigest
<1>12. IndexEntry(n)' = (IF version = "1" THEN RawKey(n) ELSE Binding(r))
       /\ (Bound(n)' <=> version # "1")
  BY <1>1, <1>2, <1>3, <1>6 DEF Bound, IndexEntry, Frontier, TypeOK, Binding, ContentDigest, RawKey
<1>13. IndexMatchesLog'
  <2>1. ASSUME NEW k \in (1..head)' PROVE (ids[log[k].event.id] = IndexEntry(k))'
    <3>1. CASE k = n
      BY <3>1, <1>2, <1>6, <1>12
    <3>2. CASE k # n
      <4>1. k \in 1..head
        BY <3>2, <2>1, <1>2, <1>3
      <4> QED
        BY <4>1, <1>1, <1>4, <1>5, <1>9, <1>11 DEF IndexMatchesLog, TypeOK
    <3> QED
      BY <3>1, <3>2
  <2>2. ASSUME NEW i \in Ids, ids'[i] # NoReceipt
        PROVE  ids'[i].seq \in (1..head)' /\ log'[ids'[i].seq].event.id = i
    <3>1. CASE i = e.id
      BY <3>1, <1>2, <1>3, <1>6, EntryTypes
    <3>2. CASE i # e.id
      <4>1. ids'[i] = ids[i]
        BY <3>2, <1>1, <1>4 DEF TypeOK
      <4> QED
        BY <4>1, <2>2, <1>1, <1>2, <1>3, <1>5 DEF IndexMatchesLog
    <3> QED
      BY <3>1, <3>2
  <2> QED
    BY <2>1, <2>2 DEF IndexMatchesLog
<1>14. ReceiptsMatchLog'
  <2> SUFFICES ASSUME NEW k \in (1..head)', Bound(k)'
               PROVE  /\ receiptIds'[k] = log'[k].event.id
                      /\ receiptTimes'[k] = IF k <= legacyThrough THEN Legacy
                                                                   ELSE receivedAt'[k]
    BY <1>3 DEF ReceiptsMatchLog
  <2>1. CASE k = n
    BY <2>1, <1>1, <1>2, <1>4, <1>6, <1>12 DEF TypeOK, Frontier
  <2>2. CASE k # n
    <3>1. k \in 1..head
      BY <2>2, <1>2, <1>3
    <3>2. receiptIds'[k] = receiptIds[k] /\ receiptTimes'[k] = receiptTimes[k]
      BY <2>2, <3>1, <1>1, <1>4, <1>5 DEF TypeOK
    <3> QED
      BY <3>1, <3>2, <1>1, <1>5, <1>11 DEF ReceiptsMatchLog
  <2> QED
    BY <2>1, <2>2
<1>15. Clock'
  BY <1>1, <1>2, <1>3, <1>5, <1>6 DEF Clock, TypeOK, Frontier
<1>16. /\ events' \in [Seqs -> Record \cup {NoBody}]
       /\ ids' \in [Ids -> Receipt \cup {NoReceipt}]
       /\ log' \in [Seqs -> Record \cup {NoBody}]
       /\ receivedAt' \in [Seqs -> 0..MaxTime \cup {NoTime}]
  BY <1>1, <1>2, <1>3, <1>4, EntryTypes DEF TypeOK
<1>17. /\ receiptIds' \in [Seqs -> Ids \cup {NoId}]
       /\ receiptTimes' \in [Seqs -> 0..MaxTime \cup {Legacy, NoTime}]
  BY <1>1, <1>2, <1>4 DEF TypeOK
<1>18. version' \in {"1", "2-migrating", "2"} /\ head' \in 0..MaxSequence
  BY <1>1, <1>2, <1>3 DEF TypeOK, Seqs
<1> QED
  BY <1>2, <1>3, <1>5, <1>6, <1>7, <1>8, <1>10, <1>13, <1>14, <1>15, <1>16, <1>17, <1>18
     DEF StoreInv

\* A step that leaves database, log and clock alone keeps the store's part.
LEMMA StoreUnchanged ==
    ASSUME StoreInv, UNCHANGED <<version, head, events, ids, receiptIds,
                                 receiptTimes, legacyThrough, backfilledThrough,
                                 legacyAgeFloor, archiveFloor, archiveCache,
                                 log, receivedAt, now>>
    PROVE  StoreInv'
<1>1. LogShape' /\ BytesPreserved' /\ Frontier' /\ Clock'
  BY DEF StoreInv, LogShape, BytesPreserved, Frontier, Clock
<1>2. IndexMatchesLog' /\ ReceiptsMatchLog'
  BY DEF StoreInv, IndexMatchesLog, ReceiptsMatchLog, Bound, IndexEntry, Binding,
         ContentDigest, RawKey
<1> QED
  BY <1>1, <1>2 DEF StoreInv

\* An index entry of the invariant: which record it is for and what it says.
LEMMA IndexFacts ==
    ASSUME TypeOK, StoreInv, NEW i \in Ids, ids[i] # NoReceipt
    PROVE  LET k == ids[i].seq IN
           /\ k \in 1..head
           /\ k \in Seqs
           /\ log[k] \in Record
           /\ log[k].sequence = k
           /\ log[k].event.id = i
           /\ ids[i] = IndexEntry(k)
<1> DEFINE k == ids[i].seq
<1>1. k \in 1..head /\ log[k].event.id = i
  BY DEF StoreInv, IndexMatchesLog
<1>2. k \in Seqs
  BY <1>1, BoundsAssumption DEF TypeOK, Seqs
<1> QED
  BY <1>1, <1>2 DEF StoreInv, IndexMatchesLog, LogShape

\* Below version 2 nothing is retired: every committed body is hot.
LEMMA HotBodies ==
    ASSUME TypeOK, StoreInv, version # "2", NEW k \in 1..head
    PROVE  k \in Seqs /\ events[k] = log[k] /\ events[k] # NoBody
<1>1. k \in Seqs /\ archiveFloor < k /\ k <= head
  BY BoundsAssumption DEF StoreInv, Frontier, TypeOK, Seqs
<1> QED
  BY <1>1 DEF StoreInv, BytesPreserved

\* The duplicate check never meets an entry it distrusts, and the digest it
\* compares with is that of the committed record.
LEMMA IndexTrusted ==
    ASSUME TypeOK, StoreInv, NEW i \in Ids, ids[i] # NoReceipt
    PROVE  /\ IndexSound(i)
           /\ StoredDigest(i) = ContentDigest(log[ids[i].seq].event)
<1> DEFINE k == ids[i].seq
<1>1. /\ k \in 1..head /\ k \in Seqs /\ log[k] \in Record /\ log[k].sequence = k
      /\ log[k].event.id = i /\ ids[i] = IndexEntry(k)
  BY IndexFacts
<1>2. CASE Bound(k)
  <2>1. ids[i] = Binding(log[k])
    BY <1>1, <1>2 DEF IndexEntry
  <2>2. /\ ids[i].form = "binding" /\ ids[i].record = log[k]
        /\ ids[i].digest = ContentDigest(log[k].event)
    BY <2>1, <1>1, EntryTypes
  <2>3. receiptIds[k] = i
    BY <1>1, <1>2 DEF StoreInv, ReceiptsMatchLog
  <2>4. events[k] # NoBody => events[k] = log[k]
    BY <1>1 DEF StoreInv, BytesPreserved
  <2>5. k <= head
    BY <1>1 DEF TypeOK
  <2> QED
    BY <2>2, <2>3, <2>4, <2>5 DEF IndexSound, StoredDigest
<1>3. CASE ~Bound(k)
  <2>1. ids[i] = RawKey(k) /\ ids[i].form = "raw"
    BY <1>1, <1>3, EntryTypes DEF IndexEntry
  <2>2. version # "2"
    BY <1>1, <1>3 DEF Bound, StoreInv, Frontier, TypeOK
  <2>3. events[k] = log[k] /\ events[k] # NoBody
    BY <1>1, <2>2, HotBodies
  <2> QED
    BY <2>1, <2>3, <1>1 DEF IndexSound, StoredDigest
<1> QED
  BY <1>2, <1>3

\* The committed records below the head never change, so the collector's
\* prefix and the acknowledged digests stay what they are.
LEMMA PrefixKept ==
    ASSUME IInv, head' \in Nat, head <= head',
           \A k \in 1..head : log'[k] = log[k], UNCHANGED collectorVars
    PROVE  CursorAccepted' /\ CollectedPrefix'
<1>1. /\ cursor.after \in Nat /\ cursor.through \in Nat /\ head \in Nat
      /\ cursor.after <= head /\ cursor' = cursor /\ collected' = collected
  BY DEF IInv, TypeOK, CursorAccepted, CursorValid, collectorVars
<1>2. CursorAccepted'
  BY <1>1 DEF IInv, CursorAccepted, CursorValid
<1>3. \A i \in 1..cursor.after : log'[i] = log[i]
  BY <1>1
<1>4. CollectedPrefix'
  BY <1>1, <1>3 DEF IInv, CollectedPrefix
<1> QED
  BY <1>2, <1>4

\* A step that keeps the committed records keeps what was acknowledged.
LEMMA AckedKept ==
    ASSUME IInv, NEW e \in Events, head' \in Nat, head <= head',
           \A k \in 1..head : log'[k] = log[k],
           acked' \subseteq acked \cup {ContentDigest(e)},
           acked' # acked => \E k \in 1..head' : ContentDigest(log'[k].event) = ContentDigest(e)
    PROVE  AckedCommitted'
<1> SUFFICES ASSUME NEW d \in acked'
             PROVE  \E k \in 1..head' : ContentDigest(log'[k].event) = d
  BY DEF AckedCommitted, ContentDigest
<1>1. CASE d \in acked
  <2>1. PICK k \in 1..head : ContentDigest(log[k].event) = d
    BY <1>1 DEF IInv, AckedCommitted
  <2>2. head \in Nat
    BY DEF IInv, TypeOK
  <2>3. k \in 1..head' /\ log'[k] = log[k]
    BY <2>2
  <2> QED
    BY <2>1, <2>3
<1>2. CASE d \notin acked
  BY <1>2
<1> QED
  BY <1>1, <1>2

-----------------------------------------------------------------------------
(***************************************************************************)
(* One lemma per action.                                                   *)
(***************************************************************************)

\* InsertEvent commits a fresh event.
LEMMA InsertFreshStep ==
    ASSUME IInv, NEW e \in Events, InsertFresh(e)
    PROVE  IInv'
<1>1. /\ ids[e.id] = NoReceipt /\ head < MaxSequence /\ StoreRecord(e) /\ now' = now
      /\ acked' \in {acked, acked \cup {ContentDigest(e)}}
      /\ UNCHANGED <<up, failed, recovering, cursor, collected, faults>>
      /\ UNCHANGED <<legacyThrough, backfilledThrough, legacyAgeFloor,
                     archiveFloor, archiveCache, recoveryFence>>
  BY DEF InsertFresh, Reply, StoreRecord, procVars, collectorVars
<1>2. /\ StoreInv'
      /\ head' = head + 1
      /\ \A k \in 1..head : log'[k] = log[k]
      /\ log'[head + 1] = [sequence |-> head + 1, event |-> e]
      /\ version' \in {"1", "2-migrating", "2"} /\ head' \in 0..MaxSequence
      /\ events' \in [Seqs -> Record \cup {NoBody}]
      /\ ids' \in [Ids -> Receipt \cup {NoReceipt}]
      /\ receiptIds' \in [Seqs -> Ids \cup {NoId}]
      /\ receiptTimes' \in [Seqs -> 0..MaxTime \cup {Legacy, NoTime}]
      /\ log' \in [Seqs -> Record \cup {NoBody}]
      /\ receivedAt' \in [Seqs -> 0..MaxTime \cup {NoTime}]
  BY <1>1, StoreRecordInv
<1>3. head \in Nat /\ head' \in Nat /\ head + 1 \in 1..head'
  BY <1>2 DEF IInv, TypeOK
<1>4. TypeOK'
  <2>1. acked' \subseteq Ids \X Contents
    BY <1>1 DEF IInv, TypeOK, Events, ContentDigest
  <2> QED
    BY <1>1, <1>2, <2>1 DEF IInv, TypeOK
<1>5. CursorAccepted' /\ CollectedPrefix'
  BY <1>1, <1>2, <1>3, PrefixKept DEF collectorVars
<1>6. AckedCommitted'
  <2>1. ContentDigest(log'[head + 1].event) = ContentDigest(e)
    BY <1>2 DEF ContentDigest
  <2> QED
    BY <1>1, <1>2, <1>3, <2>1, AckedKept
<1>7. FenceKnown'
  BY <1>1 DEF IInv, FenceKnown
<1> QED
  BY <1>2, <1>4, <1>5, <1>6, <1>7 DEF IInv, StoreInv

\* InsertEvent cannot tell whether its commit happened, and fences.
LEMMA InsertAmbiguousStep ==
    ASSUME IInv, NEW e \in Events, InsertAmbiguous(e)
    PROVE  IInv'
<1>1. /\ ids[e.id] = NoReceipt /\ head < MaxSequence /\ now' = now /\ acked' = acked
      /\ faults < MaxFaults /\ faults' = faults + 1 /\ failed' = TRUE
      /\ UNCHANGED <<up, recovering, cursor, collected>>
      /\ UNCHANGED <<legacyThrough, backfilledThrough, legacyAgeFloor,
                     archiveFloor, archiveCache, recoveryFence>>
  BY DEF InsertAmbiguous, StoreRecord, storeVars, collectorVars
<1>2. /\ StoreInv'
      /\ head <= head'
      /\ \A k \in 1..head : log'[k] = log[k]
      /\ version' \in {"1", "2-migrating", "2"} /\ head' \in 0..MaxSequence
      /\ events' \in [Seqs -> Record \cup {NoBody}]
      /\ ids' \in [Ids -> Receipt \cup {NoReceipt}]
      /\ receiptIds' \in [Seqs -> Ids \cup {NoId}]
      /\ receiptTimes' \in [Seqs -> 0..MaxTime \cup {Legacy, NoTime}]
      /\ log' \in [Seqs -> Record \cup {NoBody}]
      /\ receivedAt' \in [Seqs -> 0..MaxTime \cup {NoTime}]
  <2>1. CASE StoreRecord(e)
    <3>1. /\ StoreInv' /\ head' = head + 1
          /\ \A k \in 1..head : log'[k] = log[k]
          /\ version' \in {"1", "2-migrating", "2"} /\ head' \in 0..MaxSequence
          /\ events' \in [Seqs -> Record \cup {NoBody}]
          /\ ids' \in [Ids -> Receipt \cup {NoReceipt}]
          /\ receiptIds' \in [Seqs -> Ids \cup {NoId}]
          /\ receiptTimes' \in [Seqs -> 0..MaxTime \cup {Legacy, NoTime}]
          /\ log' \in [Seqs -> Record \cup {NoBody}]
          /\ receivedAt' \in [Seqs -> 0..MaxTime \cup {NoTime}]
      BY <1>1, <2>1, StoreRecordInv
    <3>2. head <= head'
      BY <3>1 DEF IInv, TypeOK
    <3> QED
      BY <3>1, <3>2
  <2>2. CASE UNCHANGED <<storeVars, log, receivedAt>>
    <3>1. StoreInv'
      BY <1>1, <2>2, StoreUnchanged DEF IInv, StoreInv, storeVars
    <3> QED
      BY <2>2, <3>1 DEF storeVars, IInv, TypeOK
  <2> QED
    BY <2>1, <2>2 DEF InsertAmbiguous
<1>3. head \in Nat /\ head' \in Nat
  BY <1>2 DEF IInv, TypeOK
<1>4. TypeOK'
  <2>1. faults' \in 0..MaxFaults
    BY <1>1, BoundsAssumption DEF IInv, TypeOK
  <2> QED
    BY <1>1, <1>2, <2>1 DEF IInv, TypeOK
<1>5. CursorAccepted' /\ CollectedPrefix'
  BY <1>1, <1>2, <1>3, PrefixKept DEF collectorVars
<1>6. AckedCommitted'
  BY <1>1, <1>2, <1>3, AckedKept
<1>7. FenceKnown'
  BY <1>1 DEF IInv, FenceKnown
<1> QED
  BY <1>2, <1>4, <1>5, <1>6, <1>7 DEF IInv, StoreInv

\* The conjuncts that only read what a step leaves alone.
LEMMA QuietStep ==
    ASSUME IInv, UNCHANGED <<version, head, events, ids, receiptIds,
                             receiptTimes, legacyThrough, backfilledThrough,
                             legacyAgeFloor, archiveFloor, archiveCache,
                             log, receivedAt, now, cursor, collected>>
    PROVE  StoreInv' /\ CursorAccepted' /\ CollectedPrefix'
<1>1. StoreInv'
  BY StoreUnchanged DEF IInv, StoreInv
<1>2. CursorAccepted' /\ CollectedPrefix'
  BY DEF IInv, CursorAccepted, CursorValid, CollectedPrefix
<1> QED
  BY <1>1, <1>2

\* InsertEvent finds the sequence numbers used up, and fences.
LEMMA InsertExhaustedStep ==
    ASSUME IInv, NEW e \in Events, InsertExhausted(e)
    PROVE  IInv'
<1>1. /\ failed' = TRUE
      /\ UNCHANGED <<storeVars, up, recovering, now, collectorVars, historyVars>>
  BY DEF InsertExhausted
<1>2. StoreInv' /\ CursorAccepted' /\ CollectedPrefix'
  BY <1>1, QuietStep DEF storeVars, collectorVars, historyVars
<1>3. TypeOK'
  BY <1>1 DEF IInv, TypeOK, storeVars, collectorVars, historyVars
<1>4. AckedCommitted' /\ FenceKnown'
  BY <1>1 DEF IInv, AckedCommitted, FenceKnown, storeVars, historyVars, ContentDigest
<1> QED
  BY <1>2, <1>3, <1>4 DEF IInv, StoreInv

\* InsertEvent answers a retry or a conflict and never fences.
LEMMA InsertKnownStep ==
    ASSUME IInv, NEW e \in Events, InsertKnown(e)
    PROVE  IInv' /\ failed' = FALSE
<1>1. /\ ids[e.id] # NoReceipt
      /\ failed' = ~IndexSound(e.id)
      /\ UNCHANGED <<storeVars, up, recovering, now, collectorVars,
                     log, receivedAt, faults>>
      /\ acked' # acked => /\ StoredDigest(e.id) = ContentDigest(e)
                           /\ acked' = acked \cup {ContentDigest(e)}
  BY DEF InsertKnown, Reply
<1>2. e.id \in Ids /\ TypeOK /\ StoreInv
  BY DEF IInv, StoreInv, Events
<1>3. failed' = FALSE /\ StoredDigest(e.id) = ContentDigest(log[ids[e.id].seq].event)
  BY <1>1, <1>2, IndexTrusted
<1>4. ids[e.id].seq \in 1..head
  BY <1>1, <1>2, IndexFacts
<1>5. StoreInv' /\ CursorAccepted' /\ CollectedPrefix'
  BY <1>1, QuietStep DEF storeVars, collectorVars
<1>6. TypeOK'
  <2>1. acked' \subseteq Ids \X Contents
    BY <1>1 DEF IInv, TypeOK, Events, ContentDigest
  <2> QED
    BY <1>1, <1>3, <2>1 DEF IInv, TypeOK, storeVars, collectorVars
<1>7. AckedCommitted'
  <2>1. /\ head' = head /\ head \in Nat /\ log' = log
        /\ acked' \subseteq acked \cup {ContentDigest(e)}
    BY <1>1 DEF storeVars, IInv, TypeOK
  <2>2. acked' # acked => ContentDigest(log[ids[e.id].seq].event) = ContentDigest(e)
    BY <1>1, <1>3
  <2>3. acked' # acked => \E k \in 1..head' : ContentDigest(log'[k].event) = ContentDigest(e)
    BY <2>1, <2>2, <1>4
  <2> QED
    BY <2>1, <2>3, AckedKept
<1>8. FenceKnown'
  BY <1>1 DEF IInv, FenceKnown, storeVars
<1> QED
  BY <1>3, <1>5, <1>6, <1>7, <1>8 DEF IInv, StoreInv

\* A sequence is the concatenation of a prefix of it and the rest.
LEMMA PrefixAndRest ==
    ASSUME NEW S, NEW s \in Seq(S), NEW t \in Seq(S), NEW u \in Seq(S),
           Len(u) = Len(s) + Len(t),
           \A i \in 1..Len(s) : s[i] = u[i],
           \A i \in 1..Len(t) : t[i] = u[Len(s) + i]
    PROVE  s \o t = u
<1>1. s \o t \in Seq(S) /\ Len(s \o t) = Len(u)
  OBVIOUS
<1>2. ASSUME NEW i \in 1..Len(u) PROVE (s \o t)[i] = u[i]
  <2>1. CASE i <= Len(s)
    <3>1. i \in 1..Len(s) /\ (s \o t)[i] = s[i]
      BY <2>1
    <3> QED
      BY <3>1
  <2>2. CASE i > Len(s)
    <3> DEFINE j == i - Len(s)
    <3>1. j \in 1..Len(t) /\ (s \o t)[i] = t[j]
      BY <2>2
    <3>2. t[j] = u[Len(s) + j]
      BY <3>1
    <3>3. Len(s) + j = i
      OBVIOUS
    <3> QED
      BY <3>1, <3>2, <3>3
  <2> QED
    BY <2>1, <2>2
<1> QED
  BY <1>1, <1>2, SeqEqual

\* Page reads committed sequences only, finds the committed record or
\* nothing, and finds nothing only below the archive floor.
LEMMA PageFacts ==
    ASSUME IInv, NEW limit \in 1..PageLimit
    PROVE  /\ NextCursor(limit).after \in cursor.after..head
           /\ NextCursor(limit) \in [after : 0..MaxSequence, through : 0..MaxSequence]
           /\ NextCursor(limit).through <= head
           /\ NextCursor(limit).through # 0 =>
                  NextCursor(limit).after <= NextCursor(limit).through
           /\ PageRange(limit) = (cursor.after + 1)..NextCursor(limit).after
           /\ \A k \in PageRange(limit) :
                  /\ k \in 1..head
                  /\ RecordSound(k) => PageBody(k) = log[k]
                  /\ RecordSound(k) \/ ArchiveMiss(k)
<1>1. /\ cursor.after \in Nat /\ cursor.through \in Nat /\ head \in 0..MaxSequence
      /\ head \in Nat /\ limit \in Nat /\ MaxSequence \in Nat
      /\ cursor.after <= head /\ cursor.through <= head
      /\ cursor.through # 0 => cursor.after <= cursor.through
  BY BoundsAssumption DEF IInv, TypeOK, CursorAccepted, CursorValid
<1>2. Horizon \in Nat /\ cursor.after <= Horizon /\ Horizon <= head
  BY <1>1 DEF Horizon
<1>3. Lesser(cursor.after + limit, Horizon) \in cursor.after..Horizon
  BY <1>1, <1>2 DEF Lesser
<1>4. /\ NextCursor(limit).after = Lesser(cursor.after + limit, Horizon)
      /\ NextCursor(limit).through \in {0, Horizon}
      /\ NextCursor(limit) \in [after : 0..MaxSequence, through : 0..MaxSequence]
  BY <1>1, <1>2, <1>3 DEF NextCursor
<1>5. \A k \in PageRange(limit) : k \in 1..head
  BY <1>1, <1>2, <1>3 DEF PageRange
<1>6. ASSUME NEW k \in 1..head
      PROVE  /\ PageBody(k) \in {log[k], NoBody}
             /\ PageBody(k) = NoBody => ArchiveMiss(k)
             /\ PageBody(k) # NoBody => RecordSound(k)
  <2>1. k \in Seqs /\ k \in Nat /\ k <= head /\ log[k] \in Record /\ log[k].sequence = k
    BY <1>1 DEF Seqs, IInv, LogShape
  <2>2. events[k] \in {log[k], NoBody} /\ archiveCache[k] \in {log[k], NoBody}
        /\ (archiveFloor < k => events[k] # NoBody)
    BY <2>1 DEF IInv, BytesPreserved
  <2>3. archiveFloor \in Nat
    BY DEF IInv, TypeOK
  <2>4. PageBody(k) \in {log[k], NoBody}
    BY <2>2 DEF PageBody
  <2>5. PageBody(k) = NoBody => ArchiveMiss(k)
    BY <2>1, <2>2, <2>3 DEF PageBody, ArchiveMiss
  <2>6. ASSUME PageBody(k) # NoBody PROVE RecordSound(k)
    <3>1. PageBody(k) = log[k]
      BY <2>4, <2>6
    <3>2. ids[log[k].event.id] = IndexEntry(k)
      BY DEF IInv, IndexMatchesLog
    <3>3. IndexEntry(k) \in Receipt /\ (IndexEntry(k).form = "binding" => IndexEntry(k) = Binding(log[k]))
      BY <2>1, EntryTypes DEF IndexEntry
    <3> QED
      BY <2>1, <2>6, <3>1, <3>2, <3>3, Sentinels DEF RecordSound
  <2> QED
    BY <2>4, <2>5, <2>6
<1>7. \A k \in PageRange(limit) :
         /\ RecordSound(k) => PageBody(k) = log[k]
         /\ RecordSound(k) \/ ArchiveMiss(k)
  BY <1>5, <1>6 DEF RecordSound
<1>8. PageRange(limit) = (cursor.after + 1)..NextCursor(limit).after
  BY <1>4 DEF PageRange
<1> QED
  BY <1>1, <1>2, <1>3, <1>4, <1>5, <1>7, <1>8

\* Page extends the collected prefix or leaves it alone, and never fences.
LEMMA PageStep ==
    ASSUME IInv, NEW limit \in 1..PageLimit, Page(limit)
    PROVE  IInv' /\ failed' = FALSE
<1>1. /\ UNCHANGED <<storeVars, up, recovering, now, historyVars>> /\ failed = FALSE
  BY DEF Page, Healthy, IInv, TypeOK
<1>2. StoreInv'
  BY <1>1, StoreUnchanged DEF IInv, StoreInv, storeVars, historyVars
<1>3. AckedCommitted' /\ FenceKnown'
  BY <1>1 DEF IInv, AckedCommitted, FenceKnown, storeVars, historyVars, ContentDigest
<1>4. CASE \A k \in PageRange(limit) : RecordSound(k)
  <2> DEFINE last == NextCursor(limit).after
  <2>1. /\ cursor' = NextCursor(limit) /\ failed' = FALSE
        /\ collected' = collected \o [i \in 1..(last - cursor.after) |->
                                         PageBody(cursor.after + i)]
    <3>1. last = Lesser(cursor.after + limit, Horizon)
      BY DEF NextCursor
    <3> QED
      BY <1>1, <1>4, <3>1 DEF Page, PageRecords
  <2>2. /\ last \in cursor.after..head /\ cursor.after \in Nat /\ head \in Nat
        /\ cursor' \in [after : 0..MaxSequence, through : 0..MaxSequence]
    BY <2>1, PageFacts DEF IInv, TypeOK
  <2>3. CursorAccepted'
    BY <1>1, <2>1, <2>2, PageFacts DEF CursorAccepted, CursorValid, storeVars
  <2>4. \A i \in 1..(last - cursor.after) :
           PageBody(cursor.after + i) = log[cursor.after + i]
    <3> SUFFICES ASSUME NEW i \in 1..(last - cursor.after)
                 PROVE  PageBody(cursor.after + i) = log[cursor.after + i]
      OBVIOUS
    <3>1. cursor.after + i \in (cursor.after + 1)..last
      BY <2>2
    <3> QED
      BY <3>1, <1>4, PageFacts
  <2>5. \A i \in 1..last : log[i] \in Record
    <3> SUFFICES ASSUME NEW i \in 1..last PROVE log[i] \in Record
      OBVIOUS
    <3>1. head <= MaxSequence
      BY BoundsAssumption DEF IInv, TypeOK
    <3>2. i \in Seqs /\ i <= head
      BY <2>2, <3>1, BoundsAssumption DEF Seqs
    <3> QED
      BY <3>2 DEF IInv, LogShape
  <2> DEFINE t == [i \in 1..(last - cursor.after) |-> PageBody(cursor.after + i)]
             u == [i \in 1..last |-> log[i]]
  <2>6. /\ collected \in Seq(Record) /\ Len(collected) = cursor.after
        /\ t \in Seq(Record) /\ Len(t) = last - cursor.after
        /\ u \in Seq(Record) /\ Len(u) = last
        /\ \A i \in 1..Len(collected) : collected[i] = u[i]
        /\ \A i \in 1..Len(t) : t[i] = u[Len(collected) + i]
    <3>1. last \in Nat /\ cursor.after <= last
      BY <2>2
    <3> HIDE DEF last
    <3>2. collected = [i \in 1..cursor.after |-> log[i]] /\ collected \in Seq(Record)
      BY DEF IInv, CollectedPrefix, TypeOK
    <3>3. u \in Seq(Record) /\ Len(u) = last
      BY <2>5, <3>1
    <3>4. \A i \in 1..(last - cursor.after) : cursor.after + i \in 1..last
      BY <2>2, <3>1
    <3>5. t \in Seq(Record) /\ Len(t) = last - cursor.after
      <4>1. /\ last - cursor.after \in Nat
            /\ \A i \in 1..(last - cursor.after) : PageBody(cursor.after + i) \in Record
        BY <2>2, <2>4, <2>5, <3>1, <3>4
      <4> QED
        BY <4>1
    <3>6. Len(collected) = cursor.after /\ \A i \in 1..cursor.after : collected[i] = u[i]
      BY <2>2, <3>1, <3>2
    <3>7. \A i \in 1..Len(t) : t[i] = u[cursor.after + i]
      BY <2>4, <3>4, <3>5
    <3> QED
      BY <3>2, <3>3, <3>5, <3>6, <3>7
  <2>7. collected' = u
    <3>1. collected' = collected \o t /\ Len(u) = Len(collected) + Len(t)
      BY <2>1, <2>2, <2>6
    <3> HIDE DEF last, t, u
    <3>2. collected \o t = u
      BY <2>6, <3>1, PrefixAndRest, Zenon
    <3> QED
      BY <3>1, <3>2
  <2>8. CollectedPrefix'
    BY <1>1, <2>1, <2>7 DEF CollectedPrefix, historyVars
  <2>9. collected' \in Seq(Record)
    BY <2>6, <2>7
  <2>10. TypeOK'
    BY <1>1, <2>1, <2>2, <2>9 DEF IInv, TypeOK, storeVars, historyVars
  <2> QED
    BY <1>2, <1>3, <2>1, <2>3, <2>8, <2>10 DEF IInv, StoreInv
<1>5. CASE ~ \A k \in PageRange(limit) : RecordSound(k)
  <2>1. /\ failed' = \E k \in PageRange(limit) :
                       /\ ~RecordSound(k)
                       /\ ~ArchiveMiss(k)
                       /\ \A j \in PageRange(limit) : j < k => RecordSound(j)
        /\ UNCHANGED <<cursor, collected>>
    BY <1>5 DEF Page, collectorVars
  <2>2. failed' = FALSE
    BY <2>1, PageFacts
  <2>3. CursorAccepted' /\ CollectedPrefix'
    BY <1>1, <2>1, QuietStep DEF storeVars, historyVars
  <2>4. TypeOK'
    BY <1>1, <2>1, <2>2 DEF IInv, TypeOK, storeVars, historyVars
  <2> QED
    BY <1>2, <1>3, <2>2, <2>3, <2>4 DEF IInv, StoreInv
<1> QED
  BY <1>4, <1>5

\* Migrate turns the raw keys of its range into bindings and moves the frontier.
LEMMA MigrateStep ==
    ASSUME IInv, NEW batch \in 1..MigrateBatch, Migrate(batch)
    PROVE  /\ IInv'
           /\ \A i \in Ids : ids[i] # NoReceipt =>
                 \/ ids'[i] = ids[i]
                 \/ ids[i].form = "raw" /\ ids'[i] = Binding(log[ids[i].seq])
<1> PICK end : end = MigrateEnd
  OBVIOUS
<1> PICK at : at = Lesser(backfilledThrough + batch, MigrateEnd)
  OBVIOUS
<1> PICK range : range = (backfilledThrough + 1)..at
  OBVIOUS
<1> USE BoundsAssumption
<1>1. TypeOK /\ StoreInv /\ version # "2"
  BY DEF IInv, StoreInv, Migrate
<1>2. /\ legacyThrough' = end /\ backfilledThrough' = at
      /\ ids' = [i \in Ids |-> IF \E k \in range : events[k].event.id = i
                               THEN Binding(events[ids[i].seq]) ELSE ids[i]]
      /\ receiptIds' = [k \in Seqs |-> IF k \in range THEN events[k].event.id
                                                      ELSE receiptIds[k]]
      /\ receiptTimes' = [k \in Seqs |-> IF k \in range THEN Legacy ELSE receiptTimes[k]]
      /\ \A k \in range : LegacySound(k)
      /\ at = end => version' = "2" /\ legacyAgeFloor' = now
      /\ at # end => version' = "2-migrating" /\ legacyAgeFloor' = legacyAgeFloor
  BY DEF Migrate, MigrateRange
<1>3. /\ head' = head /\ events' = events /\ archiveFloor' = archiveFloor
      /\ archiveCache' = archiveCache /\ log' = log /\ receivedAt' = receivedAt
      /\ now' = now /\ cursor' = cursor /\ collected' = collected
      /\ acked' = acked /\ recoveryFence' = recoveryFence
      /\ UNCHANGED <<up, failed, recovering, faults>>
  BY DEF Migrate, procVars, collectorVars, historyVars
<1>4. /\ head \in Nat /\ head <= MaxSequence /\ legacyThrough \in Nat
      /\ backfilledThrough \in Nat /\ batch \in Nat
      /\ backfilledThrough <= legacyThrough /\ legacyThrough <= head
      /\ version = "1" => legacyThrough = 0
      /\ archiveFloor = 0 /\ archiveFloor \in Nat
  BY <1>1 DEF TypeOK, StoreInv, Frontier
<1>5. end \in Nat /\ end <= head /\ at \in Nat /\ backfilledThrough <= at /\ at <= end
  BY <1>4 DEF MigrateEnd, Lesser
<1>6. \A k \in range : k \in 1..head /\ k \in Seqs /\ k <= end /\ k <= at
  BY <1>4, <1>5 DEF Seqs
<1>7. \A k \in 1..head : /\ k \in Seqs /\ events[k] = log[k] /\ log[k] \in Record
                         /\ log[k].sequence = k /\ log[k].event.id \in Ids
                         /\ ids[log[k].event.id] = IndexEntry(k)
                         /\ IndexEntry(k) \in Receipt /\ IndexEntry(k).seq = k
  <2> SUFFICES ASSUME NEW k \in 1..head
               PROVE  /\ k \in Seqs /\ events[k] = log[k] /\ log[k] \in Record
                      /\ log[k].sequence = k /\ log[k].event.id \in Ids
                      /\ ids[log[k].event.id] = IndexEntry(k)
                      /\ IndexEntry(k) \in Receipt /\ IndexEntry(k).seq = k
    OBVIOUS
  <2>1. k \in Seqs /\ events[k] = log[k]
    BY <1>1, HotBodies
  <2>2. log[k] \in Record /\ log[k].sequence = k /\ ids[log[k].event.id] = IndexEntry(k)
    BY <1>1, <1>4, <2>1 DEF StoreInv, LogShape, IndexMatchesLog
  <2>3. log[k].event.id \in Ids /\ IndexEntry(k) \in Receipt /\ IndexEntry(k).seq = k
    BY <2>1, <2>2, EntryTypes DEF IndexEntry
  <2> QED
    BY <2>1, <2>2, <2>3
<1>8. \A k \in 1..head : Bound(k)' <=> (Bound(k) \/ k \in range)
  <2>1. version' # "1"
    BY <1>2
  <2> QED
    BY <1>2, <1>4, <1>5, <2>1 DEF Bound, MigrateEnd
<1>9. \A k \in range : ids[log[k].event.id] = RawKey(k) /\ ids[log[k].event.id].seq = k
  BY <1>2, <1>6, <1>7, EntryTypes DEF LegacySound
<1>10. \A k \in 1..head : ids'[log[k].event.id] = IF k \in range THEN Binding(log[k])
                                                               ELSE IndexEntry(k)
  <2> SUFFICES ASSUME NEW k \in 1..head
               PROVE  ids'[log[k].event.id] = IF k \in range THEN Binding(log[k])
                                                              ELSE IndexEntry(k)
    OBVIOUS
  <2>1. CASE k \in range
    BY <2>1, <1>2, <1>7, <1>9
  <2>2. CASE k \notin range
    <3>1. ASSUME NEW j \in range, events[j].event.id = log[k].event.id PROVE FALSE
      <4>1. IndexEntry(j) = IndexEntry(k) /\ IndexEntry(j).seq = j /\ IndexEntry(k).seq = k
        BY <3>1, <1>6, <1>7
      <4> QED
        BY <4>1, <2>2
    <3> QED
      BY <2>2, <3>1, <1>2, <1>7
  <2> QED
    BY <2>1, <2>2
<1>11. \A i \in Ids : \/ ids'[i] = ids[i]
                      \/ /\ ids[i] # NoReceipt
                         /\ ids[i].form = "raw"
                         /\ ids[i].seq \in range
                         /\ log[ids[i].seq].event.id = i
                         /\ ids'[i] = Binding(log[ids[i].seq])
  <2> SUFFICES ASSUME NEW i \in Ids, ids'[i] # ids[i]
               PROVE  /\ ids[i] # NoReceipt
                      /\ ids[i].form = "raw"
                      /\ ids[i].seq \in range
                      /\ log[ids[i].seq].event.id = i
                      /\ ids'[i] = Binding(log[ids[i].seq])
    OBVIOUS
  <2>1. PICK k \in range : events[k].event.id = i
    BY <1>2
  <2>2. log[k].event.id = i /\ ids[i] = RawKey(k) /\ ids[i].seq = k /\ events[k] = log[k]
    BY <2>1, <1>6, <1>7, <1>9
  <2>3. ids[i] # NoReceipt /\ ids[i].form = "raw"
    BY <2>2, <1>6, EntryTypes, Sentinels
  <2>4. ids'[i] = Binding(log[k])
    BY <2>1, <2>2, <1>2
  <2> QED
    BY <2>2, <2>3, <2>4
<1>12. LogShape' /\ BytesPreserved'
  BY <1>1, <1>3 DEF StoreInv, LogShape, BytesPreserved
<1>13. Frontier'
  BY <1>2, <1>3, <1>4, <1>5 DEF Frontier
<1>14. \A k \in 1..head : IndexEntry(k)' = IF k \in range THEN Binding(log[k])
                                                          ELSE IndexEntry(k)
  BY <1>3, <1>8 DEF IndexEntry, Binding, ContentDigest, RawKey
<1>15. IndexMatchesLog'
  <2>1. \A k \in 1..head : ids'[log[k].event.id] = IndexEntry(k)'
    BY <1>10, <1>14
  <2>2. ASSUME NEW i \in Ids, ids'[i] # NoReceipt
        PROVE  ids'[i].seq \in 1..head /\ log[ids'[i].seq].event.id = i
    <3>1. CASE ids'[i] = ids[i]
      BY <2>2, <3>1, <1>1 DEF StoreInv, IndexMatchesLog
    <3>2. CASE ids'[i] # ids[i]
      <4>1. /\ ids[i].seq \in range /\ log[ids[i].seq].event.id = i
            /\ ids'[i] = Binding(log[ids[i].seq])
        BY <3>2, <1>11
      <4>2. ids'[i].seq = ids[i].seq /\ ids[i].seq \in 1..head
        BY <4>1, <1>6, <1>7, EntryTypes
      <4> QED
        BY <4>1, <4>2
    <3> QED
      BY <3>1, <3>2
  <2> QED
    BY <2>1, <2>2, <1>3 DEF IndexMatchesLog
<1>16. ReceiptsMatchLog'
  <2> SUFFICES ASSUME NEW k \in 1..head, Bound(k)'
               PROVE  /\ receiptIds'[k] = log[k].event.id
                      /\ receiptTimes'[k] = IF k <= end THEN Legacy ELSE receivedAt[k]
    BY <1>2, <1>3 DEF ReceiptsMatchLog
  <2>1. CASE k \in range
    BY <2>1, <1>2, <1>6, <1>7
  <2>2. CASE k \notin range
    <3>1. Bound(k) /\ version # "1" /\ end = legacyThrough
      BY <2>2, <1>8 DEF Bound, MigrateEnd
    <3>2. receiptIds'[k] = receiptIds[k] /\ receiptTimes'[k] = receiptTimes[k]
      BY <2>2, <1>2, <1>7
    <3> QED
      BY <3>1, <3>2, <1>1 DEF StoreInv, ReceiptsMatchLog
  <2> QED
    BY <2>1, <2>2
<1>17. Clock'
  <2>1. \A k \in 1..head : receivedAt[k] \in 0..now /\ now \in Nat
    BY <1>1 DEF StoreInv, Clock, TypeOK
  <2>2. version' = "2" => legacyAgeFloor' = now
    BY <1>2
  <2>3. now \in 0..now
    BY <1>1 DEF TypeOK
  <2>4. \A k \in 1..end : k \in 1..head
    BY <1>4, <1>5
  <2> QED
    BY <2>1, <2>2, <2>3, <2>4, <1>2, <1>3 DEF Clock
<1>18. TypeOK'
  <2>1. ids' \in [Ids -> Receipt \cup {NoReceipt}]
    <3> SUFFICES ASSUME NEW i \in Ids PROVE ids'[i] \in Receipt \cup {NoReceipt}
      BY <1>2
    <3> QED
      BY <1>1, <1>6, <1>7, <1>11, EntryTypes DEF TypeOK
  <2>2. receiptIds' \in [Seqs -> Ids \cup {NoId}]
    BY <1>1, <1>2, <1>6, <1>7 DEF TypeOK
  <2>3. receiptTimes' \in [Seqs -> 0..MaxTime \cup {Legacy, NoTime}]
    BY <1>1, <1>2 DEF TypeOK
  <2>4. /\ legacyThrough' \in 0..MaxSequence /\ backfilledThrough' \in 0..MaxSequence
        /\ version' \in {"1", "2-migrating", "2"}
        /\ legacyAgeFloor' \in 0..MaxTime \cup {NoTime}
    BY <1>1, <1>2, <1>4, <1>5 DEF TypeOK
  <2> QED
    BY <1>1, <1>3, <2>1, <2>2, <2>3, <2>4 DEF TypeOK
<1>19. CursorAccepted' /\ CollectedPrefix'
  BY <1>3 DEF IInv, CursorAccepted, CursorValid, CollectedPrefix
<1>20. AckedCommitted' /\ FenceKnown'
  BY <1>3 DEF IInv, AckedCommitted, FenceKnown, ContentDigest
<1>21. IInv'
  BY <1>12, <1>13, <1>15, <1>16, <1>17, <1>18, <1>19, <1>20 DEF IInv
<1> QED
  BY <1>11, <1>21

\* Restarts, recovery admission and the clock leave the records alone.
LEMMA ProcessStep ==
    ASSUME IInv, Stop \/ (\E mode \in BOOLEAN : Open(mode)) \/ AdmitRecovery
                 \/ FinishAdmission
    PROVE  IInv' /\ (failed' => failed) /\ ids' = ids
<1>1. UNCHANGED <<version, head, events, ids, receiptIds, receiptTimes,
                  legacyThrough, backfilledThrough, legacyAgeFloor, archiveFloor,
                  archiveCache, log, receivedAt, now, cursor, collected, acked>>
  BY DEF Stop, Open, AdmitRecovery, FinishAdmission, storeVars, procVars,
         collectorVars, historyVars
<1>2. StoreInv' /\ CursorAccepted' /\ CollectedPrefix'
  BY <1>1, QuietStep
<1>3. AckedCommitted'
  BY <1>1 DEF IInv, AckedCommitted, ContentDigest
<1>4. FenceKnown' /\ (failed' => failed)
  BY DEF IInv, FenceKnown, TypeOK, Stop, Open, AdmitRecovery, FinishAdmission,
         storeVars, procVars
<1>5. /\ up' \in BOOLEAN /\ failed' \in BOOLEAN /\ recovering' \in BOOLEAN
      /\ recoveryFence' \in BOOLEAN
  BY DEF IInv, TypeOK, Stop, Open, AdmitRecovery, FinishAdmission, storeVars, procVars
<1>6. faults' \in 0..MaxFaults
  <2>1. faults \in 0..MaxFaults
    BY DEF IInv, TypeOK
  <2>2. faults' = faults \/ (faults < MaxFaults /\ faults' = faults + 1)
    BY DEF Stop, Open, AdmitRecovery, FinishAdmission, historyVars
  <2> QED
    BY <2>1, <2>2, BoundsAssumption
<1>7. TypeOK'
  BY <1>1, <1>5, <1>6 DEF IInv, TypeOK
<1> QED
  BY <1>1, <1>2, <1>3, <1>4, <1>7 DEF IInv, StoreInv

\* Time passes.
LEMMA TickStep ==
    ASSUME IInv, Tick
    PROVE  IInv'
<1>1. /\ now < MaxTime /\ now' = now + 1
      /\ UNCHANGED <<version, head, events, ids, receiptIds, receiptTimes,
                     legacyThrough, backfilledThrough, legacyAgeFloor, archiveFloor,
                     archiveCache, recoveryFence, up, failed, recovering, cursor,
                     collected, log, receivedAt, acked, faults>>
  BY DEF Tick, storeVars, procVars, collectorVars, historyVars
<1>2. now \in Nat /\ now' \in 0..MaxTime
  BY <1>1, BoundsAssumption DEF IInv, TypeOK
<1>3. Clock'
  BY <1>1, <1>2 DEF IInv, Clock
<1>4. LogShape' /\ BytesPreserved' /\ Frontier'
  BY <1>1 DEF IInv, LogShape, BytesPreserved, Frontier
<1>5. IndexMatchesLog' /\ ReceiptsMatchLog'
  BY <1>1 DEF IInv, IndexMatchesLog, ReceiptsMatchLog, Bound, IndexEntry, Binding,
              ContentDigest, RawKey
<1>6. CursorAccepted' /\ CollectedPrefix' /\ AckedCommitted' /\ FenceKnown'
  BY <1>1 DEF IInv, CursorAccepted, CursorValid, CollectedPrefix, AckedCommitted,
              FenceKnown, ContentDigest
<1>7. TypeOK'
  BY <1>1, <1>2 DEF IInv, TypeOK
<1> QED
  BY <1>3, <1>4, <1>5, <1>6, <1>7 DEF IInv

\* Every step of the inbox keeps the invariant.
LEMMA InboxNextKeepsIInv == IInv /\ InboxNext => IInv'
<1> SUFFICES ASSUME IInv, InboxNext PROVE IInv'
  OBVIOUS
<1>1. ASSUME NEW e \in Events, InsertEvent(e) PROVE IInv'
  BY <1>1, InsertFreshStep, InsertAmbiguousStep, InsertExhaustedStep, InsertKnownStep
     DEF InsertEvent
<1>2. ASSUME NEW limit \in 1..PageLimit, Page(limit) PROVE IInv'
  BY <1>2, PageStep
<1>3. ASSUME NEW batch \in 1..MigrateBatch, Migrate(batch) PROVE IInv'
  BY <1>3, MigrateStep
<1>4. CASE Stop \/ (\E mode \in BOOLEAN : Open(mode)) \/ AdmitRecovery \/ FinishAdmission
  BY <1>4, ProcessStep
<1>5. CASE Tick
  BY <1>5, TickStep
<1> QED
  BY <1>1, <1>2, <1>3, <1>4, <1>5 DEF InboxNext, InboxRun

\* The invariant depends on the state only.
LEMMA InboxStutter == IInv /\ UNCHANGED vars => IInv'
<1> SUFFICES ASSUME IInv, UNCHANGED vars PROVE IInv'
  OBVIOUS
<1>1. StoreInv' /\ CursorAccepted' /\ CollectedPrefix'
  BY QuietStep DEF vars, storeVars, historyVars, collectorVars
<1>2. AckedCommitted' /\ FenceKnown'
  BY DEF IInv, AckedCommitted, FenceKnown, vars, storeVars, historyVars, procVars,
         ContentDigest
<1>3. TypeOK'
  BY DEF IInv, TypeOK, vars, storeVars, historyVars, procVars, collectorVars
<1> QED
  BY <1>1, <1>2, <1>3 DEF IInv, StoreInv

-----------------------------------------------------------------------------
(***************************************************************************)
(* The theorems.                                                           *)
(***************************************************************************)

\* InsertEvent, Page, Migrate, restarts and recovery admission keep the
\* inductive invariant, from a store OpenBillingInbox has just created.
THEOREM Inductive == InboxSpec => []IInv
<1>1. IInv /\ [InboxNext]_vars => IInv'
  BY InboxNextKeepsIInv, InboxStutter
<1> QED
  BY <1>1, InitIInv, PTL DEF InboxSpec

\* Every bucket and field keeps its type.
THEOREM TypeCorrect == InboxSpec => []TypeOK
<1>1. IInv => TypeOK
  BY DEF IInv
<1> QED
  BY <1>1, Inductive, PTL

\* Deduplication: InsertEvent commits an event id under one sequence only.
THEOREM OneSequencePerId == InboxSpec => []ExactlyOnce
<1>1. IInv => ExactlyOnce
  <2> SUFFICES ASSUME IInv, NEW j \in 1..head, NEW k \in 1..head,
                      log[j].event.id = log[k].event.id
               PROVE  j = k
    BY DEF ExactlyOnce
  <2>1. IndexEntry(j) = IndexEntry(k)
    BY DEF IInv, IndexMatchesLog
  <2>2. \A i \in 1..head : i \in Seqs /\ log[i] \in Record /\ log[i].sequence = i
    BY BoundsAssumption DEF IInv, LogShape, TypeOK, Seqs
  <2>3. IndexEntry(j).seq = j /\ IndexEntry(k).seq = k
    BY <2>2, EntryTypes DEF IndexEntry
  <2> QED
    BY <2>1, <2>3
<1> QED
  BY <1>1, Inductive, PTL

\* What InsertEvent acknowledged stays committed and answerable as a duplicate.
THEOREM AcknowledgedIsDurable == InboxSpec => []AckedDurable
<1>1. IInv => AckedDurable
  <2> SUFFICES ASSUME IInv, NEW d \in acked
               PROVE  \E k \in 1..head : /\ ContentDigest(log[k].event) = d
                                          /\ ids[d[1]] # NoReceipt
                                          /\ ids[d[1]].seq = k
    BY DEF AckedDurable
  <2>1. PICK k \in 1..head : ContentDigest(log[k].event) = d
    BY DEF IInv, AckedCommitted
  <2>2. k \in Seqs /\ log[k] \in Record /\ log[k].sequence = k
    BY BoundsAssumption DEF IInv, LogShape, TypeOK, Seqs
  <2>3. d[1] = log[k].event.id /\ ids[d[1]] = IndexEntry(k)
    BY <2>1 DEF ContentDigest, IInv, IndexMatchesLog
  <2>4. IndexEntry(k) \in Receipt /\ IndexEntry(k).seq = k
    BY <2>2, EntryTypes DEF IndexEntry
  <2> QED
    BY <2>1, <2>3, <2>4, Sentinels
<1> QED
  BY <1>1, Inductive, PTL

\* The collector walking Page holds the commit sequence, gap free and once.
THEOREM CollectionIsExact == InboxSpec => [](CollectedPrefix /\ CursorAccepted)
<1>1. IInv => CollectedPrefix /\ CursorAccepted
  BY DEF IInv
<1> QED
  BY <1>1, Inductive, PTL

\* Stored bytes are the committed bytes, and only retirement removes them.
THEOREM BytesArePreserved == InboxSpec => []BytesPreserved
<1>1. IInv => BytesPreserved
  BY DEF IInv
<1> QED
  BY <1>1, Inductive, PTL

\* A migrated store has every receipt, and no receipt overstates its age.
THEOREM MigrationIsComplete == InboxSpec => [](ReceiptsComplete /\ ReceiptAgeSafe)
<1>1. IInv => ReceiptsComplete /\ ReceiptAgeSafe
  <2> SUFFICES ASSUME IInv, version = "2", NEW k \in 1..head
               PROVE  /\ ids[log[k].event.id] = Binding(log[k])
                      /\ receiptIds[k] = log[k].event.id
                      /\ receiptTimes[k] # NoTime
                      /\ ReceiptTime(k) >= receivedAt[k]
    BY DEF ReceiptsComplete, ReceiptAgeSafe
  <2>1. Bound(k)
    BY DEF Bound, IInv, Frontier, TypeOK
  <2>2. /\ receiptIds[k] = log[k].event.id
        /\ receiptTimes[k] = IF k <= legacyThrough THEN Legacy ELSE receivedAt[k]
    BY <2>1 DEF IInv, ReceiptsMatchLog
  <2>3. ids[log[k].event.id] = Binding(log[k])
    BY <2>1 DEF IInv, IndexMatchesLog, IndexEntry
  <2>4. receivedAt[k] \in 0..MaxTime /\ receivedAt[k] \in Nat
    BY BoundsAssumption DEF IInv, Clock, TypeOK
  <2>5. receiptTimes[k] # NoTime
    BY <2>2, <2>4, Sentinels
  <2>6. ReceiptTime(k) >= receivedAt[k]
    <3>1. CASE k <= legacyThrough
      <4>1. receiptTimes[k] = Legacy /\ k \in 1..legacyThrough
        BY <2>2, <3>1 DEF IInv, TypeOK
      <4>2. legacyAgeFloor \in Nat /\ receivedAt[k] <= legacyAgeFloor
        BY <4>1 DEF IInv, Clock
      <4> QED
        BY <4>1, <4>2, <2>4 DEF ReceiptTime
    <3>2. CASE ~(k <= legacyThrough)
      BY <2>2, <2>4, <3>2, Sentinels DEF ReceiptTime
    <3> QED
      BY <3>1, <3>2
  <2> QED
    BY <2>2, <2>3, <2>5, <2>6
<1> QED
  BY <1>1, Inductive, PTL

\* An index entry, once written by InsertEvent, is only ever upgraded in place.
THEOREM ReceiptsArePermanent == InboxSpec => PermanentReceipts
<1> DEFINE Upgrade == \A i \in Ids : ids[i] # NoReceipt =>
                         \/ ids'[i] = ids[i]
                         \/ /\ ids[i].form = "raw"
                            /\ ids'[i] = Binding(log[ids[i].seq])
<1>1. IInv /\ [InboxNext]_vars => [Upgrade]_ids
  <2> SUFFICES ASSUME IInv, InboxNext, ids' # ids PROVE Upgrade
    BY DEF vars, storeVars
  <2>1. ASSUME NEW e \in Events, InsertEvent(e) PROVE Upgrade
    <3>1. CASE StoreRecord(e) /\ ids[e.id] = NoReceipt
      <4>1. \A i \in Ids : i # e.id => ids'[i] = ids[i]
        BY <3>1 DEF StoreRecord, IInv, TypeOK
      <4> QED
        BY <4>1, <3>1
    <3>2. CASE UNCHANGED storeVars
      BY <3>2 DEF storeVars
    <3> QED
      BY <2>1, <3>1, <3>2 DEF InsertEvent, InsertFresh, InsertAmbiguous,
                              InsertExhausted, InsertKnown
  <2>2. ASSUME NEW limit \in 1..PageLimit, Page(limit) PROVE Upgrade
    BY <2>2 DEF Page, storeVars
  <2>3. ASSUME NEW batch \in 1..MigrateBatch, Migrate(batch) PROVE Upgrade
    BY <2>3, MigrateStep
  <2>4. CASE Stop \/ (\E mode \in BOOLEAN : Open(mode)) \/ AdmitRecovery \/ FinishAdmission
    BY <2>4, ProcessStep
  <2>5. CASE Tick
    BY <2>5 DEF Tick, storeVars
  <2> QED
    BY <2>1, <2>2, <2>3, <2>4, <2>5 DEF InboxNext, InboxRun
<1> QED
  BY <1>1, Inductive, PTL DEF InboxSpec, PermanentReceipts

\* InsertEvent and Page fence the inbox on a storage error or when sequence
\* numbers run out, and for no other reason.
LEMMA FaultStep ==
    ASSUME IInv, InboxNext
    PROVE  failed' /\ ~failed => faults' = faults + 1 \/ Exhausted
<1> DEFINE Fault == failed' /\ ~failed => faults' = faults + 1 \/ Exhausted
<1>1. ASSUME NEW e \in Events, InsertEvent(e) PROVE Fault
  <2>1. CASE InsertFresh(e)
    BY <2>1 DEF InsertFresh, procVars
  <2>2. CASE InsertAmbiguous(e)
    BY <2>2 DEF InsertAmbiguous
  <2>3. CASE InsertExhausted(e)
    <3>1. e.id \in Ids
      BY DEF Events
    <3> QED
      BY <2>3, <3>1 DEF InsertExhausted, Exhausted
  <2>4. CASE InsertKnown(e)
    BY <2>4, InsertKnownStep
  <2> QED
    BY <1>1, <2>1, <2>2, <2>3, <2>4 DEF InsertEvent
<1>2. ASSUME NEW limit \in 1..PageLimit, Page(limit) PROVE Fault
  BY <1>2, PageStep
<1>3. ASSUME NEW batch \in 1..MigrateBatch, Migrate(batch) PROVE Fault
  BY <1>3 DEF Migrate, procVars
<1>4. CASE Stop \/ (\E mode \in BOOLEAN : Open(mode)) \/ AdmitRecovery \/ FinishAdmission
  BY <1>4, ProcessStep
<1>5. CASE Tick
  BY <1>5 DEF Tick, procVars
<1> QED
  BY <1>1, <1>2, <1>3, <1>4, <1>5 DEF InboxNext, InboxRun

\* No legal call makes InsertEvent or Page take the store for corrupt.
THEOREM FencesOnlyOnFaults == InboxSpec => NeverFencesItself
<1>1. IInv /\ [InboxNext]_vars =>
         [failed' /\ ~failed => faults' = faults + 1 \/ Exhausted]_vars
  BY FaultStep
<1> QED
  BY <1>1, Inductive, PTL DEF InboxSpec, NeverFencesItself

\* A durable recovery fence freezes the store across restarts.
THEOREM FenceFreezesStore == InboxSpec => FencedFrozen
<1> DEFINE Frozen == recoveryFence /\ recoveryFence' =>
                        UNCHANGED <<version, head, events, ids, receiptIds,
                                    receiptTimes, archiveFloor, acked, collected>>
<1>1. IInv /\ [InboxNext]_vars => [Frozen]_vars
  <2> SUFFICES ASSUME IInv, InboxNext, recoveryFence
               PROVE  UNCHANGED <<version, head, events, ids, receiptIds,
                                  receiptTimes, archiveFloor, acked, collected>>
    OBVIOUS
  <2>1. ~Healthy
    BY DEF IInv, FenceKnown, Healthy
  <2>2. \A e \in Events : ~InsertEvent(e)
    BY <2>1 DEF InsertEvent, InsertFresh, InsertAmbiguous, InsertExhausted, InsertKnown
  <2>3. \A limit \in 1..PageLimit : ~Page(limit)
    BY <2>1 DEF Page
  <2>4. \A batch \in 1..MigrateBatch : ~Migrate(batch)
    BY <2>1 DEF Migrate
  <2>5. CASE Stop \/ (\E mode \in BOOLEAN : Open(mode)) \/ AdmitRecovery
             \/ FinishAdmission \/ Tick
    BY <2>5 DEF Stop, Open, AdmitRecovery, FinishAdmission, Tick, storeVars,
                collectorVars, historyVars
  <2> QED
    BY <2>2, <2>3, <2>4, <2>5 DEF InboxNext, InboxRun
<1> QED
  BY <1>1, Inductive, PTL DEF InboxSpec, FencedFrozen
=============================================================================
