--------------------------- MODULE ForwarderProofs ---------------------------
(***************************************************************************)
(* Proofs of the safety properties of the forwarder, for every number of   *)
(* lines, batch size, spool limit and number of faults.                    *)
(***************************************************************************)
EXTENDS Forwarder, SequenceTheorems, TLAPS

\* The initial state satisfies the invariant.
LEMMA ForwarderInitInv == ForwarderInit => ForwarderInv
BY ForwarderAssumption
   DEF ForwarderInit, ForwarderInv, ForwarderTypeOK, CursorAcknowledged,
       SpoolExpendable, DuplicateIsStored, SeenAnswered, HealthyMeansDrained, SpoolPhase,
       BatchFollows, RequestFollows, InHand, Intervals, SpoolFile, Interval,
       Lines, Answered, Rest, Down

\* Facts about the short sequences of files a spool can be.
LEMMA SpoolFacts ==
    ASSUME spool \in Seq(SpoolFile), Len(spool) <= 1
    PROVE  /\ spool # <<>> => /\ Len(spool) = 1
                              /\ spool[1] \in SpoolFile
                              /\ Head(spool) = spool[1]
                              /\ Tail(spool) = <<>>
           /\ \A i \in 1..(Len(spool) + 1) :
                 SubSeq(spool, i, Len(spool)) \in {spool, <<>>}
           /\ \A f \in SpoolFile : spool = <<>> => /\ Append(spool, f) \in Seq(SpoolFile)
                                                   /\ Len(Append(spool, f)) = 1
                                                   /\ Append(spool, f)[1] = f
<1>0. spool # <<>> => Len(spool) = 1
  <2>1. spool # <<>> => Len(spool) # 0
    BY EmptySeq
  <2>2. Len(spool) \in Nat
    OBVIOUS
  <2> QED  BY <2>1, <2>2
<1>1. spool # <<>> => Len(spool) = 1 /\ spool[1] \in SpoolFile
  BY <1>0
<1>2. spool # <<>> => Head(spool) = spool[1] /\ Tail(spool) = <<>>
  BY <1>1
<1>3. \A i \in 1..(Len(spool) + 1) : SubSeq(spool, i, Len(spool)) \in {spool, <<>>}
  <2> SUFFICES ASSUME NEW i \in 1..(Len(spool) + 1)
               PROVE  SubSeq(spool, i, Len(spool)) \in {spool, <<>>}
    OBVIOUS
  <2>1. CASE spool = <<>>
    BY <2>1
  <2>2. CASE spool # <<>> /\ i = 1
    BY <1>1, <2>2
  <2>3. CASE spool # <<>> /\ i = 2
    BY <1>1, <2>3
  <2> QED  BY <1>1, <2>1, <2>2, <2>3
<1>4. \A f \in SpoolFile : spool = <<>> => /\ Append(spool, f) \in Seq(SpoolFile)
                                           /\ Len(Append(spool, f)) = 1
                                           /\ Append(spool, f)[1] = f
  OBVIOUS
<1> QED  BY <1>1, <1>2, <1>3, <1>4

\* One event of one request: what it answers and what is left of the request.
LEMMA IngestEffect ==
    ASSUME ForwarderTypeOK, DuplicateIsStored, SeenAnswered,
           NEW r \in awaited \cup orphans,
           InsertDuplicate(r) \/ InsertAccepted(r) \/ InsertUnsent(r) \/ InsertRefused(r)
    PROVE  LET next == [first |-> r.first + 1, last |-> r.last] IN
           /\ r.first \in Lines
           /\ next \in Intervals
           /\ UNCHANGED <<journal, since, cursor, spool, pc, batch, status>>
           /\ \/ r \in awaited /\ awaited' = (awaited \ {r}) \cup {next} /\ UNCHANGED orphans
              \/ orphans' = (orphans \ {r}) \cup {next} /\ UNCHANGED awaited
           /\ seen' \subseteq Lines /\ stored' \subseteq Lines /\ refused' \subseteq Lines
           /\ faults' \in 0..MaxFaults
           /\ pushable' \in BOOLEAN
           /\ DuplicateIsStored' /\ SeenAnswered'
           /\ Answered \cup {r.first} \subseteq Answered'
<1> USE ForwarderAssumption
<1>1. Handled(r)
  BY DEF InsertDuplicate, InsertAccepted, InsertUnsent, InsertRefused
<1>2. /\ r \in [first : 1..(MaxLines + 1), last : 0..MaxLines]
      /\ r.first <= r.last
  BY <1>1 DEF ForwarderTypeOK, Intervals, Handled
<1>3. /\ r.first \in Lines
      /\ [r EXCEPT !.first = @ + 1] = [first |-> r.first + 1, last |-> r.last]
  BY <1>2 DEF Lines
<1>4. [first |-> r.first + 1, last |-> r.last] \in Intervals
  BY <1>2 DEF Intervals
<1>5. UNCHANGED <<journal, since, cursor, spool, pc, batch, status>>
  BY <1>1 DEF Handled, sourceVars, fileVars
<1>6. LET next == [first |-> r.first + 1, last |-> r.last] IN
      \/ r \in awaited /\ awaited' = (awaited \ {r}) \cup {next} /\ UNCHANGED orphans
      \/ orphans' = (orphans \ {r}) \cup {next} /\ UNCHANGED awaited
  BY <1>1, <1>3 DEF Handled, Advance
<1>7. /\ seen' \subseteq Lines /\ stored' \subseteq Lines /\ refused' \subseteq Lines
      /\ pushable' \in BOOLEAN
      /\ DuplicateIsStored' /\ SeenAnswered'
      /\ Answered \cup {r.first} \subseteq Answered'
  BY <1>3 DEF InsertDuplicate, InsertAccepted, InsertUnsent, InsertRefused, ForwarderTypeOK,
              DuplicateIsStored, SeenAnswered, Answered
<1>8. faults' \in 0..MaxFaults
  BY DEF InsertDuplicate, InsertAccepted, InsertUnsent, InsertRefused, Fault, ForwarderTypeOK
<1> QED
  BY <1>3, <1>4, <1>5, <1>6, <1>7, <1>8

\* A step of the ingest handler preserves the invariant.
LEMMA IngestStep == ForwarderInv /\ Ingest => ForwarderInv'
<1> SUFFICES ASSUME ForwarderInv, Ingest PROVE ForwarderInv'
  OBVIOUS
<1> PICK r \in awaited \cup orphans :
        InsertDuplicate(r) \/ InsertAccepted(r) \/ InsertUnsent(r) \/ InsertRefused(r)
  BY DEF Ingest
<1> DEFINE next == [first |-> r.first + 1, last |-> r.last]
<1>1. /\ r.first \in Lines
      /\ next \in Intervals
      /\ UNCHANGED <<journal, since, cursor, spool, pc, batch, status>>
      /\ \/ r \in awaited /\ awaited' = (awaited \ {r}) \cup {next} /\ UNCHANGED orphans
         \/ orphans' = (orphans \ {r}) \cup {next} /\ UNCHANGED awaited
      /\ seen' \subseteq Lines /\ stored' \subseteq Lines /\ refused' \subseteq Lines
      /\ faults' \in 0..MaxFaults
      /\ pushable' \in BOOLEAN
      /\ DuplicateIsStored' /\ SeenAnswered'
      /\ Answered \cup {r.first} \subseteq Answered'
  BY IngestEffect DEF ForwarderInv
<1>2. next.first = r.first + 1 /\ next.last = r.last
  OBVIOUS
<1> HIDE DEF next
<1>3. ForwarderTypeOK'
  BY <1>1 DEF ForwarderInv, ForwarderTypeOK
<1>4. CursorAcknowledged' /\ SpoolExpendable' /\ DuplicateIsStored' /\ SeenAnswered'
  BY <1>1 DEF ForwarderInv, CursorAcknowledged, SpoolExpendable
<1>5. HealthyMeansDrained' /\ SpoolPhase' /\ BatchFollows'
  BY <1>1 DEF ForwarderInv, HealthyMeansDrained, SpoolPhase, BatchFollows
<1>6. RequestFollows'
  <2>1. pc \in {"save", "saving"} => (batch.first)..(batch.last) \subseteq Answered'
    BY <1>1 DEF ForwarderInv, RequestFollows
  <2>2. ASSUME pc = "sending"
        PROVE  /\ awaited' # {}
               /\ \A q \in awaited' :
                     /\ q.last = batch.last
                     /\ batch.first <= q.first
                     /\ (batch.first)..(q.first - 1) \subseteq Answered'
    <3>1. batch.first \in Int
      BY DEF ForwarderInv, ForwarderTypeOK, Intervals
    <3>2. \A q \in awaited : /\ q.last = batch.last
                             /\ batch.first <= q.first
                             /\ (batch.first)..(q.first - 1) \subseteq Answered
      BY <2>2 DEF ForwarderInv, RequestFollows
    <3>3. CASE r \in awaited /\ awaited' = (awaited \ {r}) \cup {next}
      <4>1. /\ next.last = batch.last
            /\ batch.first <= next.first
            /\ (batch.first)..(next.first - 1) \subseteq Answered'
        BY <1>1, <1>2, <3>1, <3>2, <3>3 DEF Lines
      <4> QED  BY <1>1, <3>2, <3>3, <4>1
    <3>4. CASE UNCHANGED awaited
      BY <1>1, <2>2, <3>2, <3>4 DEF ForwarderInv, RequestFollows
    <3> QED  BY <1>1, <3>3, <3>4
  <2> QED
    BY <1>1, <2>1, <2>2 DEF RequestFollows
<1> QED
  BY <1>3, <1>4, <1>5, <1>6 DEF ForwarderInv

\* The invariant is preserved by every step when the source is journald.
LEMMA ForwarderStep == ~Docker /\ ForwarderInv /\ ForwarderNext => ForwarderInv'
<1> SUFFICES ASSUME ~Docker, ForwarderInv, ForwarderNext PROVE ForwarderInv'
  OBVIOUS
<1> USE ForwarderAssumption
    DEF ForwarderInv, ForwarderTypeOK, CursorAcknowledged, SpoolExpendable,
        DuplicateIsStored, SeenAnswered, HealthyMeansDrained, SpoolPhase, BatchFollows,
        RequestFollows, InHand, Intervals, Lines, Answered, Rest, Down,
        sourceVars, fileVars, backendVars, Degrade, Fault
<1>0. /\ spool # <<>> => /\ Len(spool) = 1
                         /\ spool[1] \in SpoolFile
                         /\ Head(spool) = spool[1]
                         /\ Tail(spool) = <<>>
      /\ \A i \in 1..(Len(spool) + 1) : SubSeq(spool, i, Len(spool)) \in {spool, <<>>}
      /\ \A f \in SpoolFile : spool = <<>> => /\ Append(spool, f) \in Seq(SpoolFile)
                                              /\ Len(Append(spool, f)) = 1
                                              /\ Append(spool, f)[1] = f
  BY SpoolFacts
<1>b. pc = "enqueue" => \A torn \in BOOLEAN : [batch |-> batch, torn |-> torn] \in SpoolFile
  BY DEF SpoolFile, Interval
<1>1. CASE RunOnce
  BY <1>0, <1>1 DEF RunOnce
<1>2. CASE Quarantine
  BY <1>0, <1>2 DEF Quarantine
<1>3. CASE FlushSend
  <2>1. Head(spool).batch \in Intervals
    BY <1>0, <1>3 DEF FlushSend, SpoolFile, Interval
  <2> QED
    BY <1>0, <1>3, <2>1 DEF FlushSend
<1>4. CASE FlushRemove
  BY <1>0, <1>4 DEF FlushRemove
<1>5. CASE FlushError
  BY <1>0, <1>5 DEF FlushError
<1>6. CASE Read
  <2>1. /\ pc = "flush" /\ spool = <<>>
        /\ UNCHANGED <<journal, since, cursor, spool, orphans, seen, pushable, stored,
                       refused, faults>>
    BY <1>6 DEF Read
  <2>2. Readable = JournalRead
    BY DEF Readable
  <2>3. CASE pc' = "rest" /\ status' \in {"ok", "degraded"} /\ UNCHANGED <<batch, awaited>>
    BY <2>1, <2>3
  <2>4. CASE /\ pc' = "sending" /\ UNCHANGED status
             /\ batch' = JournalRead /\ awaited' = {JournalRead}
             /\ JournalRead.first <= JournalRead.last
    <3> DEFINE b == JournalRead
    <3>1. /\ b = [first |-> b.first, last |-> b.last]
          /\ b.first = IF cursor # 0 THEN cursor + 1 ELSE since + 1
          /\ b.last \in Int /\ b.last <= journal
      BY DEF JournalRead, Least
    <3>2. b.first <= b.last
      BY <2>4
    <3> HIDE DEF b
    <3>3. /\ b.first \in 1..(MaxLines + 1)
          /\ b.last \in 0..MaxLines
          /\ cursor < b.first
      <4>1. /\ cursor \in Int /\ 0 <= cursor /\ cursor <= journal
            /\ since \in Int /\ 0 <= since /\ since <= journal
            /\ journal \in Int /\ journal <= MaxLines /\ MaxLines \in Int
        OBVIOUS
      <4> HIDE DEF ForwarderInv
      <4>2. b.first \in Int /\ 1 <= b.first /\ b.first <= journal + 1 /\ cursor < b.first
        BY <3>1, <4>1
      <4> QED
        BY <3>1, <3>2, <4>1, <4>2
    <3>a. (since + 1)..(b.first - 1) \subseteq Answered
      <4>1. CASE cursor # 0
        <5>1. b.first - 1 = cursor
          BY <3>1, <4>1
        <5> QED
          BY <5>1
      <4>2. CASE cursor = 0
        <5>1. b.first - 1 = since
          BY <3>1, <4>2
        <5>2. (since + 1)..since = {}
          OBVIOUS
        <5> QED
          BY <5>1, <5>2
      <4> QED
        BY <4>1, <4>2
    <3>4. b \in Intervals
      BY <3>1, <3>3
    <3>5. batch' = b /\ awaited' = {b} /\ pc' = "sending" /\ status' = status
      BY <2>4 DEF b
    <3>6. ForwarderTypeOK' /\ SpoolPhase' /\ HealthyMeansDrained'
      BY <2>1, <3>4, <3>5
    <3>7. CursorAcknowledged' /\ SpoolExpendable' /\ DuplicateIsStored' /\ SeenAnswered'
      BY <2>1
    <3>8. BatchFollows'
      BY <2>1, <3>1, <3>2, <3>3, <3>a, <3>5
    <3>9. RequestFollows'
      BY <2>1, <3>3, <3>5
    <3> QED
      BY <3>6, <3>7, <3>8, <3>9
  <2>5. \/ pc' = "rest" /\ status' \in {"ok", "degraded"} /\ UNCHANGED <<batch, awaited>>
        \/ /\ pc' = "sending" /\ UNCHANGED status
           /\ batch' = JournalRead /\ awaited' = {JournalRead}
           /\ ~(JournalRead.first > JournalRead.last)
    <3> HIDE DEF ForwarderInv
    <3> QED
      BY <1>6, <2>2 DEF Read
  <2>6. JournalRead.first \in Int /\ JournalRead.last \in Int
    BY DEF JournalRead, Least
  <2>7. ~(JournalRead.first > JournalRead.last) => JournalRead.first <= JournalRead.last
    BY <2>6
  <2> QED
    BY <2>3, <2>4, <2>5, <2>7
<1>7. CASE ReadError
  BY <1>0, <1>7 DEF ReadError
<1>8. CASE SendOK
  BY <1>0, <1>8 DEF SendOK
<1>9. CASE SendError
  BY <1>0, <1>9 DEF SendError
<1>10. CASE EnqueueWrite
  <2>1. [batch |-> batch, torn |-> FALSE] \in SpoolFile
    BY <1>b, <1>10 DEF EnqueueWrite
  <2>2. /\ spool' \in Seq(SpoolFile)
        /\ Len(spool') = 1
        /\ spool'[1].batch = batch
    BY <1>0, <1>10, <2>1 DEF EnqueueWrite, SpoolBatch
  <2>a. batch.first > cursor'
    BY <1>10 DEF EnqueueWrite
  <2>3. SpoolExpendable'
    BY <2>2, <2>a
  <2> QED
    BY <1>10, <2>2, <2>3 DEF EnqueueWrite
<1>11. CASE EnqueueError
  <2>e. /\ pc = "enqueue" /\ pc' = "rest" /\ status' = "degraded"
        /\ faults' \in 0..MaxFaults
        /\ UNCHANGED <<journal, since, cursor, batch, awaited, orphans, seen,
                       pushable, stored, refused>>
    BY <1>11 DEF EnqueueError
  <2>1. CASE UNCHANGED spool
    BY <2>e, <2>1
  <2>2. CASE spool' = SpoolBatch(TRUE)
    <3>1. [batch |-> batch, torn |-> TRUE] \in SpoolFile /\ spool = <<>>
      BY <1>b, <2>e
    <3>2. /\ spool' \in Seq(SpoolFile)
          /\ Len(spool') = 1
          /\ spool'[1].batch = batch
      BY <1>0, <2>2, <3>1 DEF SpoolBatch
    <3>3. batch.first > cursor'
      BY <2>e
    <3>4. SpoolExpendable'
      BY <3>2, <3>3
    <3> QED
      BY <2>e, <3>2, <3>4
  <2> QED
    BY <1>11, <2>1, <2>2 DEF EnqueueError
<1>12. CASE EnqueueLimit
  <2>1. spool' \in {spool, <<>>}
    BY <1>0, <1>12 DEF EnqueueLimit
  <2>2. /\ pc = "limit" /\ pc' = "rest" /\ status' = "degraded"
        /\ UNCHANGED <<journal, since, cursor, batch, awaited, orphans, seen,
                       pushable, stored, refused, faults>>
    BY <1>12 DEF EnqueueLimit
  <2>3. CASE UNCHANGED spool
    BY <2>2, <2>3
  <2>4. CASE spool' = <<>>
    <3>1. spool' \in Seq(SpoolFile) /\ Len(spool') = 0
      BY <2>4
    <3> QED
      BY <2>2, <2>4, <3>1
  <2> QED
    BY <2>1, <2>3, <2>4
<1>13. CASE SaveTruncate
  BY <1>0, <1>13 DEF SaveTruncate
<1>14. CASE SaveWrite
  BY <1>0, <1>14 DEF SaveWrite
<1>15. CASE SaveError
  BY <1>0, <1>15 DEF SaveError
<1>16. CASE BackendRestart
  <2>1. CASE pc = "flushing"
    BY <1>0, <1>16, <2>1 DEF BackendRestart
  <2>2. CASE pc = "sending"
    BY <1>0, <1>16, <2>2 DEF BackendRestart
  <2>3. CASE pc # "flushing" /\ pc # "sending"
    BY <1>0, <1>16, <2>3 DEF BackendRestart
  <2> QED
    BY <2>1, <2>2, <2>3
<1>17. CASE Crash
  <2>1. CASE UNCHANGED spool
    BY <1>0, <1>17, <2>1 DEF Crash
  <2>2. CASE pc = "enqueue" /\ spool' = SpoolBatch(TRUE)
    <3>1. [batch |-> batch, torn |-> TRUE] \in SpoolFile /\ spool = <<>>
      BY <1>b, <2>2
    <3>2. /\ spool' \in Seq(SpoolFile)
          /\ Len(spool') = 1
          /\ spool'[1].batch = batch
      BY <1>0, <2>2, <3>1 DEF SpoolBatch
    <3>3. /\ pc' = "down" /\ awaited' = {} /\ orphans' = orphans \cup awaited
          /\ faults' \in 0..MaxFaults
          /\ UNCHANGED <<journal, since, cursor, batch, status, seen, pushable, stored,
                      refused>>
      BY <1>17 DEF Crash
    <3>4. batch.first > cursor'
      BY <2>2, <3>3
    <3>5. SpoolExpendable'
      BY <3>2, <3>4
    <3> QED
      BY <3>2, <3>3, <3>5
  <2> QED
    BY <1>17, <2>1, <2>2 DEF Crash
<1>18. CASE Start
  BY <1>0, <1>18 DEF Start
<1>19. CASE Log
  BY <1>0, <1>19 DEF Log
<1>20. CASE Age
  BY <1>0, <1>20 DEF Age
<1>21. CASE Ingest
  BY <1>21, IngestStep
<1> QED
  BY <1>1, <1>2, <1>3, <1>4, <1>5, <1>6, <1>7, <1>8, <1>9, <1>10, <1>11, <1>12, <1>13, <1>14, <1>15, <1>16, <1>17, <1>18, <1>19, <1>20, <1>21
     DEF ForwarderNext, Cycle, Failure

\* The invariant holds in every reachable state of a journald forwarder.
THEOREM ForwarderInductive == ~Docker => (ForwarderSpec => []ForwarderInv)
<1> SUFFICES ASSUME ~Docker PROVE ForwarderSpec => []ForwarderInv
  OBVIOUS
<1>1. ForwarderInv /\ [ForwarderNext]_fwdVars => ForwarderInv'
  <2> SUFFICES ASSUME ForwarderInv, UNCHANGED fwdVars PROVE ForwarderInv'
    BY ForwarderStep
  <2> QED
    BY DEF ForwarderInv, ForwarderTypeOK, CursorAcknowledged, SpoolExpendable,
           DuplicateIsStored, SeenAnswered, HealthyMeansDrained, SpoolPhase, BatchFollows,
           RequestFollows, Answered, fwdVars, sourceVars, fileVars, backendVars
<1> QED
  BY <1>1, ForwarderInitInv, PTL DEF ForwarderSpec

\* The cursor never passes a line of the window without an answer, for every
\* interleaving of failed sends, torn files and restarts (RunOnce, Send, Save).
THEOREM CursorIsAcknowledged == ~Docker => (ForwarderSpec => []CursorAcknowledged)
<1>1. ForwarderInv => CursorAcknowledged
  BY DEF ForwarderInv
<1> QED
  BY <1>1, ForwarderInductive, PTL

\* Losing any spool file loses nothing (Enqueue, enforceLimit, Flush).
THEOREM SpoolIsExpendable == ~Docker => (ForwarderSpec => []SpoolExpendable)
<1>1. ForwarderInv => SpoolExpendable
  BY DEF ForwarderInv
<1> QED
  BY <1>1, ForwarderInductive, PTL

\* A backend that can make a push request at all answers duplicate only for an
\* event it has stored, whatever requests outlive their client and race its
\* retry (InsertEvent).
THEOREM DuplicatesAreStored == ~Docker => (ForwarderSpec => []DuplicateIsStored)
<1>1. ForwarderInv => DuplicateIsStored
  BY DEF ForwarderInv
<1> QED
  BY <1>1, ForwarderInductive, PTL
=============================================================================
