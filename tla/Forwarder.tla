------------------------------ MODULE Forwarder ------------------------------
(***************************************************************************)
(* The log forwarder of one VM (RunOnce, the cursor file and the disk      *)
(* spool), the ingest handler it posts to and the Loki store behind it.    *)
(*                                                                         *)
(* Line n of the source stands for its record: its cursor is n and the     *)
(* event id derived from it is n, so that re-reading a line gives the same *)
(* event.  A batch is an interval of lines.  Every file operation, and     *)
(* every event the backend handles, is a step of its own.                  *)
(***************************************************************************)
EXTENDS Integers, Sequences, SequencesExt

CONSTANTS
    MaxLines,   \* bound on the lines of the source
    BatchSize,  \* ForwarderConfig.BatchSize
    SpoolLimit, \* FileSpool.MaxBytes, counted in events; 0: no limit
    MaxSince,   \* bound on how far the initial-since window slides
    MaxFaults,  \* bound on failures of network, disk and processes
    Docker,     \* TRUE: DockerLogsSource, FALSE: JournalctlSource
    Poison      \* lines the source cannot turn into a record

Lines == 1..MaxLines

ASSUME ForwarderAssumption ==
    /\ MaxLines \in Nat
    /\ BatchSize \in Nat \ {0}
    /\ SpoolLimit \in Nat
    /\ MaxSince \in Nat
    /\ MaxFaults \in Nat
    /\ Docker \in BOOLEAN
    /\ Poison \subseteq Lines

VARIABLES
    journal,  \* the lines written so far are 1..journal
    since,    \* the lines up to here are older than the initial-since window
    cursor,   \* the cursor file; 0: empty or missing
    spool,    \* the spool files, oldest first
    pc,       \* where the forwarder is
    batch,    \* the batch in its hands
    status,   \* "new", "ok" or "degraded": ForwarderStatus
    awaited,  \* the ingest requests whose answer the forwarder awaits
    orphans,  \* requests still handled after their client has gone
    pushable, \* the backend was started with a Loki URL that makes a request
    seen,     \* LokiEventStore.seen
    stored,   \* lines that Loki holds
    refused,  \* lines that were answered "rejected" at some time
    faults

fileVars == <<cursor, spool>>
backendVars == <<pushable, seen, stored, refused>>
sourceVars == <<journal, since>>
fwdVars == <<sourceVars, fileVars, pc, batch, status, awaited, orphans,
             backendVars, faults>>

\* A batch or, in a request, what is left of it.
Interval == [first : Lines, last : Lines]
Size(b) == b.last - b.first + 1

\* A spool file; a torn one does not parse.
SpoolFile == [batch : Interval, torn : BOOLEAN]
SpoolSize(files) == FoldSeq(LAMBDA f, n : Size(f.batch) + n, 0, files)

Down == "down"
Rest == "rest"

ForwarderInit ==
    /\ journal = 0
    /\ since = 0
    /\ cursor = 0
    /\ spool = <<>>
    /\ pc = Rest
    /\ batch = [first |-> 1, last |-> 0]
    /\ status = "new"
    /\ awaited = {}
    /\ orphans = {}
    /\ pushable \in BOOLEAN
    /\ seen = {}
    /\ stored = {}
    /\ refused = {}
    /\ faults = 0

Fault == faults < MaxFaults /\ faults' = faults + 1

-----------------------------------------------------------------------------
(***************************************************************************)
(* FileSpool.Flush, the first part of RunOnce: oldest file first.          *)
(***************************************************************************)

\* setError and return.
Degrade == pc' = Rest /\ status' = "degraded"

\* The loop timer fires.
RunOnce ==
    /\ pc = Rest
    /\ pc' = "flush"
    /\ UNCHANGED <<sourceVars, fileVars, batch, status, awaited, orphans,
                   backendVars, faults>>

\* A file that does not parse is moved to bad/, the others go on.
Quarantine ==
    /\ pc = "flush"
    /\ spool # <<>>
    /\ Head(spool).torn
    /\ spool' = Tail(spool)
    /\ UNCHANGED <<sourceVars, cursor, pc, batch, status, awaited, orphans,
                   backendVars, faults>>

FlushSend ==
    /\ pc = "flush"
    /\ spool # <<>>
    /\ ~Head(spool).torn
    /\ pc' = "flushing"
    /\ awaited' = {Head(spool).batch}
    /\ UNCHANGED <<sourceVars, fileVars, batch, status, orphans,
                   backendVars, faults>>

FlushRemove ==
    /\ pc = "remove"
    /\ pc' = "flush"
    /\ spool' = Tail(spool)
    /\ UNCHANGED <<sourceVars, cursor, batch, status, awaited, orphans,
                   backendVars, faults>>

\* Reading, moving or removing a file fails.
FlushError ==
    /\ pc \in {"flush", "remove"}
    /\ spool # <<>>
    /\ Fault
    /\ Degrade
    /\ UNCHANGED <<sourceVars, fileVars, batch, awaited, orphans, backendVars>>

-----------------------------------------------------------------------------
(***************************************************************************)
(* Reading a batch from the source.                                        *)
(***************************************************************************)

Least(a, b) == IF a <= b THEN a ELSE b
Greatest(a, b) == IF a <= b THEN b ELSE a

\* Mutant: the line of the cursor itself is taken for the first of the rest,
\* and the one after it is skipped.
JournalReadSkips ==
    LET first == IF cursor # 0 THEN cursor + 2 ELSE since + 1 IN
    [first |-> first, last |-> Least(first + BatchSize - 1, journal)]

\* journalctl -n limit with --after-cursor or, without a cursor, --since.  Taken
\* for both: it hands out the oldest of these lines, not the newest.
JournalRead ==
    LET first == IF cursor # 0 THEN cursor + 1 ELSE since + 1 IN
    [first |-> first, last |-> Least(first + BatchSize - 1, journal)]

\* docker logs --tail limit --since: the newest lines, the line of the
\* cursor included.
DockerRead ==
    LET oldest == IF cursor # 0 THEN cursor ELSE since + 1 IN
    [first |-> Greatest(oldest, journal - BatchSize + 1), last |-> journal]

Readable == IF Docker THEN DockerRead ELSE JournalRead

\* ParseJournalRecords: one line that does not parse fails the whole read.
Unparsable(b) == (b.first)..(b.last) \cap Poison # {}

\* Mutant: what is left of the backlog does not keep RunOnce from reading.
ReadPastBacklog ==
    /\ pc = "flush"
    /\ IF Unparsable(Readable)
       THEN Degrade /\ UNCHANGED <<batch, awaited>>
       ELSE IF Readable.first > Readable.last
       THEN pc' = Rest /\ status' = "ok" /\ UNCHANGED <<batch, awaited>>
       ELSE /\ pc' = "sending"
            /\ batch' = Readable
            /\ awaited' = {Readable}
            /\ UNCHANGED status
    /\ UNCHANGED <<sourceVars, fileVars, orphans, backendVars, faults>>

\* The records of the batch, none, or an error.
Read ==
    /\ pc = "flush"
    /\ spool = <<>>
    /\ IF Unparsable(Readable)
       THEN Degrade /\ UNCHANGED <<batch, awaited>>
       ELSE IF Readable.first > Readable.last
       THEN pc' = Rest /\ status' = "ok" /\ UNCHANGED <<batch, awaited>>
       ELSE /\ pc' = "sending"
            /\ batch' = Readable
            /\ awaited' = {Readable}
            /\ UNCHANGED status
    /\ UNCHANGED <<sourceVars, fileVars, orphans, backendVars, faults>>

ReadError ==
    /\ pc = "flush"
    /\ spool = <<>>
    /\ Fault
    /\ Degrade
    /\ UNCHANGED <<sourceVars, fileVars, batch, awaited, orphans, backendVars>>

-----------------------------------------------------------------------------
(***************************************************************************)
(* HTTPSink.Send: the answer, or an error.                                 *)
(***************************************************************************)

\* Every event was handled: 202, whatever the result of each event.
SendOK ==
    /\ pc \in {"flushing", "sending"}
    /\ \A r \in awaited : r.first > r.last
    /\ pc' = IF pc = "flushing" THEN "remove" ELSE "save"
    /\ awaited' = {}
    /\ UNCHANGED <<sourceVars, fileVars, batch, status, orphans,
                   backendVars, faults>>

\* Mutant: a batch that failed goes on as if the spool had accepted it for
\* the backend.
SendErrorSaves ==
    /\ pc \in {"flushing", "sending"}
    /\ Fault
    /\ IF pc = "flushing" THEN Degrade ELSE pc' = "save" /\ UNCHANGED status
    /\ awaited' = {}
    /\ orphans' \in {orphans, orphans \cup awaited}
    /\ UNCHANGED <<sourceVars, fileVars, batch, backendVars>>

\* Refused, not 2xx, or the connection breaks while the backend goes on with
\* the request.
SendError ==
    /\ pc \in {"flushing", "sending"}
    /\ Fault
    /\ IF pc = "flushing" THEN Degrade ELSE pc' = "enqueue" /\ UNCHANGED status
    /\ awaited' = {}
    /\ orphans' \in {orphans, orphans \cup awaited}
    /\ UNCHANGED <<sourceVars, fileVars, batch, backendVars>>

-----------------------------------------------------------------------------
(***************************************************************************)
(* FileSpool.Enqueue, after a send that failed.                            *)
(***************************************************************************)

SpoolBatch(torn) == Append(spool, [batch |-> batch, torn |-> torn])

EnqueueWrite ==
    /\ pc = "enqueue"
    /\ spool' = SpoolBatch(FALSE)
    /\ pc' = "limit"
    /\ UNCHANGED <<sourceVars, cursor, batch, status, awaited, orphans,
                   backendVars, faults>>

\* The write fails, which RunOnce ignores: no file, or part of one.
EnqueueError ==
    /\ pc = "enqueue"
    /\ Fault
    /\ spool' \in {spool, SpoolBatch(TRUE)}
    /\ Degrade
    /\ UNCHANGED <<sourceVars, cursor, batch, awaited, orphans, backendVars>>

Fits(files) == SpoolLimit = 0 \/ SpoolSize(files) <= SpoolLimit

\* enforceLimit drops the oldest files until the rest fits.
EnqueueLimit ==
    /\ pc = "limit"
    /\ \E i \in 1..(Len(spool) + 1) :
          /\ spool' = SubSeq(spool, i, Len(spool))
          /\ Fits(spool')
          /\ \A j \in 1..(i - 1) : ~Fits(SubSeq(spool, j, Len(spool)))
    /\ Degrade
    /\ UNCHANGED <<sourceVars, cursor, batch, awaited, orphans, backendVars, faults>>

-----------------------------------------------------------------------------
(***************************************************************************)
(* FileCursorStore.Save: os.WriteFile truncates, then writes.              *)
(***************************************************************************)

SaveTruncate ==
    /\ pc = "save"
    /\ cursor' = 0
    /\ pc' = "saving"
    /\ UNCHANGED <<sourceVars, spool, batch, status, awaited, orphans,
                   backendVars, faults>>

SaveWrite ==
    /\ pc = "saving"
    /\ cursor' = batch.last
    /\ pc' = Rest
    /\ status' = "ok"
    /\ UNCHANGED <<sourceVars, spool, batch, awaited, orphans, backendVars, faults>>

\* The file cannot be opened, or cannot be written once it is truncated.
SaveError ==
    /\ pc \in {"save", "saving"}
    /\ Fault
    /\ Degrade
    /\ UNCHANGED <<sourceVars, fileVars, batch, awaited, orphans, backendVars>>

-----------------------------------------------------------------------------
(***************************************************************************)
(* The ingest handler: one event of one request per step.                  *)
(***************************************************************************)

Advance(r) ==
    IF r \in awaited
    THEN /\ awaited' = (awaited \ {r}) \cup {[r EXCEPT !.first = @ + 1]}
         /\ UNCHANGED orphans
    ELSE /\ orphans' = (orphans \ {r}) \cup {[r EXCEPT !.first = @ + 1]}
         /\ UNCHANGED awaited

Handled(r) ==
    /\ r.first <= r.last
    /\ Advance(r)
    /\ UNCHANGED <<sourceVars, fileVars, pc, batch, status>>

\* An id in the process-local map is a duplicate.
InsertDuplicate(r) ==
    /\ r.first \in seen
    /\ UNCHANGED <<seen, stored, refused, faults, pushable>>
    /\ Handled(r)

\* Loki takes the push.
InsertAccepted(r) ==
    /\ r.first \notin seen
    /\ pushable
    /\ seen' = seen \cup {r.first}
    /\ stored' = stored \cup {r.first}
    /\ UNCHANGED <<refused, faults, pushable>>
    /\ Handled(r)

\* There is no request to send.  The event is answered "rejected", and yet the
\* id stays in the map: these errors return before anything deletes it.
InsertUnsent(r) ==
    /\ r.first \notin seen
    /\ ~pushable
    /\ seen' = seen \cup {r.first}
    /\ refused' = refused \cup {r.first}
    /\ UNCHANGED <<stored, faults, pushable>>
    /\ Handled(r)

\* Mutant: the id of a failed push stays in the map.
InsertRefusedKeepsSeen(r) ==
    /\ r.first \notin seen
    /\ pushable
    /\ Fault
    /\ stored' \in {stored, stored \cup {r.first}}
    /\ refused' = refused \cup {r.first}
    /\ seen' = seen \cup {r.first}
    /\ UNCHANGED pushable
    /\ Handled(r)

\* The push fails, although Loki may have taken the entry: the id is
\* forgotten and the event answered "rejected".
InsertRefused(r) ==
    /\ r.first \notin seen
    /\ pushable
    /\ Fault
    /\ stored' \in {stored, stored \cup {r.first}}
    /\ refused' = refused \cup {r.first}
    /\ UNCHANGED <<seen, pushable>>
    /\ Handled(r)

\* The backend restarts, maybe with another Loki URL: its map is gone and so are
\* its requests.
BackendRestart ==
    /\ Fault
    /\ pushable' \in BOOLEAN
    /\ seen' = {}
    /\ orphans' = {}
    /\ awaited' = {}
    /\ \/ pc = "flushing" /\ Degrade
       \/ pc = "sending" /\ pc' = "enqueue" /\ UNCHANGED status
       \/ pc \notin {"flushing", "sending"} /\ UNCHANGED <<pc, status>>
    /\ UNCHANGED <<sourceVars, fileVars, batch, stored, refused>>

-----------------------------------------------------------------------------
(***************************************************************************)
(* The forwarder process and the world around it.                          *)
(***************************************************************************)

\* A crash: a file being written is left torn.
Crash ==
    /\ pc # Down
    /\ Fault
    /\ spool' \in IF pc = "enqueue" THEN {spool, SpoolBatch(TRUE)} ELSE {spool}
    /\ pc' = Down
    /\ awaited' = {}
    /\ orphans' = orphans \cup awaited
    /\ UNCHANGED <<sourceVars, cursor, batch, status, backendVars>>

Start ==
    /\ pc = Down
    /\ pc' = Rest
    /\ status' = "new"
    /\ UNCHANGED <<sourceVars, fileVars, batch, awaited, orphans, backendVars, faults>>

Log ==
    /\ journal < MaxLines
    /\ journal' = journal + 1
    /\ UNCHANGED <<since, fileVars, pc, batch, status, awaited, orphans,
                   backendVars, faults>>

\* An outage outlasts the window that applies without a cursor.
Age ==
    /\ pc = Down \/ (pc = Rest /\ status = "degraded")
    /\ since < MaxSince
    /\ since < journal
    /\ since' = since + 1
    /\ UNCHANGED <<journal, fileVars, pc, batch, status, awaited, orphans,
                   backendVars, faults>>

\* What RunOnce does when nothing fails.
Cycle ==
    \/ RunOnce \/ Quarantine \/ FlushSend \/ FlushRemove \/ Read \/ SendOK
    \/ EnqueueWrite \/ EnqueueLimit \/ SaveTruncate \/ SaveWrite

Failure ==
    FlushError \/ ReadError \/ SendError \/ EnqueueError \/ SaveError

Ingest ==
    \E r \in awaited \cup orphans :
        InsertDuplicate(r) \/ InsertAccepted(r) \/ InsertUnsent(r) \/ InsertRefused(r)

ForwarderNext ==
    Cycle \/ Failure \/ Ingest \/ BackendRestart \/ Crash \/ Start \/ Log \/ Age

ForwarderSpec == ForwarderInit /\ [][ForwarderNext]_fwdVars

(***************************************************************************)
(* Fairness: the service manager restarts the forwarder, its timer keeps   *)
(* firing, and the backend answers a request that is not cut off.          *)
(***************************************************************************)
FairForwarderSpec ==
    /\ ForwarderSpec
    /\ WF_fwdVars(Cycle)
    /\ WF_fwdVars(Start)
    /\ WF_fwdVars(\E r \in awaited :
                      InsertDuplicate(r) \/ InsertAccepted(r) \/ InsertUnsent(r))

-----------------------------------------------------------------------------
(***************************************************************************)
(* Properties.                                                             *)
(***************************************************************************)

Intervals == [first : 1..(MaxLines + 1), last : 0..MaxLines]

\* Files, requests and the state of RunOnce have the types of the code.
ForwarderTypeOK ==
    /\ journal \in 0..MaxLines
    /\ since \in 0..journal
    /\ cursor \in 0..journal
    /\ spool \in Seq(SpoolFile)
    /\ pc \in {Rest, Down, "flush", "flushing", "remove", "sending", "enqueue",
               "limit", "save", "saving"}
    /\ batch \in Intervals
    /\ status \in {"new", "ok", "degraded"}
    /\ awaited \subseteq Intervals
    /\ orphans \subseteq Intervals
    /\ pushable \in BOOLEAN
    /\ seen \subseteq Lines
    /\ stored \subseteq Lines
    /\ refused \subseteq Lines
    /\ faults \in 0..MaxFaults

Answered == stored \cup refused

\* The cursor never passes a line of the initial window that the backend has
\* not answered for, through any mix of failed sends, torn files, restarts of
\* either side and requests that outlive their client.
CursorAcknowledged == (since + 1)..cursor \subseteq Answered

\* The spool is expendable: it never holds more than one batch, and none of
\* it is behind the cursor, so what enforceLimit drops or Flush quarantines
\* is read from the source again.
SpoolExpendable ==
    /\ Len(spool) <= 1
    /\ \A i \in 1..Len(spool) : spool[i].batch.first > cursor

\* An id answered "duplicate" is in Loki, whatever pushes failed and whatever
\* requests outlived their client, as long as the running backend can make a
\* request at all.  (If it cannot, every id is a duplicate from the second time
\* on and nothing is stored.)
DuplicateIsStored == pushable => seen \subseteq stored

\* A forwarder that reports itself healthy between two cycles has no backlog.
HealthyMeansDrained == pc = Rest /\ status = "ok" => spool = <<>>

\* "Delivery is at-least-once": a line that was answered for and is behind the
\* cursor is stored.
AtLeastOnce == Answered \cap 1..cursor \subseteq stored

\* A line is answered for in the end, whatever failed before, unless it has left
\* the initial window or a line that does not parse can share its batch (such a
\* line fails its batch in every cycle).
EventuallyAnswered ==
    \A n \in Lines : (\A p \in Poison : p >= n + BatchSize) =>
        (journal >= n ~> n \in Answered \/ n <= since)

-----------------------------------------------------------------------------
(***************************************************************************)
(* The inductive invariant behind the safety properties, for a source that *)
(* hands out the oldest lines first (journald).                            *)
(***************************************************************************)

InHand == {"sending", "enqueue", "limit", "save", "saving"}

\* A batch is read and saved with an empty spool; a file is being flushed or
\* was just written otherwise.
SpoolPhase ==
    /\ pc \in {"sending", "enqueue", "save", "saving"} => spool = <<>>
    /\ pc \in {"flushing", "remove"} => spool # <<>>

\* Every id in the map was answered for.
SeenAnswered == seen \subseteq Answered

\* The batch in hand starts right behind what is answered for.
BatchFollows ==
    pc \in InHand =>
        /\ batch.first <= batch.last
        /\ batch.last <= journal
        /\ cursor < batch.first
        /\ (since + 1)..(batch.first - 1) \subseteq Answered

\* What the awaited request has left behind is answered for.
RequestFollows ==
    /\ pc = "sending" =>
          /\ awaited # {}
          /\ \A r \in awaited :
                /\ r.last = batch.last
                /\ batch.first <= r.first
                /\ (batch.first)..(r.first - 1) \subseteq Answered
    /\ pc \in {"save", "saving"} => (batch.first)..(batch.last) \subseteq Answered

ForwarderInv ==
    /\ ForwarderTypeOK
    /\ CursorAcknowledged
    /\ SpoolExpendable
    /\ DuplicateIsStored
    /\ SeenAnswered
    /\ HealthyMeansDrained
    /\ SpoolPhase
    /\ BatchFollows
    /\ RequestFollows
=============================================================================
