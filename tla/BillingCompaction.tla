-------------------------- MODULE BillingCompaction --------------------------
(***************************************************************************)
(* Online compaction of the billing inbox (CompactOnline): the database    *)
(* is copied into a new generation while writers go on, their mutations    *)
(* are journalled and replayed, and the active manifest is switched under  *)
(* a short write gate.                                                     *)
(*                                                                         *)
(* A database is what its buckets hold; each commit is atomic and durable. *)
(* The directory of the databases is not: it is a sequence of states, the  *)
(* first one durable, the last one visible, and a crash leaves one of      *)
(* them.  All domain data is one log of writes; write n is the n-th one.   *)
(***************************************************************************)
EXTENDS Integers, Sequences, FiniteSets, SequencesExt

CONSTANTS
    Generations,  \* the random generation ids a run may draw
    Initial,      \* the generation "initial", kept in the anchor file
    None,
    MaxWrites,    \* bound on the domain writes
    ReplayBatch,  \* 256: write-sets replayed per batch
    GateLag,      \* 32: write-sets replayed under the gate
    JournalLimit, \* 128 MiB of journal, counted in write-sets
    MaxFaults     \* bound on failing calls and crashes

Stores == Generations \cup {Initial}

\* The active manifest: the generation, and its mutation number at the cutover.
Manifest == [file : Stores, cutover : Nat]

ASSUME CompactionAssumption ==
    /\ Initial \notin Generations
    /\ None \notin Stores \cup Manifest
    /\ {MaxWrites, GateLag, JournalLimit, MaxFaults} \subseteq Nat
    /\ ReplayBatch \in Nat \ {0}

Writes == 1..MaxWrites

VARIABLES
    dbs,      \* what each database file holds
    partial,  \* database files that hold part of a copy
    disk,     \* states of the directory: durable first, visible last
    log,      \* every write that was committed, in order
    serving,  \* s.path, the generation that is open; None: no process
    failed,   \* s.failed
    pc,       \* where CompactOnline is
    run,      \* its local variables
    snapshot, \* what the snapshot.db it took holds
    scratch,  \* the generations with a compact-<generation> directory
    marked,   \* those whose directory holds owner.json
    plain,    \* those whose directory holds snapshot.db
    drawn,    \* the generation ids that were used
    served,   \* history: the generations that were ever open
    reclaim,  \* old generations whose handles are still draining
    faults

procVars == <<serving, failed, served>>
runVars == <<run, snapshot, drawn>>
scratchVars == <<scratch, marked, plain>>
compVars == <<dbs, partial, disk, log, procVars, pc, runVars, scratchVars,
              reclaim, faults>>

\* The buckets meta and mutation_journal, and the log for all the others.  The
\* journal has the write-sets by generation; a set without domain data is 0.
Database(journal) ==
    [gen : Nat, data : Seq(Writes), session : Generations \cup {None},
     storage : Stores, required : BOOLEAN, journal : {journal}]

\* One state of the directory: the manifest and the database files.
Directory == [manifest : Manifest \cup {None}, files : SUBSET Stores]

EmptyDb ==
    [gen |-> 0, data |-> <<>>, session |-> None, storage |-> Initial,
     required |-> FALSE, journal |-> <<>>]

Idle == "idle"
NoRun ==
    [gen |-> None, replayed |-> 0, attempted |-> FALSE, switched |-> FALSE,
     retained |-> FALSE, sweeping |-> FALSE]

InitialManifest == [file |-> Initial, cutover |-> 0]

CompactionInit ==
    /\ dbs = [g \in Stores |-> EmptyDb]
    /\ partial = {}
    /\ disk = << [manifest |-> None, files |-> {Initial}] >>
    /\ log = <<>>
    /\ serving = Initial
    /\ failed = FALSE
    /\ served = {Initial}
    /\ pc = Idle
    /\ run = NoRun
    /\ snapshot = EmptyDb
    /\ scratch = {} /\ marked = {} /\ plain = {}
    /\ drawn = {}
    /\ reclaim = {}
    /\ faults = 0

Fault == faults < MaxFaults /\ faults' = faults + 1

Visible == Last(disk)
Synced(d) == <<d>>

-----------------------------------------------------------------------------
(***************************************************************************)
(* updateLocked, the only gateway of domain writes.                        *)
(***************************************************************************)

\* The steps of CompactOnline that hold the write lock.
Gated == {"bootstrap", "bootsync", "reset", "session", "publish", "pubsync", "swap"}
Unlocked == serving # None /\ ~failed /\ pc \notin Gated

\* The journal with the write-set of one more generation.
Put(journal, g, w) ==
    [k \in DOMAIN journal \cup {g} |-> IF k = g THEN w ELSE journal[k]]

\* Mutant: the session survives the write-set that the journal had no room for.
CommittedKeepsSession(d, w) ==
    LET g == d.gen + 1
        next == [d EXCEPT !.gen = g, !.data = Append(@, w)]
    IN  IF d.session = None \/ Cardinality(DOMAIN d.journal) > JournalLimit
        THEN next
        ELSE [next EXCEPT !.journal = Put(@, g, w)]

\* The write, the next generation and, in a session, the write-set; a journal
\* over its limit ends the session instead.
Committed(d, w) ==
    LET g == d.gen + 1
        next == [d EXCEPT !.gen = g, !.data = Append(@, w)]
    IN  IF d.session = None
        THEN next
        ELSE IF Cardinality(DOMAIN d.journal) > JournalLimit
        THEN [next EXCEPT !.session = None]
        ELSE [next EXCEPT !.journal = Put(@, g, w)]

\* meta.compaction_session is deleted: a mutation that is not journalled.
SessionEnded(d) == [d EXCEPT !.gen = @ + 1, !.session = None]

Write ==
    /\ Unlocked
    /\ Len(log) < MaxWrites
    /\ dbs' = [dbs EXCEPT ![serving] = Committed(@, Len(log) + 1)]
    /\ log' = Append(log, Len(log) + 1)
    /\ UNCHANGED <<partial, disk, procVars, pc, runVars, scratchVars, reclaim, faults>>

\* The commit reports an error, whether or not it reached the disk; InsertEvent
\* fences the inbox, the updates of the lifecycle do not.
WriteAmbiguous ==
    /\ Unlocked
    /\ Len(log) < MaxWrites
    /\ Fault
    /\ failed' \in {failed, TRUE}
    /\ \/ /\ dbs' = [dbs EXCEPT ![serving] = Committed(@, Len(log) + 1)]
          /\ log' = Append(log, Len(log) + 1)
       \/ UNCHANGED <<dbs, log>>
    /\ UNCHANGED <<partial, disk, serving, served, pc, runVars, scratchVars, reclaim>>

-----------------------------------------------------------------------------
(***************************************************************************)
(* cleanupInterruptedCompactionScratch, at the start of CompactOnline.     *)
(***************************************************************************)

Goto(label) ==
    /\ pc' = label
    /\ UNCHANGED <<log, procVars, snapshot, drawn, reclaim>>

\* Health and ready.
CompactOnline ==
    /\ pc = Idle
    /\ serving # None
    /\ ~failed
    /\ serving \in Visible.files
    /\ Goto("sweep")
    /\ run' = NoRun
    /\ UNCHANGED <<dbs, partial, disk, scratchVars, faults>>

\* The shadow of an interrupted run can be told for certain.
Verifiable(g) ==
    /\ g \notin partial
    /\ dbs[g].session = g \/ dbs[g].storage = g

\* Mutant: the generation that is active counts as an interrupted shadow.
SweepCandidateAny(g) ==
    /\ pc = "sweep"
    /\ g \in scratch
    /\ IF /\ g \in marked
          /\ Visible.manifest # None
          /\ g \in Visible.files => Verifiable(g)
       THEN /\ Goto("unscratch")
            /\ run' = [NoRun EXCEPT !.gen = g, !.sweeping = TRUE]
            /\ disk' = IF g \in Visible.files
                       THEN Synced([Visible EXCEPT !.files = @ \ {g}])
                       ELSE disk
       ELSE Goto(Idle) /\ UNCHANGED <<run, disk>>
    /\ UNCHANGED <<dbs, partial, scratchVars, faults>>

\* One directory: an unmarked one, a manifest that does not name the open
\* generation and a shadow that cannot be verified end the run.  The shadow
\* is unlinked unless it is the active generation, then the scratch goes.
SweepCandidate(g) ==
    /\ pc = "sweep"
    /\ g \in scratch
    /\ IF /\ g \in marked
          /\ Visible.manifest # None
          /\ Visible.manifest.file = serving
          /\ g \in Visible.files \ {serving} => Verifiable(g)
       THEN /\ Goto("unscratch")
            /\ run' = [NoRun EXCEPT !.gen = g, !.sweeping = TRUE]
            /\ disk' = IF g \in Visible.files \ {serving}
                       THEN Synced([Visible EXCEPT !.files = @ \ {g}])
                       ELSE disk
       ELSE Goto(Idle) /\ UNCHANGED <<run, disk>>
    /\ UNCHANGED <<dbs, partial, scratchVars, faults>>

\* Mutant: what interrupted runs left does not keep a run from starting.
SweptIgnored ==
    /\ pc = "sweep"
    /\ \E g \in Generations \ drawn :
          /\ run' = [NoRun EXCEPT !.gen = g]
          /\ drawn' = drawn \cup {g}
    /\ pc' = "bootstrap"
    /\ UNCHANGED <<dbs, partial, disk, log, procVars, snapshot, scratchVars,
                   reclaim, faults>>

\* The removal of a shadow fails, before or after the file is unlinked, or
\* there is no room for another generation.
SweepError ==
    /\ pc = "sweep"
    /\ Fault
    /\ \/ UNCHANGED disk
       \/ \E g \in (marked \cap Visible.files) \ {serving} :
             /\ Verifiable(g)
             /\ disk' = Append(disk, [Visible EXCEPT !.files = @ \ {g}])
    /\ Goto(Idle)
    /\ UNCHANGED <<dbs, partial, run, scratchVars>>

\* Nothing is left to sweep: a new generation is drawn, the lock is taken.
Swept ==
    /\ pc = "sweep"
    /\ scratch = {}
    /\ \E g \in Generations \ drawn :
          /\ run' = [NoRun EXCEPT !.gen = g]
          /\ drawn' = drawn \cup {g}
    /\ pc' = "bootstrap"
    /\ UNCHANGED <<dbs, partial, disk, log, procVars, snapshot, scratchVars,
                   reclaim, faults>>

-----------------------------------------------------------------------------
(***************************************************************************)
(* Opening a session, under the write lock.                                *)
(***************************************************************************)

\* An error before the session is there: nothing was deferred yet.
GiveUp == Goto(Idle) /\ UNCHANGED <<dbs, partial, run, scratchVars>>

\* A store without a manifest gets one for the file it is in.
BootstrapRename ==
    /\ pc = "bootstrap"
    /\ IF Visible.manifest = None
       THEN /\ disk' = Append(disk, [Visible EXCEPT !.manifest = InitialManifest])
            /\ Goto("bootsync")
       ELSE Goto("reset") /\ UNCHANGED disk
    /\ UNCHANGED <<dbs, partial, run, scratchVars, faults>>

BootstrapSync ==
    /\ pc = "bootsync"
    /\ disk' = Synced(Visible)
    /\ Goto("reset")
    /\ UNCHANGED <<dbs, partial, run, scratchVars, faults>>

BootstrapError ==
    /\ pc \in {"bootstrap", "bootsync"}
    /\ Fault
    /\ GiveUp
    /\ UNCHANGED disk

JournalReset ==
    /\ pc = "reset"
    /\ dbs' = [dbs EXCEPT ![serving].journal = <<>>]
    /\ Goto("session")
    /\ UNCHANGED <<partial, disk, run, scratchVars, faults>>

\* The session's own update is the first write-set of the journal.
SessionStarted(d) ==
    [d EXCEPT !.gen = @ + 1, !.required = TRUE, !.session = run.gen,
              !.journal = Put(@, d.gen + 1, 0)]

\* The session is refused on a fenced inbox and beside another session.
StartSession ==
    /\ pc = "session"
    /\ IF failed \/ dbs[serving].session # None
       THEN Goto(Idle) /\ UNCHANGED dbs
       ELSE /\ dbs' = [dbs EXCEPT ![serving] = SessionStarted(@)]
            /\ Goto("mkdir")
    /\ UNCHANGED <<partial, disk, run, scratchVars, faults>>

SessionError ==
    /\ pc \in {"reset", "session"}
    /\ Fault
    /\ GiveUp
    /\ UNCHANGED disk

-----------------------------------------------------------------------------
(***************************************************************************)
(* The private copy, with writers going on.                                *)
(***************************************************************************)

MakeScratch ==
    /\ pc = "mkdir"
    /\ scratch' = scratch \cup {run.gen}
    /\ Goto("mark")
    /\ UNCHANGED <<dbs, partial, disk, run, marked, plain, faults>>

\* owner.json is durable before any plaintext is written.
MarkScratch ==
    /\ pc = "mark"
    /\ marked' = marked \cup {run.gen}
    /\ Goto("snapshot")
    /\ UNCHANGED <<dbs, partial, disk, run, scratch, plain, faults>>

\* A read transaction, copied in full.
TakeSnapshot ==
    /\ pc = "snapshot"
    /\ snapshot' = dbs[serving]
    /\ plain' = plain \cup {run.gen}
    /\ pc' = "candidate"
    /\ UNCHANGED <<dbs, partial, disk, log, procVars, run, drawn, scratch,
                   marked, reclaim, faults>>

CreateCandidate ==
    /\ pc = "candidate"
    /\ disk' = Append(disk, [Visible EXCEPT !.files = @ \cup {run.gen}])
    /\ partial' = partial \cup {run.gen}
    /\ Goto("compact")
    /\ UNCHANGED <<dbs, run, scratchVars, faults>>

\* bolt.Compact, and the audit of the result.
FillCandidate ==
    /\ pc = "compact"
    /\ dbs' = [dbs EXCEPT ![run.gen] = snapshot]
    /\ partial' = partial \ {run.gen}
    /\ run' = [run EXCEPT !.replayed = snapshot.gen]
    /\ Goto("replay")
    /\ UNCHANGED <<disk, scratchVars, faults>>

-----------------------------------------------------------------------------
(***************************************************************************)
(* Catching up by generation.                                              *)
(***************************************************************************)

Source == dbs[serving]
Candidate == dbs[run.gen]

\* The journal has a write-set for every generation from the replayed one on.
Journalled(to) == (run.replayed + 1)..to \subseteq DOMAIN Source.journal

\* Mutant: the catch-up is inclusive of the generation it starts from.
WriteSetsInclusive(to) ==
    [i \in 1..(to - run.replayed + 1) |-> Source.journal[run.replayed + i - 1]]

\* They are read by generation, in order.
WriteSets(to) == [i \in 1..(to - run.replayed) |-> Source.journal[run.replayed + i]]

\* applyMutations: the data and the generation of each write-set.
Replayed(to) == [Candidate EXCEPT !.gen = to, !.data = @ \o WriteSets(to)]

\* Where an error leads once the candidate is there.
Unwind == Goto("uncandidate") /\ UNCHANGED <<partial, run, scratchVars>>

\* One batch; the catch-up is over when the rest fits under the gate.
Replay ==
    /\ pc = "replay"
    /\ LET target == Source.gen
           end == IF target - run.replayed > ReplayBatch
                  THEN run.replayed + ReplayBatch ELSE target
       IN  IF Source.session # run.gen \/ ~Journalled(end)
           THEN Unwind /\ UNCHANGED dbs
           ELSE /\ dbs' = [dbs EXCEPT ![run.gen] = Replayed(end)]
                /\ run' = [run EXCEPT !.replayed = end]
                /\ Goto(IF target - end <= GateLag THEN "sync" ELSE "replay")
                /\ UNCHANGED <<partial, scratchVars>>
    /\ UNCHANGED <<disk, faults>>

\* The entry of the candidate is durable before the gate.
SyncCandidate ==
    /\ pc = "sync"
    /\ disk' = Synced(Visible)
    /\ Goto("gate")
    /\ UNCHANGED <<dbs, partial, run, scratchVars, faults>>

-----------------------------------------------------------------------------
(***************************************************************************)
(* The gate: the rest of the journal, then the manifest, then the handle.  *)
(***************************************************************************)

\* Mutant: the gate trusts the last batch.
GateReplayForgets == run.replayed

\* The generation that the gate brings the candidate to.
GateReplay == Source.gen

\* The final write-sets, the end of the session and the new storage
\* generation are one transaction of the candidate.
Gate ==
    /\ pc = "gate"
    /\ IF \/ failed
          \/ Source.gen - run.replayed > GateLag
          \/ ~Journalled(GateReplay)
       THEN Unwind /\ UNCHANGED dbs
       ELSE /\ dbs' = [dbs EXCEPT ![run.gen] =
                        [Replayed(GateReplay) EXCEPT !.session = None,
                                                     !.storage = run.gen]]
            /\ Goto("publish")
            /\ UNCHANGED <<partial, run, scratchVars>>
    /\ UNCHANGED <<disk, faults>>

NewManifest == [file |-> run.gen, cutover |-> Candidate.gen]

Publish ==
    /\ pc = "publish"
    /\ disk' = Append(disk, [Visible EXCEPT !.manifest = NewManifest])
    /\ run' = [run EXCEPT !.attempted = TRUE]
    /\ Goto("pubsync")
    /\ UNCHANGED <<dbs, partial, scratchVars, faults>>

\* The temporary file or its renaming fails: fenced, on the old generation.
PublishError ==
    /\ pc = "publish"
    /\ Fault
    /\ run' = [run EXCEPT !.attempted = TRUE]
    /\ failed' = TRUE
    /\ pc' = "uncandidate"
    /\ UNCHANGED <<dbs, partial, disk, log, serving, served, snapshot, drawn,
                   scratchVars, reclaim>>

PublishSync ==
    /\ pc = "pubsync"
    /\ disk' = Synced(Visible)
    /\ Goto("swap")
    /\ UNCHANGED <<dbs, partial, run, scratchVars, faults>>

\* Mutant: a manifest whose directory was not synced is taken for unpublished,
\* and the old generation for the one to go on with.
PublishSyncErrorResumes ==
    /\ pc = "pubsync"
    /\ Fault
    /\ pc' = "uncandidate"
    /\ UNCHANGED <<dbs, partial, disk, log, procVars, runVars, scratchVars, reclaim>>

\* The renaming is visible but may not last: fenced, on the new generation,
\* or on the old one when the manifest cannot be read back.
PublishSyncError ==
    /\ pc = "pubsync"
    /\ Fault
    /\ failed' = TRUE
    /\ pc' \in {"swap", "uncandidate"}
    /\ UNCHANGED <<dbs, partial, disk, log, serving, served, runVars, scratchVars, reclaim>>

\* The handle is exchanged; the old generation drains on its own.
Swap ==
    /\ pc = "swap"
    /\ serving' = run.gen
    /\ served' = served \cup {run.gen}
    /\ reclaim' = reclaim \cup {serving}
    /\ run' = [run EXCEPT !.switched = TRUE]
    /\ pc' = "unscratch"
    /\ UNCHANGED <<dbs, partial, disk, log, failed, snapshot, drawn, scratchVars, faults>>

-----------------------------------------------------------------------------
(***************************************************************************)
(* What CompactOnline deferred, in the order it runs.                      *)
(***************************************************************************)

\* A cancellation, a call that fails, a catch-up or a gate over its time.  A
\* snapshot that fails may leave a part of the file.
Cancel ==
    /\ pc \in {"mkdir", "mark", "snapshot", "candidate", "compact", "replay",
               "sync", "gate", "publish"}
    /\ Fault
    /\ plain' \in IF pc = "snapshot" THEN {plain, plain \cup {run.gen}} ELSE {plain}
    /\ Goto(CASE pc = "mkdir" -> "unsession"
              [] pc \in {"mark", "snapshot", "candidate"} -> "unscratch"
              [] OTHER -> "uncandidate")
    /\ UNCHANGED <<dbs, partial, disk, run, scratch, marked>>

\* The shadow is unlinked, unless the manifest may name it.
DropCandidate ==
    /\ pc = "uncandidate"
    /\ IF run.attempted
       THEN run' = [run EXCEPT !.retained = TRUE] /\ UNCHANGED disk
       ELSE disk' = Synced([Visible EXCEPT !.files = @ \ {run.gen}]) /\ UNCHANGED run
    /\ Goto("unscratch")
    /\ UNCHANGED <<dbs, partial, scratchVars, faults>>

DropCandidateError ==
    /\ pc = "uncandidate"
    /\ Fault
    /\ run' = [run EXCEPT !.retained = TRUE]
    /\ disk' \in IF run.attempted THEN {disk}
                 ELSE {disk, Append(disk, [Visible EXCEPT !.files = @ \ {run.gen}])}
    /\ Goto("unscratch")
    /\ UNCHANGED <<dbs, partial, scratchVars>>

\* Where removeCompactionScratch returns to.
AfterScratch ==
    IF run.sweeping THEN "sweep" ELSE IF run.switched THEN Idle ELSE "unsession"

\* Mutant: the marker goes with the plaintext, whatever the shadow is.
KeepsMarkerNever == FALSE

\* A shadow that may be active, or that could not be unlinked, keeps its
\* marker.
KeepsMarker == ~run.sweeping /\ ~run.switched /\ (run.attempted \/ run.retained)

RemoveSnapshot ==
    /\ pc = "unscratch"
    /\ plain' = plain \ {run.gen}
    /\ Goto(IF KeepsMarker THEN AfterScratch ELSE "unmark")
    /\ UNCHANGED <<dbs, partial, disk, run, scratch, marked, faults>>

RemoveMarker ==
    /\ pc = "unmark"
    /\ marked' = marked \ {run.gen}
    /\ Goto("rmdir")
    /\ UNCHANGED <<dbs, partial, disk, run, scratch, plain, faults>>

RemoveScratch ==
    /\ pc = "rmdir"
    /\ scratch' = scratch \ {run.gen}
    /\ Goto(AfterScratch)
    /\ UNCHANGED <<dbs, partial, disk, run, marked, plain, faults>>

\* A sweep that fails ends the run.
ScratchError ==
    /\ pc \in {"unscratch", "unmark", "rmdir"}
    /\ Fault
    /\ Goto(IF run.sweeping THEN Idle ELSE AfterScratch)
    /\ UNCHANGED <<dbs, partial, disk, run, scratchVars>>

\* An inbox that is fenced, or a commit that fails, keeps its session.
EndSession ==
    /\ pc = "unsession"
    /\ \/ /\ ~failed
          /\ dbs' = [dbs EXCEPT ![serving] = SessionEnded(@)]
          /\ UNCHANGED faults
       \/ /\ failed
          /\ UNCHANGED <<dbs, faults>>
       \/ /\ Fault
          /\ UNCHANGED dbs
    /\ Goto(Idle)
    /\ UNCHANGED <<partial, disk, run, scratchVars>>

-----------------------------------------------------------------------------
(***************************************************************************)
(* Reclaiming, crashes and OpenBillingInbox.                               *)
(***************************************************************************)

\* reclaimGeneration, once the readers are gone: the file is unlinked, or the
\* anchor replaced by a marker that no database is in; the sync may fail.
ReclaimGeneration(g) ==
    /\ g \in reclaim
    /\ reclaim' = reclaim \ {g}
    /\ LET next == [Visible EXCEPT !.files = @ \ {g}]
       IN  disk' \in {Synced(next), Append(disk, next)}
    /\ UNCHANGED <<dbs, partial, log, procVars, pc, runVars, scratchVars, faults>>

\* The process or the machine stops; any state of the directory is left.
Crash ==
    /\ serving # None
    /\ Fault
    /\ \E d \in Range(disk) : disk' = Synced(d)
    /\ serving' = None
    /\ failed' = FALSE
    /\ pc' = Idle
    /\ run' = NoRun
    /\ reclaim' = {}
    /\ UNCHANGED <<dbs, partial, log, served, snapshot, drawn, scratchVars>>

\* loadActivePath: the file that a directory leads to.
Target(d) == IF d.manifest = None THEN Initial ELSE d.manifest.file

\* The checks of OpenBillingInbox and validateActiveManifest.
Opens(d) ==
    LET t == Target(d) IN
    /\ t \in d.files
    /\ t \notin partial
    /\ IF d.manifest = None
       THEN ~dbs[t].required
       ELSE /\ dbs[t].gen >= d.manifest.cutover
            /\ dbs[t].storage = d.manifest.file

\* No session outlives its process.
Open ==
    /\ serving = None
    /\ Opens(Visible)
    /\ serving' = Target(Visible)
    /\ served' = served \cup {serving'}
    /\ dbs' = [dbs EXCEPT ![Target(Visible)] =
                IF @.session = None THEN @ ELSE SessionEnded(@)]
    /\ disk' = Synced(Visible)
    /\ UNCHANGED <<partial, log, failed, pc, runVars, scratchVars, reclaim, faults>>

Sweep == CompactOnline \/ (\E g \in scratch : SweepCandidate(g)) \/ SweepError \/ Swept

Begin ==
    BootstrapRename \/ BootstrapSync \/ BootstrapError \/ JournalReset
    \/ StartSession \/ SessionError

Copy ==
    MakeScratch \/ MarkScratch \/ TakeSnapshot \/ CreateCandidate \/ FillCandidate
    \/ Replay \/ SyncCandidate

Cutover ==
    Gate \/ Publish \/ PublishError \/ PublishSync \/ PublishSyncError \/ Swap

Deferred ==
    DropCandidate \/ DropCandidateError \/ RemoveSnapshot \/ RemoveMarker
    \/ RemoveScratch \/ ScratchError \/ EndSession

CompactionNext ==
    Write \/ WriteAmbiguous \/ Sweep \/ Begin \/ Copy \/ Cutover \/ Cancel \/ Deferred
    \/ (\E g \in reclaim : ReclaimGeneration(g)) \/ Crash \/ Open

CompactionSpec == CompactionInit /\ [][CompactionNext]_compVars

-----------------------------------------------------------------------------
(***************************************************************************)
(* Properties.                                                             *)
(***************************************************************************)

Labels ==
    {Idle, "sweep", "bootstrap", "bootsync", "reset", "session", "mkdir", "mark",
     "snapshot", "candidate", "compact", "replay", "sync", "gate", "publish",
     "pubsync", "swap", "uncandidate", "unscratch", "unmark", "rmdir", "unsession"}

\* Databases, directory states and the locals of a run have their types.
CompactionTypeOK ==
    /\ DOMAIN dbs = Stores
    /\ \A g \in Stores : dbs[g] \in Database(dbs[g].journal)
    /\ snapshot \in Database(snapshot.journal)
    /\ partial \subseteq Generations
    /\ disk \in Seq(Directory) \ {<<>>}
    /\ log \in Seq(Writes)
    /\ serving \in Stores \cup {None}
    /\ failed \in BOOLEAN
    /\ served \subseteq Stores
    /\ pc \in Labels
    /\ run \in [gen : Generations \cup {None}, replayed : Nat, attempted : BOOLEAN,
                switched : BOOLEAN, retained : BOOLEAN, sweeping : BOOLEAN]
    /\ drawn \subseteq Generations
    /\ faults \in 0..MaxFaults

\* The open generation holds every committed write once and in order, through
\* the cutover and after a crash at any point of it.
ServesEveryWrite == serving # None => dbs[serving].data = log

\* Whatever state of the directory a crash leaves, the inbox opens on a
\* generation that holds every committed write: the manifest is the commit
\* point, and no old generation comes back after new commits.  Left out is only
\* the directory that DurablePointerFirst is about.
RecoversEveryWrite ==
    \A d \in Range(disk) :
        d.manifest # None \/ ~dbs[Initial].required =>
            Opens(d) /\ dbs[Target(d)].data = log

\* As long as its session lasts, a run can bring the candidate up to date from
\* the journal: no write slips between the snapshot, the batches and the gate,
\* and none is replayed twice.
CatchUpComplete ==
    /\ pc \in {"replay", "sync", "gate"}
    /\ Source.session = run.gen
    => Journalled(Source.gen) /\ Replayed(Source.gen).data = log

\* Plaintext is only written where an owner marker says whose it is, and a new
\* run never adds a snapshot to one that an interrupted run has left.
PlaintextOwned == plain \subseteq marked /\ Cardinality(plain) <= 1

Shadows == Visible.files \ served

\* A shadow generation that was never active keeps its marker for as long as
\* its file is there, so that a later run can unlink it.
ShadowsKeepOwner ==
    [][\A g \in Shadows \cap marked : g \in marked' \/ g \notin Shadows']_compVars

\* "Bootstrap a durable pointer to the current generation before marking the
\* legacy anchor": a store that needs a manifest has a durable one.
DurablePointerFirst == dbs[Initial].required => disk[1].manifest # None
=============================================================================
