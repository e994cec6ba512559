----------------------- MODULE BillingCompactionProofs -----------------------
(***************************************************************************)
(* CompactionInv is an inductive invariant of online compaction; that no   *)
(* write is lost by the cutover or by a crash in it, that the catch-up is  *)
(* complete, and that plaintext and shadows keep their owner follow from   *)
(* it for every number of generations, writes and faults.                  *)
(***************************************************************************)
EXTENDS BillingCompaction, FiniteSetTheorems, SequenceTheorems, TLAPS

\* The states of the directory that a crash may leave.
Left == Range(disk)

\* CompactOnline before the file of the new generation, from there to the
\* gate, and before the manifest is touched.
Opening == {"bootstrap", "bootsync", "reset", "session", "mkdir", "mark", "snapshot",
            "candidate"}
CatchingUp == {"replay", "sync", "gate"}
Building == Opening \cup {"compact"} \cup CatchingUp \cup {"publish"}

\* The new generation is complete and the write lock is held.
Complete == {"publish", "pubsync", "swap"}

\* Writes are numbered in the order they commit.
LogNumbered == \A i \in 1..Len(log) : log[i] = i

\* Ids are drawn once: everything on disk is of a drawn generation.
DrawnOnce ==
    /\ served \subseteq drawn \cup {Initial}
    /\ serving \in served \cup {None}
    /\ reclaim \subseteq served
    /\ partial \subseteq drawn
    /\ scratch \subseteq drawn
    /\ \A d \in Left : /\ d.files \subseteq drawn \cup {Initial}
                       /\ Target(d) \in drawn \cup {Initial}

\* The locals of a run, and its generation.
RunLocals ==
    /\ serving = None => pc = Idle /\ reclaim = {}
    /\ pc \notin {Idle, "sweep"} => run.gen \in drawn
    /\ pc \in {"sweep"} \cup Building => ~run.attempted
    /\ pc \in Building => ~run.retained
    /\ pc \in Building \cup Complete \cup {"uncandidate"} =>
          ~run.sweeping /\ ~run.switched /\ run.gen \notin served
    /\ run.sweeping => ~run.attempted
    /\ run.switched /\ pc # Idle => run.gen \in served

\* No manifest names the generation of a run that has not published it.
RunUnnamed ==
    pc \in Building \cup {"uncandidate"} /\ ~run.attempted =>
        \A d \in Left : Target(d) # run.gen

RunSound == RunLocals /\ RunUnnamed

\* The file of the new generation.
FileSound ==
    /\ pc \in Opening => run.gen \notin Visible.files
    /\ pc \in {"compact"} \cup CatchingUp \cup Complete => run.gen \in Visible.files
    /\ pc \in CatchingUp \cup Complete => run.gen \notin partial
    /\ pc = "unmark" \/ (pc = "unscratch" /\ ~KeepsMarker) =>
          run.gen \notin Visible.files \/ run.gen \in served

\* Old generations that drain are behind the manifest.
ReclaimSound == \A g \in reclaim : g # serving /\ g # Target(Visible)

\* A directory that OpenBillingInbox does not refuse for a missing manifest.
Recoverable(d) == d.manifest # None \/ ~dbs[Initial].required

\* Every state of the directory leads to all the writes; to another generation
\* than the open one only when no more writes are accepted.
RecoverSound ==
    \A d \in Left : Recoverable(d) =>
        /\ Opens(d)
        /\ dbs[Target(d)].data = log
        /\ serving \notin {None, Target(d)} =>
              run.attempted /\ (failed \/ pc \in {"pubsync", "swap"})

\* The visible manifest, and the generation that it switches to.
ManifestSound ==
    /\ serving # None => Recoverable(Visible)
    /\ dbs[Initial].storage = Initial
    /\ pc \in {"bootsync", "reset", "session"} => Visible.manifest # None
    /\ pc \in Complete => /\ dbs[run.gen].data = log
                          /\ dbs[run.gen].storage = run.gen
    /\ pc \in {"pubsync", "swap"} => run.attempted /\ Target(Visible) = run.gen
    /\ pc = "swap" /\ ~failed => \A d \in Left : Target(d) = run.gen

\* The generation that the catch-up starts from, and what is copied so far.
Base == IF pc \in CatchingUp THEN run.replayed ELSE snapshot.gen
Copied == IF pc \in CatchingUp THEN Candidate.data ELSE snapshot.data

\* The journal has all the writes that the copy does not have; a session that
\* ended leaves a gap that the gate finds.
JournalSound ==
    /\ pc = "session" => DOMAIN Source.journal = {}
    /\ pc \in {"mkdir", "mark", "snapshot", "candidate", "compact"} \cup CatchingUp =>
          DOMAIN Source.journal \subseteq 0..Source.gen
    /\ pc \in {"candidate", "compact"} \cup CatchingUp => Base <= Source.gen
    /\ pc \in {"candidate", "compact"} \cup CatchingUp /\ Source.session = run.gen =>
          /\ Len(Copied) + (Source.gen - Base) = Len(log)
          /\ \A i \in 1..Len(Copied) : Copied[i] = i
          /\ \A i \in 1..(Source.gen - Base) :
                /\ Base + i \in DOMAIN Source.journal
                /\ Source.journal[Base + i] = Len(Copied) + i
    /\ pc \in {"sync", "gate"} /\ Source.session # run.gen =>
          \E i \in 1..(Source.gen - Base) : Base + i \notin DOMAIN Source.journal

\* There is one scratch directory, and its files go in order.
ScratchSound ==
    /\ plain \subseteq marked
    /\ marked \subseteq scratch
    /\ \A a, b \in scratch : a = b
    /\ pc \in Opening \ {"mark", "snapshot", "candidate"} => scratch = {}
    /\ pc \in {"mark", "snapshot", "candidate", "compact", "uncandidate"}
               \cup CatchingUp \cup Complete => scratch = {run.gen}
    /\ pc = "snapshot" => run.gen \in marked
    /\ pc \in {"unmark", "rmdir"} => run.gen \notin plain
    /\ pc = "rmdir" => run.gen \notin marked

CompactionInv ==
    /\ CompactionTypeOK
    /\ LogNumbered
    /\ DrawnOnce
    /\ RunSound
    /\ FileSound
    /\ ReclaimSound
    /\ RecoverSound
    /\ ManifestSound
    /\ ServesEveryWrite
    /\ JournalSound
    /\ ScratchSound

-----------------------------------------------------------------------------
(***************************************************************************)
(* The directory and the databases.                                        *)
(***************************************************************************)

\* The visible state of the directory is one that a crash may leave, and has
\* the types of a directory.
LEMMA VisibleIsLeft ==
    ASSUME CompactionTypeOK
    PROVE  /\ Visible \in Left
           /\ \A d \in Left : d \in Directory
  BY DEF CompactionTypeOK, Visible, Left, Last, Range

\* A change that is not synced yet is one more state that a crash may leave.
LEMMA Renamed ==
    ASSUME CompactionTypeOK, NEW d \in Directory, disk' = Append(disk, d)
    PROVE  /\ disk' \in Seq(Directory) \ {<<>>}
           /\ Visible' = d
           /\ Left' = Left \cup {d}
  <1>1. disk \in Seq(Directory)
    BY DEF CompactionTypeOK
  <1>2. /\ disk' \in Seq(Directory)
        /\ Len(disk') = Len(disk) + 1
        /\ disk'[Len(disk')] = d
        /\ \A i \in 1..Len(disk) : disk'[i] = disk[i]
    BY <1>1
  <1>3. Visible' = d
    BY <1>2 DEF Visible, Last
  <1>4. Left' = Left \cup {d}
    BY <1>1, <1>2 DEF Left, Range
  <1>. QED  BY <1>1, <1>2, <1>3, <1>4

\* A synced change is the only state that a crash may leave.
LEMMA Flushed ==
    ASSUME NEW d \in Directory, disk' = Synced(d)
    PROVE  /\ disk' \in Seq(Directory) \ {<<>>}
           /\ Visible' = d
           /\ Left' = {d}
  BY DEF Synced, Visible, Left, Last, Range

\* What a domain write does to the database that it commits to.
LEMMA CommittedFields ==
    ASSUME NEW d, d \in Database(d.journal), NEW w \in Writes
    PROVE  /\ Committed(d, w) \in Database(Committed(d, w).journal)
           /\ Committed(d, w).gen = d.gen + 1
           /\ Committed(d, w).data = Append(d.data, w)
           /\ Committed(d, w).storage = d.storage
           /\ Committed(d, w).required = d.required
           /\ \/ /\ Committed(d, w).session = None
                 /\ Committed(d, w).journal = d.journal
              \/ /\ Committed(d, w).session = d.session
                 /\ d.session # None
                 /\ Committed(d, w).journal = Put(d.journal, d.gen + 1, w)
  <1>1. /\ d.gen + 1 \in Nat
        /\ Append(d.data, w) \in Seq(Writes)
    BY DEF Database
  <1>2. CASE d.session = None
    BY <1>1, <1>2 DEF Committed, Database
  <1>3. CASE d.session # None /\ Cardinality(DOMAIN d.journal) > JournalLimit
    BY <1>1, <1>3 DEF Committed, Database
  <1>4. CASE d.session # None /\ ~(Cardinality(DOMAIN d.journal) > JournalLimit)
    <2>1. PICK j : j = Put(d.journal, d.gen + 1, w)
      OBVIOUS
    <2>2. Committed(d, w) = [d EXCEPT !.gen = d.gen + 1, !.data = Append(@, w), !.journal = j]
      BY <1>4, <2>1 DEF Committed, Database
    <2>. QED  BY <1>1, <1>4, <2>1, <2>2 DEF Database
  <1>. QED  BY <1>2, <1>3, <1>4

\* The fields of every database.
LEMMA Fields ==
    ASSUME CompactionTypeOK, NEW g \in Stores
    PROVE  /\ dbs[g] \in Database(dbs[g].journal)
           /\ dbs[g].gen \in Nat
           /\ dbs[g].data \in Seq(Writes)
           /\ dbs[g].session \in Generations \cup {None}
           /\ dbs[g].storage \in Stores
           /\ dbs[g].required \in BOOLEAN
  BY DEF CompactionTypeOK, Database

\* One database is rewritten, the others are left alone.
OnlyChanged(g) ==
    /\ DOMAIN dbs' = Stores
    /\ \A x \in Stores \ {g} : dbs'[x] = dbs[x]
    /\ \A x \in Stores : dbs'[x] \in Database(dbs'[x].journal)

\* An update in place is of one database.
LEMMA Updated ==
    ASSUME CompactionTypeOK, NEW g \in Stores, NEW v, v \in Database(v.journal),
           dbs' = [dbs EXCEPT ![g] = v]
    PROVE  OnlyChanged(g) /\ dbs'[g] = v
  <1>1. DOMAIN dbs = Stores /\ \A x \in Stores : dbs[x] \in Database(dbs[x].journal)
    BY DEF CompactionTypeOK
  <1>2. /\ DOMAIN dbs' = Stores
        /\ dbs'[g] = v
        /\ \A x \in Stores \ {g} : dbs'[x] = dbs[x]
    BY <1>1
  <1>. QED  BY <1>1, <1>2 DEF OnlyChanged

\* A run that is past its sweep has an open generation and one of its own.
LEMMA RunGenerations ==
    ASSUME CompactionInv
    PROVE  /\ serving # None => serving \in Stores
           /\ pc # Idle => serving \in Stores /\ serving # None
           /\ pc \notin {Idle, "sweep"} => run.gen \in Generations /\ run.gen \in Stores
           /\ run.gen \in Generations => run.gen # Initial
           /\ Initial \in Stores
           /\ pc \in Building \cup Complete \cup {"uncandidate"} => run.gen # serving
  BY CompactionAssumption DEF CompactionInv, CompactionTypeOK, RunSound, RunLocals, DrawnOnce, Stores,
     Idle, Building, Complete, Opening, CatchingUp

\* There are at most as many writes as the bound allows.
LEMMA LogBounded ==
    ASSUME CompactionInv
    PROVE  /\ log \in Seq(Writes)
           /\ Len(log) \in Nat
           /\ Len(log) <= MaxWrites
  <1>1. log \in Seq(Writes) /\ LogNumbered
    BY DEF CompactionInv, CompactionTypeOK
  <1>2. CASE Len(log) = 0
    BY <1>1, <1>2, CompactionAssumption
  <1>3. CASE Len(log) # 0
    <2>1. Len(log) \in 1..Len(log)
      BY <1>1, <1>3
    <2>2. log[Len(log)] = Len(log) /\ log[Len(log)] \in Writes
      BY <1>1, <2>1 DEF LogNumbered
    <2>. QED  BY <1>1, <2>2, CompactionAssumption DEF Writes
  <1>. QED  BY <1>1, <1>2, <1>3

\* As long as the session lasts, what the journal adds to the candidate up to
\* any generation is a prefix of the log.
LEMMA CatchUp ==
    ASSUME CompactionInv, pc \in CatchingUp, Source.session = run.gen,
           NEW to \in run.replayed..Source.gen
    PROVE  LET c == Candidate.data \o WriteSets(to)
           IN  /\ Journalled(to)
               /\ c \in Seq(Writes)
               /\ Len(c) = Len(Candidate.data) + (to - run.replayed)
               /\ Len(c) + (Source.gen - to) = Len(log)
               /\ \A i \in 1..Len(c) : c[i] = i
  <1>. DEFINE n == to - run.replayed
              ws == WriteSets(to)
              c == Candidate.data \o ws
              cd == Candidate.data
  <1>1. /\ run.gen \in Stores /\ serving \in Stores
        /\ run.replayed \in Nat /\ Source.gen \in Nat
        /\ cd \in Seq(Writes)
    <2>1. run.gen \in Stores /\ serving \in Stores
      BY RunGenerations DEF CatchingUp, Idle
    <2>2. CompactionTypeOK
      BY DEF CompactionInv
    <2>. QED  BY <2>1, <2>2, Fields DEF Source, Candidate, CompactionTypeOK
  <1>2. /\ Len(cd) + (Source.gen - run.replayed) = Len(log)
        /\ \A i \in 1..Len(cd) : cd[i] = i
        /\ \A i \in 1..(Source.gen - run.replayed) :
              /\ run.replayed + i \in DOMAIN Source.journal
              /\ Source.journal[run.replayed + i] = Len(cd) + i
    BY DEF CompactionInv, JournalSound, Base, Copied, CatchingUp
  <1>3. n \in Nat /\ n <= Source.gen - run.replayed
    BY <1>1
  <1>4. \A i \in 1..n : ws[i] = Len(cd) + i /\ ws[i] \in Writes
    <2>. SUFFICES ASSUME NEW i \in 1..n
                  PROVE  ws[i] = Len(cd) + i /\ ws[i] \in Writes
      OBVIOUS
    <2>1. ws[i] = Source.journal[run.replayed + i]
      BY DEF WriteSets
    <2>2. ws[i] = Len(cd) + i
      BY <1>1, <1>2, <1>3, <2>1
    <2>3. Len(cd) + i <= MaxWrites /\ Len(cd) + i >= 1
      <3>. HIDE DEF cd
      <3>1. Len(cd) \in Nat
        BY <1>1
      <3>2. i \in Nat /\ i >= 1 /\ i <= Source.gen - run.replayed
        BY <1>1, <1>3
      <3>3. Len(cd) + (Source.gen - run.replayed) = Len(log)
        BY <1>2
      <3>4. Len(log) <= MaxWrites /\ MaxWrites \in Nat /\ Len(log) \in Nat
        BY LogBounded, CompactionAssumption
      <3>. QED  BY <1>1, <3>1, <3>2, <3>3, <3>4
    <2>. QED  BY <1>1, <1>3, <2>2, <2>3, CompactionAssumption DEF Writes
  <1>5. ws \in Seq(Writes) /\ Len(ws) = n
    <2>1. ws = [i \in 1..n |-> ws[i]]
      BY DEF WriteSets
    <2>. HIDE DEF ws, n
    <2>. QED  BY <1>3, <1>4, <2>1
  <1>6. Journalled(to)
    <2>. SUFFICES ASSUME NEW k \in (run.replayed + 1)..to PROVE k \in DOMAIN Source.journal
      BY DEF Journalled
    <2>1. k - run.replayed \in 1..(Source.gen - run.replayed)
      BY <1>1
    <2>2. run.replayed + (k - run.replayed) = k
      BY <1>1
    <2>. QED  BY <1>2, <2>1, <2>2
  <1>. HIDE DEF ws, cd, n
  <1>7. /\ c \in Seq(Writes)
        /\ Len(c) = Len(cd) + n
        /\ \A i \in 1..Len(c) : c[i] = IF i <= Len(cd) THEN cd[i] ELSE ws[i - Len(cd)]
    <2>1. /\ cd \o ws \in Seq(Writes)
          /\ Len(cd \o ws) = Len(cd) + Len(ws)
          /\ \A i \in 1 .. Len(cd) + Len(ws) : (cd \o ws)[i] =
                IF i <= Len(cd) THEN cd[i] ELSE ws[i - Len(cd)]
      BY <1>1, <1>5, ConcatProperties, Zenon
    <2>2. c = cd \o ws
      BY DEF cd
    <2>. HIDE DEF c
    <2>3. Len(c) = Len(cd) + Len(ws)
      BY <2>1, <2>2
    <2>4. \A i \in 1..Len(c) : c[i] = IF i <= Len(cd) THEN cd[i] ELSE ws[i - Len(cd)]
      BY <2>1, <2>2, <2>3, Zenon
    <2>. QED  BY <1>5, <2>1, <2>2, <2>3, <2>4, Zenon
  <1>8. \A i \in 1..Len(c) : c[i] = i
    <2>. SUFFICES ASSUME NEW i \in 1..Len(c) PROVE c[i] = i
      OBVIOUS
    <2>. HIDE DEF c
    <2>1. Len(cd) \in Nat
      BY <1>1
    <2>2. CASE i <= Len(cd)
      BY <1>2, <1>7, <2>1, <2>2
    <2>3. CASE ~(i <= Len(cd))
      <3>1. i - Len(cd) \in 1..n
        BY <1>3, <1>7, <2>1, <2>3
      <3>. QED  BY <1>4, <1>7, <2>1, <2>3, <3>1
    <2>. QED  BY <2>2, <2>3
  <1>9. Len(c) + (Source.gen - to) = Len(log)
    <2>1. Len(c) = Len(cd) + (to - run.replayed)
      BY <1>7 DEF n
    <2>. HIDE DEF c
    <2>. QED  BY <1>1, <1>2, <2>1
  <1>. QED  BY <1>6, <1>7, <1>8, <1>9 DEF ws, cd, n

-----------------------------------------------------------------------------
(***************************************************************************)
(* What each action does to the databases.                                 *)
(***************************************************************************)

\* A write commits to the open generation, or not at all.
LEMMA Writing ==
    ASSUME CompactionInv, Write \/ WriteAmbiguous
    PROVE  /\ serving \in Stores /\ serving # None /\ ~failed /\ pc \notin Gated
           /\ UNCHANGED <<partial, disk, serving, served, pc, run, snapshot, drawn,
                          scratch, marked, plain, reclaim>>
           /\ failed' \in BOOLEAN
           /\ \/ UNCHANGED <<dbs, log>>
              \/ /\ log' = Append(log, Len(log) + 1)
                 /\ Len(log) + 1 \in Writes
                 /\ OnlyChanged(serving)
                 /\ dbs'[serving] = Committed(dbs[serving], Len(log) + 1)
  <1>1. /\ serving \in Stores /\ serving # None /\ ~failed /\ pc \notin Gated
        /\ UNCHANGED <<partial, disk, serving, served, pc, run, snapshot, drawn,
                       scratch, marked, plain, reclaim>>
        /\ failed' \in BOOLEAN
        /\ Len(log) < MaxWrites
        /\ \/ UNCHANGED <<dbs, log>>
           \/ /\ log' = Append(log, Len(log) + 1)
              /\ dbs' = [dbs EXCEPT ![serving] = Committed(dbs[serving], Len(log) + 1)]
    BY DEF Write, WriteAmbiguous, Unlocked, procVars, runVars, scratchVars, CompactionInv,
       CompactionTypeOK
  <1>2. Len(log) + 1 \in Writes
    BY <1>1, LogBounded, CompactionAssumption DEF Writes
  <1>3. CompactionTypeOK
    BY DEF CompactionInv
  <1>4. Committed(dbs[serving], Len(log) + 1)
            \in Database(Committed(dbs[serving], Len(log) + 1).journal)
    BY <1>1, <1>2, <1>3, Fields, CommittedFields
  <1>. QED  BY <1>1, <1>2, <1>3, <1>4, Updated

\* The journal of the open generation is emptied.
LEMMA Resetting ==
    ASSUME CompactionInv, JournalReset
    PROVE  /\ serving \in Stores /\ serving # None
           /\ OnlyChanged(serving)
           /\ dbs'[serving] = [dbs[serving] EXCEPT !.journal = <<>>]
  <1>1. CompactionTypeOK /\ serving \in Stores /\ serving # None
    BY RunGenerations DEF CompactionInv, JournalReset, Idle
  <1>2. [dbs[serving] EXCEPT !.journal = <<>>] \in
            Database([dbs[serving] EXCEPT !.journal = <<>>].journal)
    BY <1>1, Fields DEF Database
  <1>3. dbs' = [dbs EXCEPT ![serving] = [dbs[serving] EXCEPT !.journal = <<>>]]
    BY DEF JournalReset
  <1>. QED  BY <1>1, <1>2, <1>3, Updated

\* What opening a session does to the database.
LEMMA StartedFields ==
    ASSUME NEW d, d \in Database(d.journal), run.gen \in Generations
    PROVE  /\ SessionStarted(d) \in Database(SessionStarted(d).journal)
           /\ SessionStarted(d).gen = d.gen + 1
           /\ SessionStarted(d).data = d.data
           /\ SessionStarted(d).storage = d.storage
           /\ SessionStarted(d).required = TRUE
           /\ SessionStarted(d).session = run.gen
           /\ SessionStarted(d).journal = Put(d.journal, d.gen + 1, 0)
  <1>1. PICK j : j = Put(d.journal, d.gen + 1, 0)
    OBVIOUS
  <1>2. SessionStarted(d) =
          [gen |-> d.gen + 1, data |-> d.data, session |-> run.gen,
           storage |-> d.storage, required |-> TRUE, journal |-> j]
    <2>1. SessionStarted(d) = [d EXCEPT !.gen = d.gen + 1, !.required = TRUE,
                                        !.session = run.gen, !.journal = j]
      BY <1>1 DEF SessionStarted
    <2>. QED  BY <2>1 DEF Database
  <1>3. /\ d.gen + 1 \in Nat /\ d.data \in Seq(Writes) /\ d.storage \in Stores
    BY DEF Database
  <1>4. SessionStarted(d) \in Database(j)
    BY <1>2, <1>3 DEF Database
  <1>. QED  BY <1>1, <1>2, <1>4

\* A session opens in the open generation, or the run is given up.
LEMMA Starting ==
    ASSUME CompactionInv, StartSession
    PROVE  /\ serving \in Stores /\ serving # None /\ run.gen \in Generations
           /\ \/ pc' = Idle /\ UNCHANGED dbs
              \/ /\ pc' = "mkdir" /\ ~failed
                 /\ OnlyChanged(serving)
                 /\ dbs'[serving] = SessionStarted(dbs[serving])
  <1>1. CompactionTypeOK /\ serving \in Stores /\ serving # None /\ run.gen \in Generations
    BY RunGenerations DEF CompactionInv, StartSession, Idle
  <1>2. SessionStarted(dbs[serving]) \in Database(SessionStarted(dbs[serving]).journal)
    BY <1>1, Fields, StartedFields
  <1>3. \/ pc' = Idle /\ UNCHANGED dbs
        \/ /\ pc' = "mkdir" /\ ~failed
           /\ dbs' = [dbs EXCEPT ![serving] = SessionStarted(dbs[serving])]
    BY DEF StartSession, Goto
  <1>. QED  BY <1>1, <1>2, <1>3, Updated

\* The candidate is filled with the snapshot.
LEMMA Filling ==
    ASSUME CompactionInv, FillCandidate
    PROVE  /\ run.gen \in Stores /\ serving \in Stores /\ run.gen # serving
           /\ OnlyChanged(run.gen)
           /\ dbs'[run.gen] = snapshot
  <1>1. CompactionTypeOK /\ run.gen \in Stores /\ serving \in Stores /\ run.gen # serving
    BY RunGenerations DEF CompactionInv, FillCandidate, Idle, Building
  <1>2. dbs' = [dbs EXCEPT ![run.gen] = snapshot]
    BY DEF FillCandidate
  <1>3. snapshot \in Database(snapshot.journal)
    BY <1>1 DEF CompactionTypeOK
  <1>. QED  BY <1>1, <1>2, <1>3, Updated

\* The end of a session.
LEMMA EndedFields ==
    ASSUME NEW d, d \in Database(d.journal)
    PROVE  /\ SessionEnded(d) \in Database(d.journal)
           /\ SessionEnded(d).gen = d.gen + 1
           /\ SessionEnded(d).data = d.data
           /\ SessionEnded(d).storage = d.storage
           /\ SessionEnded(d).required = d.required
           /\ SessionEnded(d).session = None
           /\ SessionEnded(d).journal = d.journal
  <1>1. d.gen + 1 \in Nat
    BY DEF Database
  <1>2. SessionEnded(d) \in Database(d.journal)
    BY <1>1 DEF SessionEnded, Database
  <1>. QED  BY <1>2 DEF SessionEnded, Database

\* EndSession ends the session of the open generation or leaves it.
LEMMA Ending ==
    ASSUME CompactionInv, EndSession
    PROVE  /\ serving \in Stores /\ serving # None
           /\ \/ UNCHANGED dbs
              \/ OnlyChanged(serving) /\ dbs'[serving] = SessionEnded(dbs[serving])
  <1>1. CompactionTypeOK /\ serving \in Stores /\ serving # None
    BY RunGenerations DEF CompactionInv, EndSession, Idle
  <1>2. SessionEnded(dbs[serving]) \in Database(SessionEnded(dbs[serving]).journal)
    BY <1>1, Fields, EndedFields
  <1>3. \/ UNCHANGED dbs
        \/ dbs' = [dbs EXCEPT ![serving] = SessionEnded(dbs[serving])]
    BY DEF EndSession
  <1>. QED  BY <1>1, <1>2, <1>3, Updated

\* OpenBillingInbox opens the generation that the directory leads to.
LEMMA Reopening ==
    ASSUME CompactionInv, Open
    PROVE  /\ Target(Visible) \in Stores
           /\ OnlyChanged(Target(Visible))
           /\ \/ dbs'[Target(Visible)] = dbs[Target(Visible)]
              \/ dbs'[Target(Visible)] = SessionEnded(dbs[Target(Visible)])
  <1>1. CompactionTypeOK
    BY DEF CompactionInv
  <1>2. Target(Visible) \in Stores
    <2>1. Visible \in Directory
      BY <1>1, VisibleIsLeft
    <2>. QED  BY <2>1 DEF Directory, Manifest, Target, Stores
  <1>3. PICK t : t = Target(Visible)
    OBVIOUS
  <1>4. dbs' = [dbs EXCEPT ![t] = IF dbs[t].session = None THEN dbs[t]
                                  ELSE SessionEnded(dbs[t])]
    BY <1>3 DEF Open
  <1>5. PICK v : v = IF dbs[t].session = None THEN dbs[t] ELSE SessionEnded(dbs[t])
    OBVIOUS
  <1>6. v \in Database(v.journal)
    BY <1>1, <1>2, <1>3, <1>5, Fields, EndedFields
  <1>7. OnlyChanged(t) /\ dbs'[t] = v
    BY <1>1, <1>2, <1>3, <1>4, <1>5, <1>6, Updated
  <1>. QED  BY <1>2, <1>3, <1>5, <1>7

\* The candidate, brought up to a generation that the journal reaches.
LEMMA ReplayedFields ==
    ASSUME CompactionInv, pc \in CatchingUp, Source.session = run.gen,
           NEW to \in run.replayed..Source.gen
    PROVE  /\ Replayed(to) \in Database(Candidate.journal)
           /\ Replayed(to).gen = to
           /\ Replayed(to).data = Candidate.data \o WriteSets(to)
           /\ Replayed(to).session = Candidate.session
           /\ Replayed(to).storage = Candidate.storage
           /\ Replayed(to).required = Candidate.required
           /\ Replayed(to).journal = Candidate.journal
  <1>1. CompactionTypeOK /\ run.gen \in Stores /\ serving \in Stores
    BY RunGenerations DEF CompactionInv, CatchingUp, Idle
  <1>2. PICK c : c = Candidate.data \o WriteSets(to)
    OBVIOUS
  <1>3. c \in Seq(Writes)
    BY <1>2, CatchUp
  <1>4. Candidate \in Database(Candidate.journal) /\ Source.gen \in Nat /\ run.replayed \in Nat
    BY <1>1, Fields DEF Candidate, Source, CompactionTypeOK
  <1>5. to \in Nat
    BY <1>4
  <1>6. PICK d : d = Candidate
    OBVIOUS
  <1>7. Replayed(to) = [d EXCEPT !.gen = to, !.data = c]
    BY <1>2, <1>6 DEF Replayed
  <1>8. d \in Database(d.journal)
    BY <1>4, <1>6
  <1>9. /\ Replayed(to) \in Database(d.journal)
        /\ Replayed(to).gen = to /\ Replayed(to).data = c
        /\ Replayed(to).session = d.session /\ Replayed(to).storage = d.storage
        /\ Replayed(to).required = d.required /\ Replayed(to).journal = d.journal
    BY <1>3, <1>5, <1>7, <1>8 DEF Database
  <1>. QED  BY <1>2, <1>6, <1>9

\* A batch is replayed as far as the journal goes, or the run unwinds.
LEMMA Replaying ==
    ASSUME CompactionInv, Replay
    PROVE  /\ run.gen \in Stores /\ serving \in Stores /\ run.gen # serving
           /\ \/ pc' = "uncandidate" /\ UNCHANGED <<dbs, run>>
              \/ \E end \in run.replayed..Source.gen :
                    /\ Source.session = run.gen
                    /\ pc' \in {"sync", "replay"}
                    /\ run' = [run EXCEPT !.replayed = end]
                    /\ OnlyChanged(run.gen)
                    /\ dbs'[run.gen] = Replayed(end)
  <1>1. /\ CompactionTypeOK /\ run.gen \in Stores /\ serving \in Stores /\ run.gen # serving
        /\ pc \in CatchingUp
    BY RunGenerations DEF CompactionInv, Replay, Idle, Building, CatchingUp
  <1>2. Source.gen \in Nat /\ run.replayed \in Nat
    BY <1>1, Fields DEF Source, CompactionTypeOK
  <1>3. run.replayed <= Source.gen
    BY <1>1 DEF CompactionInv, JournalSound, Base, CatchingUp
  <1>4. PICK end : end = IF Source.gen - run.replayed > ReplayBatch
                         THEN run.replayed + ReplayBatch ELSE Source.gen
    OBVIOUS
  <1>5. end \in run.replayed..Source.gen
    BY <1>2, <1>3, <1>4, CompactionAssumption
  <1>6. CASE Source.session # run.gen \/ ~Journalled(end)
    BY <1>1, <1>4, <1>6 DEF Replay, Unwind, Goto
  <1>7. CASE ~(Source.session # run.gen \/ ~Journalled(end))
    <2>1. /\ dbs' = [dbs EXCEPT ![run.gen] = Replayed(end)]
          /\ run' = [run EXCEPT !.replayed = end]
          /\ pc' \in {"sync", "replay"}
      BY <1>4, <1>7 DEF Replay, Goto
    <2>2. Replayed(end) \in Database(Replayed(end).journal)
      BY <1>1, <1>5, <1>7, ReplayedFields
    <2>3. OnlyChanged(run.gen) /\ dbs'[run.gen] = Replayed(end)
      BY <1>1, <2>1, <2>2, Updated
    <2>. QED  BY <1>1, <1>5, <1>7, <2>1, <2>3
  <1>. QED  BY <1>6, <1>7

\* The candidate once the gate has ended its session.
Cut == [Replayed(Source.gen) EXCEPT !.session = None, !.storage = run.gen]

\* The gate goes on only while the session lasts, and then the candidate holds
\* every write.
LEMMA Gating ==
    ASSUME CompactionInv, Gate
    PROVE  /\ run.gen \in Stores /\ serving \in Stores /\ run.gen # serving
           /\ run' = run
           /\ \/ pc' = "uncandidate" /\ UNCHANGED dbs
              \/ /\ pc' = "publish"
                 /\ ~failed
                 /\ OnlyChanged(run.gen)
                 /\ dbs'[run.gen].gen = Source.gen
                 /\ dbs'[run.gen].data = log
                 /\ dbs'[run.gen].storage = run.gen
  <1>1. /\ CompactionTypeOK /\ run.gen \in Stores /\ serving \in Stores /\ run.gen # serving
        /\ pc \in CatchingUp
    BY RunGenerations DEF CompactionInv, Gate, Idle, Building, CatchingUp
  <1>2. Source.gen \in Nat /\ run.replayed \in Nat
    BY <1>1, Fields DEF Source, CompactionTypeOK
  <1>3. Source.gen \in run.replayed..Source.gen
    <2>1. run.replayed <= Source.gen
      BY <1>1 DEF CompactionInv, JournalSound, Base, CatchingUp
    <2>. QED  BY <1>2, <2>1
  <1>4. run' = run
    BY DEF Gate, Unwind
  <1>5. CASE \/ failed
             \/ Source.gen - run.replayed > GateLag
             \/ ~Journalled(GateReplay)
    BY <1>1, <1>4, <1>5 DEF Gate, Unwind, Goto
  <1>6. CASE ~(\/ failed
               \/ Source.gen - run.replayed > GateLag
               \/ ~Journalled(GateReplay))
    <2>1. /\ dbs' = [dbs EXCEPT ![run.gen] = Cut]
          /\ pc' = "publish"
          /\ ~failed
          /\ Journalled(Source.gen)
      BY <1>6 DEF Gate, Goto, GateReplay, Cut
    <2>2. Source.session = run.gen
      <3>. SUFFICES ASSUME Source.session # run.gen PROVE FALSE
        OBVIOUS
      <3>1. PICK i \in 1..(Source.gen - run.replayed) :
                run.replayed + i \notin DOMAIN Source.journal
        BY <1>1 DEF CompactionInv, JournalSound, Base, CatchingUp, Gate
      <3>2. run.replayed + i \in (run.replayed + 1)..Source.gen
        BY <1>2
      <3>. QED  BY <2>1, <3>1, <3>2 DEF Journalled
    <2>3. PICK r : r = Replayed(Source.gen)
      OBVIOUS
    <2>4. /\ r \in Database(r.journal) /\ r.gen = Source.gen
          /\ r.data = Candidate.data \o WriteSets(Source.gen)
      BY <1>1, <1>3, <2>2, <2>3, ReplayedFields
    <2>5. r.data = log
      <3>1. PICK c : c = Candidate.data \o WriteSets(Source.gen)
        OBVIOUS
      <3>2. /\ c \in Seq(Writes)
            /\ Len(c) + (Source.gen - Source.gen) = Len(log)
            /\ \A i \in 1..Len(c) : c[i] = i
        BY <1>1, <1>3, <2>2, <3>1, CatchUp
      <3>3. log \in Seq(Writes) /\ \A i \in 1..Len(log) : log[i] = i
        BY DEF CompactionInv, LogNumbered, CompactionTypeOK
      <3>4. Len(c) = Len(log)
        BY <1>2, <3>2, <3>3
      <3>5. \A i \in 1..Len(c) : c[i] = log[i]
        BY <3>2, <3>3, <3>4
      <3>6. c = log
        BY <3>2, <3>3, <3>4, <3>5, SeqEqual, Zenon
      <3>. QED  BY <2>4, <3>1, <3>6
    <2>6. Cut = [r EXCEPT !.session = None, !.storage = run.gen]
      BY <2>3 DEF Cut
    <2>7. /\ Cut.gen = r.gen /\ Cut.data = r.data /\ Cut.storage = run.gen
          /\ Cut \in Database(Cut.journal)
      BY <1>1, <2>4, <2>6 DEF Database
    <2>8. OnlyChanged(run.gen) /\ dbs'[run.gen] = Cut
      BY <1>1, <2>1, <2>7, Updated
    <2>. QED  BY <1>1, <1>4, <2>1, <2>4, <2>5, <2>7, <2>8
  <1>. QED  BY <1>5, <1>6

-----------------------------------------------------------------------------
(***************************************************************************)
(* What each action does to the directory.                                 *)
(***************************************************************************)

\* The visible directory becomes d; whether or not that is synced, a crash
\* leaves d or a state that it could leave before.
Became(d) ==
    /\ disk' \in Seq(Directory) \ {<<>>}
    /\ Visible' = d
    /\ d \in Left'
    /\ Left' \subseteq Left \cup {d}

\* Both ways to change the directory.
LEMMA Changed ==
    ASSUME CompactionTypeOK, NEW d \in Directory,
           disk' = Synced(d) \/ disk' = Append(disk, d)
    PROVE  Became(d)
  <1>1. CASE disk' = Synced(d)
    BY <1>1, Flushed DEF Became
  <1>2. CASE disk' = Append(disk, d)
    BY <1>2, Renamed DEF Became
  <1>. QED  BY <1>1, <1>2

\* The directory without the file of g.
Without(g) == [Visible EXCEPT !.files = @ \ {g}]

\* Its fields.
LEMMA WithoutFields ==
    ASSUME CompactionTypeOK, NEW g
    PROVE  /\ Without(g) \in Directory
           /\ Without(g).manifest = Visible.manifest
           /\ Without(g).files = Visible.files \ {g}
           /\ Target(Without(g)) = Target(Visible)
  <1>1. Visible \in Directory
    BY VisibleIsLeft
  <1>2. PICK v : v = Visible
    OBVIOUS
  <1>3. Without(g) = [v EXCEPT !.files = v.files \ {g}]
    BY <1>2 DEF Without
  <1>. QED  BY <1>1, <1>2, <1>3 DEF Directory, Target

\* While a run sweeps, the directory leads to the open generation.
LEMMA SweepsBehindManifest ==
    ASSUME CompactionInv, pc = "sweep"
    PROVE  Target(Visible) = serving
  <1>1. Visible \in Left
    BY VisibleIsLeft DEF CompactionInv
  <1>2. serving # None
    BY DEF CompactionInv, RunSound, RunLocals, Idle
  <1>3. Recoverable(Visible)
    BY <1>2 DEF CompactionInv, ManifestSound
  <1>4. ~run.attempted
    BY DEF CompactionInv, RunSound, RunLocals, RunUnnamed
  <1>. QED  BY <1>1, <1>2, <1>3, <1>4 DEF CompactionInv, RecoverSound

\* A sweep removes the file of another generation than the active one.
LEMMA Sweeping ==
    ASSUME CompactionInv, NEW g \in scratch, SweepCandidate(g)
    PROVE  \/ pc' = Idle /\ UNCHANGED <<run, disk>>
           \/ /\ pc' = "unscratch"
              /\ run' = [NoRun EXCEPT !.gen = g, !.sweeping = TRUE]
              /\ \/ UNCHANGED disk /\ (g \notin Visible.files \/ g = serving)
                 \/ Became(Without(g)) /\ g # serving /\ g # Target(Visible)
  <1>1. CompactionTypeOK /\ pc = "sweep"
    BY DEF CompactionInv, SweepCandidate
  <1>2. /\ Without(g) \in Directory
        /\ Target(Visible) = serving
    BY <1>1, WithoutFields, SweepsBehindManifest
  <1>3. \/ pc' = Idle /\ UNCHANGED <<run, disk>>
        \/ /\ pc' = "unscratch"
           /\ run' = [NoRun EXCEPT !.gen = g, !.sweeping = TRUE]
           /\ \/ UNCHANGED disk /\ (g \notin Visible.files \/ g = serving)
              \/ disk' = Synced(Without(g)) /\ g # serving
    BY DEF SweepCandidate, Goto, Without
  <1>4. ASSUME disk' = Synced(Without(g)) PROVE Became(Without(g))
    BY <1>1, <1>2, <1>4, Changed
  <1>. QED  BY <1>2, <1>3, <1>4

\* So does a sweep that fails.
LEMMA SweepFails ==
    ASSUME CompactionInv, SweepError
    PROVE  /\ UNCHANGED run /\ pc' = Idle
           /\ \/ UNCHANGED disk
              \/ \E g \in marked : Became(Without(g)) /\ g # serving /\ g # Target(Visible)
  <1>1. CompactionTypeOK /\ pc = "sweep"
    BY DEF CompactionInv, SweepError
  <1>2. \A g : Without(g) \in Directory
    BY <1>1, WithoutFields
  <1>3. Target(Visible) = serving
    BY <1>1, SweepsBehindManifest
  <1>4. /\ UNCHANGED run /\ pc' = Idle
        /\ \/ UNCHANGED disk
           \/ \E g \in marked : disk' = Append(disk, Without(g)) /\ g # serving
    BY DEF SweepError, Goto, Without
  <1>5. ASSUME NEW g \in marked, disk' = Append(disk, Without(g))
        PROVE  Became(Without(g))
    BY <1>1, <1>2, <1>5, Changed
  <1>. QED  BY <1>3, <1>4, <1>5

\* Only a candidate that no manifest may name is unlinked.
LEMMA Dropping ==
    ASSUME CompactionInv, DropCandidate
    PROVE  /\ pc' = "unscratch"
           /\ \/ run.attempted /\ UNCHANGED disk /\ run' = [run EXCEPT !.retained = TRUE]
              \/ /\ UNCHANGED run
                 /\ ~run.attempted
                 /\ Became(Without(run.gen))
                 /\ run.gen # serving /\ run.gen # Target(Visible)
  <1>1. CompactionTypeOK /\ pc = "uncandidate"
    BY DEF CompactionInv, DropCandidate
  <1>2. Without(run.gen) \in Directory /\ Visible \in Left
    BY <1>1, WithoutFields, VisibleIsLeft
  <1>3. ~run.attempted => run.gen # serving /\ run.gen # Target(Visible)
    BY <1>1, <1>2, RunGenerations DEF CompactionInv, RunSound, RunLocals, RunUnnamed
  <1>4. /\ pc' = "unscratch"
        /\ \/ run.attempted /\ UNCHANGED disk /\ run' = [run EXCEPT !.retained = TRUE]
           \/ ~run.attempted /\ UNCHANGED run /\ disk' = Synced(Without(run.gen))
    BY DEF DropCandidate, Goto, Without
  <1>. QED  BY <1>1, <1>2, <1>3, <1>4, Changed

\* The same for an unlinking that fails.
LEMMA DropFails ==
    ASSUME CompactionInv, DropCandidateError
    PROVE  /\ pc' = "unscratch"
           /\ run' = [run EXCEPT !.retained = TRUE]
           /\ \/ UNCHANGED disk
              \/ /\ Became(Without(run.gen))
                 /\ run.gen # serving /\ run.gen # Target(Visible)
  <1>1. CompactionTypeOK /\ pc = "uncandidate"
    BY DEF CompactionInv, DropCandidateError
  <1>2. Without(run.gen) \in Directory /\ Visible \in Left
    BY <1>1, WithoutFields, VisibleIsLeft
  <1>3. ~run.attempted => run.gen # serving /\ run.gen # Target(Visible)
    BY <1>1, <1>2, RunGenerations DEF CompactionInv, RunSound, RunLocals, RunUnnamed
  <1>4. /\ pc' = "unscratch"
        /\ run' = [run EXCEPT !.retained = TRUE]
        /\ \/ UNCHANGED disk
           \/ ~run.attempted /\ disk' = Append(disk, Without(run.gen))
    BY DEF DropCandidateError, Goto, Without
  <1>. QED  BY <1>1, <1>2, <1>3, <1>4, Changed

\* A generation that is reclaimed is not the one that the directory leads to.
LEMMA Reclaiming ==
    ASSUME CompactionInv, NEW g \in reclaim, ReclaimGeneration(g)
    PROVE  /\ Became(Without(g))
           /\ g # serving /\ g # Target(Visible)
  <1>1. CompactionTypeOK /\ ReclaimSound
    BY DEF CompactionInv
  <1>2. Without(g) \in Directory
    BY <1>1, WithoutFields
  <1>3. disk' = Synced(Without(g)) \/ disk' = Append(disk, Without(g))
    BY DEF ReclaimGeneration, Without
  <1>. QED  BY <1>1, <1>2, <1>3, Changed DEF ReclaimSound

\* The steps that sync the directory make what is visible durable.
LEMMA Syncing ==
    ASSUME CompactionInv, BootstrapSync \/ SyncCandidate \/ PublishSync \/ Open
    PROVE  Became(Visible) /\ Left' = {Visible}
  <1>1. CompactionTypeOK
    BY DEF CompactionInv
  <1>2. Visible \in Directory
    BY <1>1, VisibleIsLeft
  <1>3. disk' = Synced(Visible)
    BY DEF BootstrapSync, SyncCandidate, PublishSync, Open
  <1>. QED  BY <1>1, <1>2, <1>3, Changed, Flushed

\* The directory with the first manifest.
Anchored == [Visible EXCEPT !.manifest = InitialManifest]

\* A store without a manifest gets one for the anchor.
LEMMA Bootstrapping ==
    ASSUME CompactionInv, BootstrapRename
    PROVE  \/ pc' = "reset" /\ Visible.manifest # None /\ UNCHANGED disk
           \/ /\ pc' = "bootsync" /\ Visible.manifest = None
              /\ Became(Anchored)
              /\ Anchored.manifest = InitialManifest
              /\ Anchored.files = Visible.files
              /\ Target(Anchored) = Initial
              /\ Anchored \in Directory
  <1>1. CompactionTypeOK
    BY DEF CompactionInv
  <1>2. Visible \in Directory
    BY <1>1, VisibleIsLeft
  <1>3. InitialManifest \in Manifest /\ InitialManifest # None
    <2>1. InitialManifest \in Manifest
      BY DEF InitialManifest, Manifest, Stores
    <2>. QED  BY <2>1, CompactionAssumption
  <1>4. PICK v : v = Visible
    OBVIOUS
  <1>5. Anchored = [v EXCEPT !.manifest = InitialManifest]
    BY <1>4 DEF Anchored
  <1>6. /\ Anchored \in Directory
        /\ Anchored.manifest = InitialManifest
        /\ Anchored.files = Visible.files
    BY <1>2, <1>3, <1>4, <1>5 DEF Directory
  <1>7. Target(Anchored) = Initial
    BY <1>3, <1>6 DEF Target, InitialManifest
  <1>8. \/ pc' = "reset" /\ Visible.manifest # None /\ UNCHANGED disk
        \/ pc' = "bootsync" /\ Visible.manifest = None /\ disk' = Append(disk, Anchored)
    BY DEF BootstrapRename, Goto, Anchored
  <1>. QED  BY <1>1, <1>6, <1>7, <1>8, Changed

\* The directory with the file of the candidate.
With == [Visible EXCEPT !.files = @ \cup {run.gen}]

\* The file of the candidate appears, with no manifest that names it.
LEMMA Creating ==
    ASSUME CompactionInv, CreateCandidate
    PROVE  /\ Became(With)
           /\ With \in Directory
           /\ With.manifest = Visible.manifest
           /\ With.files = Visible.files \cup {run.gen}
           /\ Target(With) = Target(Visible)
  <1>1. CompactionTypeOK /\ run.gen \in Stores
    BY RunGenerations DEF CompactionInv, CreateCandidate, Idle
  <1>2. PICK v : v = Visible
    OBVIOUS
  <1>3. v \in Directory
    BY <1>1, <1>2, VisibleIsLeft
  <1>4. With = [v EXCEPT !.files = v.files \cup {run.gen}]
    BY <1>2 DEF With
  <1>5. /\ With \in Directory /\ With.manifest = v.manifest
        /\ With.files = v.files \cup {run.gen}
    BY <1>1, <1>3, <1>4 DEF Directory
  <1>6. disk' = Append(disk, With)
    BY DEF CreateCandidate, With
  <1>. QED  BY <1>1, <1>2, <1>5, <1>6, Changed DEF Target

\* The directory with the manifest of the candidate.
Switched == [Visible EXCEPT !.manifest = NewManifest]

\* The new manifest leads to the candidate.
LEMMA Publishing ==
    ASSUME CompactionInv, Publish
    PROVE  /\ Became(Switched)
           /\ Switched \in Directory
           /\ Switched.files = Visible.files
           /\ Switched.manifest # None
           /\ Switched.manifest.file = run.gen
           /\ Switched.manifest.cutover = dbs[run.gen].gen
           /\ Target(Switched) = run.gen
  <1>1. CompactionTypeOK /\ run.gen \in Stores
    BY RunGenerations DEF CompactionInv, Publish, Idle
  <1>2. PICK v : v = Visible
    OBVIOUS
  <1>3. v \in Directory
    BY <1>1, <1>2, VisibleIsLeft
  <1>4. /\ NewManifest \in Manifest
        /\ NewManifest.file = run.gen /\ NewManifest.cutover = dbs[run.gen].gen
    BY <1>1, Fields DEF NewManifest, Manifest, Candidate
  <1>5. NewManifest # None
    BY <1>4, CompactionAssumption
  <1>6. Switched = [v EXCEPT !.manifest = NewManifest]
    BY <1>2 DEF Switched
  <1>7. /\ Switched \in Directory /\ Switched.manifest = NewManifest
        /\ Switched.files = v.files
    BY <1>3, <1>4, <1>6 DEF Directory
  <1>8. disk' = Append(disk, Switched)
    BY DEF Publish, Switched
  <1>. QED  BY <1>1, <1>2, <1>4, <1>5, <1>7, <1>8, Changed DEF Target

\* A crash leaves one of the states.
LEMMA Crashing ==
    ASSUME CompactionInv, Crash
    PROVE  \E d \in Left : Became(d) /\ Left' = {d}
  <1>1. CompactionTypeOK
    BY DEF CompactionInv
  <1>2. PICK d \in Left : disk' = Synced(d)
    BY DEF Crash, Left
  <1>3. d \in Directory
    BY <1>1, VisibleIsLeft
  <1>. QED  BY <1>1, <1>2, <1>3, Changed, Flushed

-----------------------------------------------------------------------------
(***************************************************************************)
(* Which actions change what.                                              *)
(***************************************************************************)

\* Writes and the steps of a session change databases.
LEMMA DbsFrame ==
    ASSUME CompactionNext
    PROVE  \/ UNCHANGED dbs
           \/ Write \/ WriteAmbiguous \/ JournalReset \/ StartSession \/ FillCandidate
           \/ Replay \/ Gate \/ EndSession \/ Open
  BY DEF CompactionNext, Sweep, Begin, Copy, Cutover, Deferred, CompactOnline,
     SweepCandidate, SweepError, Swept, GiveUp, BootstrapRename, BootstrapSync,
     BootstrapError, SessionError, MakeScratch, MarkScratch, TakeSnapshot,
     CreateCandidate, SyncCandidate, Publish, PublishError, PublishSync,
     PublishSyncError, Swap, Cancel, DropCandidate, DropCandidateError,
     RemoveSnapshot, RemoveMarker, RemoveScratch, ScratchError, ReclaimGeneration, Crash

\* Files and manifests come and go in a few steps.
LEMMA DiskFrame ==
    ASSUME CompactionNext
    PROVE  \/ UNCHANGED disk
           \/ (\E g \in scratch : SweepCandidate(g)) \/ SweepError \/ DropCandidate
           \/ DropCandidateError \/ (\E g \in reclaim : ReclaimGeneration(g))
           \/ BootstrapSync \/ SyncCandidate \/ PublishSync \/ Open
           \/ BootstrapRename \/ CreateCandidate \/ Publish \/ Crash
  BY DEF CompactionNext, Sweep, Begin, Copy, Cutover, Deferred, Write, WriteAmbiguous,
     CompactOnline, Swept, GiveUp, BootstrapError, JournalReset, StartSession,
     SessionError, MakeScratch, MarkScratch, TakeSnapshot, FillCandidate, Replay, Gate,
     PublishError, PublishSyncError, Swap, Cancel, RemoveSnapshot, RemoveMarker,
     RemoveScratch, ScratchError, EndSession

\* The process starts, stops and changes its handle.
LEMMA ServingFrame ==
    ASSUME CompactionNext
    PROVE  UNCHANGED <<serving, served>> \/ Swap \/ Crash \/ Open
  BY DEF CompactionNext, Sweep, Begin, Copy, Cutover, Deferred, procVars, Goto, Write,
     WriteAmbiguous, CompactOnline, SweepCandidate, SweepError, Swept, GiveUp,
     BootstrapRename, BootstrapSync, BootstrapError, JournalReset, StartSession,
     SessionError, MakeScratch, MarkScratch, TakeSnapshot, CreateCandidate,
     FillCandidate, Replay, SyncCandidate, Unwind, Gate, Publish, PublishError,
     PublishSync, PublishSyncError, Cancel, DropCandidate, DropCandidateError,
     RemoveSnapshot, RemoveMarker, RemoveScratch, ScratchError, EndSession,
     ReclaimGeneration

\* Only writes append to the log.
LEMMA LogFrame ==
    ASSUME CompactionNext
    PROVE  UNCHANGED log \/ Write \/ WriteAmbiguous
  BY DEF CompactionNext, Sweep, Begin, Copy, Cutover, Deferred, Goto, CompactOnline,
     SweepCandidate, SweepError, Swept, GiveUp, BootstrapRename, BootstrapSync,
     BootstrapError, JournalReset, StartSession, SessionError, MakeScratch, MarkScratch,
     TakeSnapshot, CreateCandidate, FillCandidate, Replay, SyncCandidate, Unwind, Gate,
     Publish, PublishError, PublishSync, PublishSyncError, Swap, Cancel, DropCandidate,
     DropCandidateError, RemoveSnapshot, RemoveMarker, RemoveScratch, ScratchError,
     EndSession, ReclaimGeneration, Crash, Open

-----------------------------------------------------------------------------
(***************************************************************************)
(* Types.                                                                  *)
(***************************************************************************)

\* Databases keep their types.
LEMMA DbsTyped ==
    ASSUME CompactionInv, CompactionNext
    PROVE  /\ DOMAIN dbs' = Stores
           /\ \A g \in Stores : dbs'[g] \in Database(dbs'[g].journal)
  <1>1. CASE UNCHANGED dbs
    BY <1>1 DEF CompactionInv, CompactionTypeOK
  <1>2. CASE Write \/ WriteAmbiguous
    BY <1>1, <1>2, Writing DEF OnlyChanged
  <1>3. CASE JournalReset
    BY <1>3, Resetting DEF OnlyChanged
  <1>4. CASE StartSession
    BY <1>1, <1>4, Starting DEF OnlyChanged
  <1>5. CASE FillCandidate
    BY <1>5, Filling DEF OnlyChanged
  <1>6. CASE Replay
    BY <1>1, <1>6, Replaying DEF OnlyChanged
  <1>7. CASE Gate
    BY <1>1, <1>7, Gating DEF OnlyChanged
  <1>8. CASE EndSession
    BY <1>1, <1>8, Ending DEF OnlyChanged
  <1>9. CASE Open
    BY <1>9, Reopening DEF OnlyChanged
  <1>. QED  BY <1>1, <1>2, <1>3, <1>4, <1>5, <1>6, <1>7, <1>8, <1>9, DbsFrame

\* Directories keep their types.
LEMMA DiskTyped ==
    ASSUME CompactionInv, CompactionNext
    PROVE  disk' \in Seq(Directory) \ {<<>>}
  <1>1. CASE UNCHANGED disk
    BY <1>1 DEF CompactionInv, CompactionTypeOK
  <1>2. CASE \E g \in scratch : SweepCandidate(g)
    BY <1>1, <1>2, Sweeping DEF Became
  <1>3. CASE SweepError
    BY <1>1, <1>3, SweepFails DEF Became
  <1>4. CASE DropCandidate
    BY <1>1, <1>4, Dropping DEF Became
  <1>5. CASE DropCandidateError
    BY <1>1, <1>5, DropFails DEF Became
  <1>6. CASE \E g \in reclaim : ReclaimGeneration(g)
    BY <1>6, Reclaiming DEF Became
  <1>7. CASE BootstrapSync \/ SyncCandidate \/ PublishSync \/ Open
    BY <1>7, Syncing DEF Became
  <1>8. CASE BootstrapRename
    BY <1>1, <1>8, Bootstrapping DEF Became
  <1>9. CASE CreateCandidate
    BY <1>9, Creating DEF Became
  <1>10. CASE Publish
    BY <1>10, Publishing DEF Became
  <1>11. CASE Crash
    BY <1>11, Crashing DEF Became
  <1>. QED  BY <1>1, <1>2, <1>3, <1>4, <1>5, <1>6, <1>7, <1>8, <1>9, <1>10, <1>11, DiskFrame

\* Writes are appended in order.
LEMMA LogStep ==
    ASSUME CompactionInv, CompactionNext
    PROVE  log' \in Seq(Writes) /\ LogNumbered'
  <1>1. log \in Seq(Writes) /\ LogNumbered
    BY DEF CompactionInv, CompactionTypeOK
  <1>2. CASE UNCHANGED log
    BY <1>1, <1>2 DEF LogNumbered
  <1>3. CASE log' = Append(log, Len(log) + 1) /\ Len(log) + 1 \in Writes
    <2>1. /\ log' \in Seq(Writes)
          /\ Len(log') = Len(log) + 1
          /\ \A i \in 1..Len(log) : log'[i] = log[i]
          /\ log'[Len(log) + 1] = Len(log) + 1
      BY <1>1, <1>3
    <2>. QED  BY <1>1, <2>1 DEF LogNumbered
  <1>. QED  BY <1>2, <1>3, LogFrame, Writing

\* The locals of a run.
Locals ==
    [gen : Generations \cup {None}, replayed : Nat, attempted : BOOLEAN,
     switched : BOOLEAN, retained : BOOLEAN, sweeping : BOOLEAN]

\* Those of a run that starts, or sweeps.
LEMMA LocalsTyped ==
    /\ NoRun \in Locals
    /\ \A g \in Generations : /\ [NoRun EXCEPT !.gen = g] \in Locals
                              /\ [NoRun EXCEPT !.gen = g, !.sweeping = TRUE] \in Locals
    /\ \A r \in Locals : /\ [r EXCEPT !.attempted = TRUE] \in Locals
                         /\ [r EXCEPT !.retained = TRUE] \in Locals
                         /\ [r EXCEPT !.switched = TRUE] \in Locals
                         /\ \A n \in Nat : [r EXCEPT !.replayed = n] \in Locals
  BY DEF Locals, NoRun

\* The faults stay in their bound.
LEMMA FaultsFrame ==
    ASSUME CompactionNext
    PROVE  UNCHANGED faults \/ Fault
  BY DEF CompactionNext, Sweep, Begin, Copy, Cutover, Deferred, Write,
     WriteAmbiguous, CompactOnline, SweepCandidate, SweepError, Swept,
     BootstrapRename, BootstrapSync, BootstrapError, JournalReset, StartSession,
     SessionError, MakeScratch, MarkScratch, TakeSnapshot, CreateCandidate,
     FillCandidate, Replay, SyncCandidate, Gate, Publish, PublishError,
     PublishSync, PublishSyncError, Swap, Cancel, DropCandidate, DropCandidateError,
     RemoveSnapshot, RemoveMarker, RemoveScratch, ScratchError, EndSession,
     ReclaimGeneration, Crash, Open

\* All but the databases, the directory and the log.
OthersTyped ==
    /\ snapshot \in Database(snapshot.journal)
    /\ partial \subseteq Generations
    /\ serving \in Stores \cup {None}
    /\ failed \in BOOLEAN
    /\ served \subseteq Stores
    /\ pc \in Labels
    /\ run \in Locals
    /\ drawn \subseteq Generations

\* They keep their types.
LEMMA OthersStep ==
    ASSUME CompactionInv, CompactionNext
    PROVE  OthersTyped'
  <1>1. OthersTyped
    BY DEF CompactionInv, CompactionTypeOK, OthersTyped, Locals
  <1>3. CompactionTypeOK
    BY DEF CompactionInv
  <1>2. \A a, b \in Nat : a..b \subseteq Nat
    OBVIOUS
  <1>. USE <1>1, LocalsTyped DEF OthersTyped, Labels, Idle
  <1>4. CASE Write \/ WriteAmbiguous
    BY <1>4, Writing DEF Write, WriteAmbiguous
  <1>5. CASE CompactOnline \/ Swept \/ SweepError
    BY <1>5 DEF CompactOnline, Swept, SweepError, Goto, procVars
  <1>6. CASE \E g \in scratch : SweepCandidate(g)
    <2>1. PICK g \in scratch : SweepCandidate(g)
      BY <1>6
    <2>2. g \in Generations
      BY DEF CompactionInv, DrawnOnce
    <2>. QED  BY <2>1, <2>2 DEF SweepCandidate, Goto, procVars
  <1>7. CASE Begin
    BY <1>7 DEF Begin, BootstrapRename, BootstrapSync, BootstrapError, JournalReset,
       StartSession, SessionError, GiveUp, Goto, procVars
  <1>8. CASE MakeScratch \/ MarkScratch \/ SyncCandidate
    BY <1>8 DEF MakeScratch, MarkScratch, SyncCandidate, Goto, procVars
  <1>9. CASE TakeSnapshot
    <2>1. serving \in Stores
      BY <1>9, RunGenerations DEF TakeSnapshot
    <2>2. snapshot' \in Database(snapshot'.journal)
      BY <1>3, <1>9, <2>1, Fields DEF TakeSnapshot
    <2>. QED  BY <1>9, <2>2 DEF TakeSnapshot, procVars
  <1>10. CASE CreateCandidate
    <2>1. run.gen \in Generations
      BY <1>10, RunGenerations DEF CreateCandidate
    <2>. QED  BY <1>10, <2>1 DEF CreateCandidate, Goto, procVars
  <1>11. CASE FillCandidate
    <2>1. snapshot.gen \in Nat
      BY DEF Database
    <2>. QED  BY <1>11, <2>1 DEF FillCandidate, Goto, procVars
  <1>12. CASE Replay
    <2>1. /\ UNCHANGED <<snapshot, partial, serving, failed, served, drawn, faults>>
          /\ pc' \in Labels
      BY <1>12 DEF Replay, Unwind, Goto, procVars
    <2>2. \/ UNCHANGED run
          \/ \E end \in run.replayed..Source.gen : run' = [run EXCEPT !.replayed = end]
      BY <1>12, Replaying
    <2>3. serving \in Stores
      BY <1>12, Replaying
    <2>4. Source.gen \in Nat
      BY <1>3, <2>3, Fields DEF Source
    <2>5. ASSUME NEW end \in run.replayed..Source.gen, run' = [run EXCEPT !.replayed = end]
          PROVE  run' \in Locals
      <3>1. run.replayed \in Nat
        BY DEF Locals
      <3>2. end \in Nat
        BY <1>2, <2>4, <3>1, Zenon
      <3>. QED  BY <2>5, <3>2
    <2>. QED  BY <2>1, <2>2, <2>5
  <1>13. CASE Gate \/ Publish \/ PublishError \/ PublishSync \/ PublishSyncError
    BY <1>13 DEF Gate, Publish, PublishError, PublishSync, PublishSyncError, Unwind, Goto,
       procVars, runVars
  <1>14. CASE Swap
    <2>1. run.gen \in Generations
      BY <1>14, RunGenerations DEF Swap
    <2>. QED  BY <1>14, <2>1 DEF Swap, Stores
  <1>15. CASE Cancel
    BY <1>15 DEF Cancel, Goto, procVars
  <1>16. CASE Deferred
    <2>1. CASE DropCandidate \/ DropCandidateError
      BY <2>1 DEF DropCandidate, DropCandidateError, Goto, procVars
    <2>2. CASE ~(DropCandidate \/ DropCandidateError)
      BY <1>16, <2>2 DEF Deferred, RemoveSnapshot, RemoveMarker, RemoveScratch, ScratchError,
         EndSession, AfterScratch, Goto, procVars
    <2>. QED  BY <2>1, <2>2
  <1>17. CASE \E g \in reclaim : ReclaimGeneration(g)
    BY <1>17 DEF ReclaimGeneration, procVars, runVars
  <1>18. CASE Crash
    BY <1>18 DEF Crash
  <1>19. CASE Open
    <2>1. Target(Visible) \in Stores
      BY <1>19, Reopening
    <2>. QED  BY <1>19, <2>1 DEF Open, runVars
  <1>. QED  BY <1>4, <1>5, <1>6, <1>7, <1>8, <1>9, <1>10, <1>11, <1>12, <1>13, <1>14, <1>15,
            <1>16, <1>17, <1>18, <1>19 DEF CompactionNext, Sweep, Copy, Cutover

\* CompactionTypeOK is kept.
LEMMA TypeStep ==
    ASSUME CompactionInv, CompactionNext
    PROVE  CompactionTypeOK'
  <1>1. faults' \in 0..MaxFaults
    BY FaultsFrame, CompactionAssumption DEF Fault, CompactionInv, CompactionTypeOK
  <1>. QED  BY <1>1, DbsTyped, DiskTyped, LogStep, OthersStep DEF CompactionTypeOK, OthersTyped,
            Locals

-----------------------------------------------------------------------------
(***************************************************************************)
(* Generations are drawn once.                                             *)
(***************************************************************************)

\* Only Swept draws a generation.
LEMMA DrawnFrame ==
    ASSUME CompactionNext
    PROVE  UNCHANGED drawn \/ Swept
  BY DEF CompactionNext, Sweep, Begin, Copy, Cutover, Deferred, runVars, Goto, Write,
     WriteAmbiguous, CompactOnline, SweepCandidate, SweepError, GiveUp,
     BootstrapRename, BootstrapSync, BootstrapError, JournalReset, StartSession,
     SessionError, MakeScratch, MarkScratch, TakeSnapshot, CreateCandidate,
     FillCandidate, Replay, SyncCandidate, Unwind, Gate, Publish, PublishError,
     PublishSync, PublishSyncError, Swap, Cancel, DropCandidate, DropCandidateError,
     RemoveSnapshot, RemoveMarker, RemoveScratch, ScratchError, EndSession,
     ReclaimGeneration, Crash, Open

\* Old generations drain from a swap on.
LEMMA ReclaimFrame ==
    ASSUME CompactionNext
    PROVE  \/ UNCHANGED reclaim
           \/ Swap \/ Crash \/ \E g \in reclaim : ReclaimGeneration(g)
  BY DEF CompactionNext, Sweep, Begin, Copy, Cutover, Deferred, Goto, Write,
     WriteAmbiguous, CompactOnline, SweepCandidate, SweepError, Swept, GiveUp,
     BootstrapRename, BootstrapSync, BootstrapError, JournalReset, StartSession,
     SessionError, MakeScratch, MarkScratch, TakeSnapshot, CreateCandidate,
     FillCandidate, Replay, SyncCandidate, Unwind, Gate, Publish, PublishError,
     PublishSync, PublishSyncError, Cancel, DropCandidate, DropCandidateError,
     RemoveSnapshot, RemoveMarker, RemoveScratch, ScratchError, EndSession, Open

\* A candidate is partial until it is filled.
LEMMA PartialFrame ==
    ASSUME CompactionNext
    PROVE  UNCHANGED partial \/ CreateCandidate \/ FillCandidate
  BY DEF CompactionNext, Sweep, Begin, Copy, Cutover, Deferred, Write,
     WriteAmbiguous, CompactOnline, SweepCandidate, SweepError, Swept, GiveUp,
     BootstrapRename, BootstrapSync, BootstrapError, JournalReset, StartSession,
     SessionError, MakeScratch, MarkScratch, TakeSnapshot, Replay, SyncCandidate,
     Unwind, Gate, Publish, PublishError, PublishSync, PublishSyncError, Swap, Cancel,
     DropCandidate, DropCandidateError, RemoveSnapshot, RemoveMarker, RemoveScratch,
     ScratchError, EndSession, ReclaimGeneration, Crash, Open

\* Which steps change the scratch directories.
LEMMA ScratchFrame ==
    ASSUME CompactionNext
    PROVE  \/ UNCHANGED <<scratch, marked, plain>>
           \/ MakeScratch \/ MarkScratch \/ TakeSnapshot \/ Cancel
           \/ RemoveSnapshot \/ RemoveMarker \/ RemoveScratch
  BY DEF CompactionNext, Sweep, Begin, Copy, Cutover, Deferred, scratchVars, Write,
     WriteAmbiguous, CompactOnline, SweepCandidate, SweepError, Swept, GiveUp,
     BootstrapRename, BootstrapSync, BootstrapError, JournalReset, StartSession,
     SessionError, CreateCandidate, FillCandidate, Replay, SyncCandidate, Unwind, Gate,
     Publish, PublishError, PublishSync, PublishSyncError, Swap, DropCandidate,
     DropCandidateError, ScratchError, EndSession, ReclaimGeneration, Crash, Open

\* Every state of the directory is of drawn generations.
LEMMA LeftDrawn ==
    ASSUME CompactionInv, CompactionNext
    PROVE  \A d \in Left' : /\ d.files \subseteq drawn' \cup {Initial}
                            /\ Target(d) \in drawn' \cup {Initial}
  <1>. DEFINE P(d) == /\ d.files \subseteq drawn \cup {Initial}
                      /\ Target(d) \in drawn \cup {Initial}
  <1>1. drawn \subseteq drawn'
    BY DrawnFrame DEF Swept
  <1>2. /\ \A d \in Left : P(d)
        /\ Visible \in Left
        /\ CompactionTypeOK
    BY VisibleIsLeft DEF CompactionInv, DrawnOnce
  <1>3. ASSUME NEW d, Became(d), P(d)
        PROVE  \A e \in Left' : P(e)
    BY <1>2, <1>3 DEF Became
  <1>4. \A g : P(Without(g))
    <2>. TAKE g
    <2>1. /\ Without(g).files = Visible.files \ {g}
          /\ Target(Without(g)) = Target(Visible)
      BY <1>2, WithoutFields
    <2>. QED  BY <1>2, <2>1
  <1>. SUFFICES \A e \in Left' : P(e)
    BY <1>1
  <1>5. CASE UNCHANGED disk
    BY <1>2, <1>5 DEF Left
  <1>. HIDE DEF P
  <1>6. CASE \E g \in scratch : SweepCandidate(g)
    BY <1>3, <1>4, <1>5, <1>6, Sweeping
  <1>7. CASE SweepError
    BY <1>3, <1>4, <1>5, <1>7, SweepFails
  <1>8. CASE DropCandidate
    BY <1>3, <1>4, <1>5, <1>8, Dropping
  <1>9. CASE DropCandidateError
    BY <1>3, <1>4, <1>5, <1>9, DropFails
  <1>10. CASE \E g \in reclaim : ReclaimGeneration(g)
    BY <1>3, <1>4, <1>10, Reclaiming
  <1>11. CASE BootstrapSync \/ SyncCandidate \/ PublishSync \/ Open
    BY <1>2, <1>3, <1>11, Syncing
  <1>12. CASE BootstrapRename
    <2>1. ASSUME Became(Anchored), Anchored.files = Visible.files, Target(Anchored) = Initial
          PROVE  P(Anchored)
      BY <1>2, <2>1 DEF P
    <2>. QED  BY <1>3, <1>5, <1>12, <2>1, Bootstrapping
  <1>13. CASE CreateCandidate
    <2>1. run.gen \in drawn
      BY <1>13 DEF CreateCandidate, CompactionInv, RunSound, RunLocals, Idle
    <2>2. P(With)
      BY <1>2, <1>13, <2>1, Creating DEF P
    <2>. QED  BY <1>3, <1>13, <2>2, Creating
  <1>14. CASE Publish
    <2>1. run.gen \in drawn
      BY <1>14 DEF Publish, CompactionInv, RunSound, RunLocals, Idle
    <2>2. P(Switched)
      BY <1>2, <1>14, <2>1, Publishing DEF P
    <2>. QED  BY <1>3, <1>14, <2>2, Publishing
  <1>15. CASE Crash
    BY <1>2, <1>3, <1>15, Crashing
  <1>. QED  BY <1>5, <1>6, <1>7, <1>8, <1>9, <1>10, <1>11, <1>12, <1>13, <1>14, <1>15, DiskFrame

\* DrawnOnce is kept.
LEMMA DrawnStep ==
    ASSUME CompactionInv, CompactionNext
    PROVE  DrawnOnce'
  <1>1. drawn \subseteq drawn'
    BY DrawnFrame DEF Swept
  <1>2. DrawnOnce /\ (pc \notin {Idle, "sweep"} => run.gen \in drawn)
    BY DEF CompactionInv, RunSound, RunLocals, RunUnnamed
  <1>3. served' \subseteq drawn' \cup {Initial} /\ serving' \in served' \cup {None}
    <2>1. CASE UNCHANGED <<serving, served>>
      BY <1>1, <1>2, <2>1 DEF DrawnOnce
    <2>2. CASE Swap
      BY <1>1, <1>2, <2>2 DEF DrawnOnce, Swap, Idle
    <2>3. CASE Crash
      BY <1>1, <1>2, <2>3 DEF DrawnOnce, Crash
    <2>4. CASE Open
      <3>1. Visible \in Left
        BY VisibleIsLeft DEF CompactionInv
      <3>. QED  BY <1>1, <1>2, <2>4, <3>1 DEF DrawnOnce, Open
    <2>. QED  BY <2>1, <2>2, <2>3, <2>4, ServingFrame
  <1>4. reclaim' \subseteq served'
    <2>1. served \subseteq served'
      BY ServingFrame DEF Swap, Crash, Open
    <2>2. CASE Swap
      <3>1. serving # None
        BY <2>2 DEF CompactionInv, RunSound, RunLocals, RunUnnamed, Swap, Idle
      <3>. QED  BY <1>2, <2>1, <2>2, <3>1 DEF Swap, DrawnOnce
    <2>. QED  BY <1>2, <2>1, <2>2, ReclaimFrame DEF DrawnOnce, Crash, ReclaimGeneration
  <1>5. partial' \subseteq drawn'
    BY <1>1, <1>2, PartialFrame DEF DrawnOnce, CreateCandidate, FillCandidate, Idle
  <1>6. scratch' \subseteq drawn'
    BY <1>1, <1>2, ScratchFrame DEF DrawnOnce, MakeScratch, MarkScratch, TakeSnapshot, Cancel,
       RemoveSnapshot, RemoveMarker, RemoveScratch, Idle
  <1>. QED  BY <1>3, <1>4, <1>5, <1>6, LeftDrawn DEF DrawnOnce

-----------------------------------------------------------------------------
(***************************************************************************)
(* The run.                                                                *)
(***************************************************************************)

\* RunLocals is kept.
LEMMA RunLocalsStep ==
    ASSUME CompactionInv, CompactionNext
    PROVE  RunLocals'
  <1>1. /\ RunLocals
        /\ run \in Locals
        /\ served \subseteq drawn \cup {Initial}
        /\ scratch \subseteq drawn
        /\ drawn \subseteq Generations
    BY DEF CompactionInv, RunSound, CompactionTypeOK, Locals, DrawnOnce
  <1>2. Initial \notin Generations /\ None \notin Generations
    BY CompactionAssumption DEF Stores
  <1>. USE <1>1 DEF RunLocals, Building, Opening, CatchingUp, Complete, Idle, Locals
  <1>3. CASE Write \/ WriteAmbiguous
    BY <1>3, Writing
  <1>4. CASE CompactOnline \/ SweepError
    BY <1>4 DEF CompactOnline, SweepError, NoRun, Goto, procVars, scratchVars
  <1>5. CASE Swept
    BY <1>2, <1>5 DEF Swept, NoRun, procVars, scratchVars
  <1>6. CASE \E g \in scratch : SweepCandidate(g)
    BY <1>6 DEF SweepCandidate, NoRun, Goto, procVars
  <1>7. CASE Begin
    BY <1>7 DEF Begin, BootstrapRename, BootstrapSync, BootstrapError, JournalReset,
       StartSession, SessionError, GiveUp, Goto, procVars
  <1>8. CASE MakeScratch \/ MarkScratch \/ SyncCandidate \/ CreateCandidate
    BY <1>8 DEF MakeScratch, MarkScratch, SyncCandidate, CreateCandidate, Goto, procVars
  <1>9. CASE TakeSnapshot
    BY <1>9 DEF TakeSnapshot, procVars
  <1>10. CASE FillCandidate
    BY <1>10 DEF FillCandidate, Goto, procVars
  <1>11. CASE Replay
    <2>1. /\ pc = "replay" /\ pc' \in {"uncandidate", "sync", "replay"}
          /\ UNCHANGED <<serving, served, reclaim, drawn>>
      BY <1>11 DEF Replay, Unwind, Goto, procVars
    <2>2. \/ UNCHANGED run
          \/ \E end \in run.replayed..Source.gen : run' = [run EXCEPT !.replayed = end]
      BY <1>11, Replaying
    <2>3. UNCHANGED <<run.gen, run.attempted, run.switched, run.retained, run.sweeping>>
      BY <2>2
    <2>. QED  BY <2>1, <2>3
  <1>12. CASE Gate
    BY <1>12 DEF Gate, Unwind, Goto, procVars
  <1>13. CASE Publish \/ PublishSync
    BY <1>13 DEF Publish, PublishSync, Goto, procVars
  <1>14. CASE PublishError \/ PublishSyncError
    BY <1>14 DEF PublishError, PublishSyncError, runVars
  <1>15. CASE Swap
    BY <1>2, <1>15 DEF Swap
  <1>16. CASE Cancel
    BY <1>16 DEF Cancel, Goto, procVars
  <1>17. CASE DropCandidate \/ DropCandidateError
    BY <1>17 DEF DropCandidate, DropCandidateError, Goto, procVars
  <1>18. CASE RemoveSnapshot \/ RemoveMarker \/ RemoveScratch \/ ScratchError
    BY <1>18 DEF RemoveSnapshot, RemoveMarker, RemoveScratch, ScratchError, AfterScratch,
       KeepsMarker, Goto, procVars
  <1>19. CASE EndSession
    BY <1>19 DEF EndSession, Goto, procVars
  <1>20. CASE \E g \in reclaim : ReclaimGeneration(g)
    BY <1>20 DEF ReclaimGeneration, procVars, runVars
  <1>21. CASE Crash
    BY <1>21 DEF Crash, NoRun
  <1>22. CASE Open
    <2>1. serving' # None
      BY <1>22, Reopening, CompactionAssumption DEF Open
    <2>. QED  BY <1>22, <2>1 DEF Open, runVars
  <1>. QED  BY <1>3, <1>4, <1>5, <1>6, <1>7, <1>8, <1>9, <1>10, <1>11, <1>12, <1>13, <1>14,
            <1>15, <1>16, <1>17, <1>18, <1>19, <1>20, <1>21, <1>22
         DEF CompactionNext, Sweep, Copy, Cutover, Deferred

\* Only Publish makes the directory lead to another generation.
LEMMA TargetsStep ==
    ASSUME CompactionInv, CompactionNext, ~Publish
    PROVE  /\ \A d \in Left' : \E e \in Left : Target(d) = Target(e)
           /\ ~Crash => Target(Visible') = Target(Visible)
  <1>. DEFINE P == /\ \A d \in Left' : \E e \in Left : Target(d) = Target(e)
                   /\ ~Crash => Target(Visible') = Target(Visible)
  <1>1. CompactionTypeOK /\ Visible \in Left
    BY VisibleIsLeft DEF CompactionInv
  <1>2. ASSUME NEW d, Became(d), Target(d) = Target(Visible)
        PROVE  P
    BY <1>1, <1>2 DEF Became
  <1>3. \A g : Target(Without(g)) = Target(Visible)
    BY <1>1, WithoutFields
  <1>. SUFFICES P
    OBVIOUS
  <1>4. CASE UNCHANGED disk
    BY <1>4 DEF Left, Visible
  <1>5. CASE Crash
    BY <1>5, Crashing
  <1>. HIDE DEF P
  <1>6. CASE \E g \in scratch : SweepCandidate(g)
    BY <1>2, <1>3, <1>4, <1>6, Sweeping
  <1>7. CASE SweepError
    BY <1>2, <1>3, <1>4, <1>7, SweepFails
  <1>8. CASE DropCandidate
    BY <1>2, <1>3, <1>4, <1>8, Dropping
  <1>9. CASE DropCandidateError
    BY <1>2, <1>3, <1>4, <1>9, DropFails
  <1>10. CASE \E g \in reclaim : ReclaimGeneration(g)
    BY <1>2, <1>3, <1>10, Reclaiming
  <1>11. CASE BootstrapSync \/ SyncCandidate \/ PublishSync \/ Open
    BY <1>2, <1>11, Syncing
  <1>12. CASE BootstrapRename
    <2>1. Visible.manifest = None => Target(Visible) = Initial
      BY DEF Target
    <2>. QED  BY <1>2, <1>4, <1>12, <2>1, Bootstrapping
  <1>13. CASE CreateCandidate
    BY <1>2, <1>13, Creating
  <1>. QED  BY <1>4, <1>5, <1>6, <1>7, <1>8, <1>9, <1>10, <1>11, <1>12, <1>13, DiskFrame

\* A run that has not published goes on from one that has not, with the same
\* generation.
LEMMA RunGoesOn ==
    ASSUME CompactionInv, CompactionNext,
           pc' \in Building \cup {"uncandidate"}, ~run'.attempted
    PROVE  \/ Swept
           \/ /\ pc \in Building \cup {"uncandidate"}
              /\ ~run.attempted
              /\ run'.gen = run.gen
              /\ ~Publish
  <1>1. /\ run \in Locals
        /\ pc \in {"pubsync", "swap"} => run.attempted
    BY DEF CompactionInv, CompactionTypeOK, Locals, ManifestSound
  <1>. USE <1>1 DEF Building, Opening, CatchingUp, Complete, Idle, Locals
  <1>2. CASE Publish \/ PublishError
    BY <1>2 DEF Publish, PublishError, Goto
  <1>3. CASE Write \/ WriteAmbiguous
    BY <1>2, <1>3, Writing
  <1>4. CASE CompactOnline \/ SweepError
    BY <1>4 DEF CompactOnline, SweepError, NoRun, Goto
  <1>6. CASE \E g \in scratch : SweepCandidate(g)
    BY <1>6 DEF SweepCandidate, NoRun, Goto
  <1>7. CASE Begin
    BY <1>7, <1>2 DEF Begin, BootstrapRename, BootstrapSync, BootstrapError, JournalReset,
       StartSession, SessionError, GiveUp, Goto
  <1>8. CASE MakeScratch \/ MarkScratch \/ SyncCandidate \/ CreateCandidate \/ TakeSnapshot
    BY <1>8, <1>2 DEF MakeScratch, MarkScratch, SyncCandidate, CreateCandidate, TakeSnapshot,
       Goto
  <1>10. CASE FillCandidate
    BY <1>10, <1>2 DEF FillCandidate, Goto
  <1>11. CASE Replay
    <2>1. pc = "replay"
      BY <1>11 DEF Replay
    <2>2. \/ UNCHANGED run
          \/ \E end \in run.replayed..Source.gen : run' = [run EXCEPT !.replayed = end]
      BY <1>11, Replaying
    <2>3. UNCHANGED <<run.gen, run.attempted>>
      BY <2>2
    <2>. QED  BY <1>2, <2>1, <2>3
  <1>12. CASE Gate
    BY <1>12, <1>2 DEF Gate, Unwind, Goto
  <1>13. CASE PublishSync \/ PublishSyncError
    BY <1>13 DEF PublishSync, PublishSyncError, Goto, runVars
  <1>15. CASE Swap
    BY <1>15 DEF Swap
  <1>16. CASE Cancel
    BY <1>16, <1>2 DEF Cancel, Goto
  <1>17. CASE DropCandidate \/ DropCandidateError
    BY <1>17 DEF DropCandidate, DropCandidateError, Goto
  <1>18. CASE RemoveSnapshot \/ RemoveMarker \/ RemoveScratch \/ ScratchError \/ EndSession
    BY <1>18 DEF RemoveSnapshot, RemoveMarker, RemoveScratch, ScratchError, AfterScratch,
       KeepsMarker, Goto, EndSession
  <1>20. CASE \E g \in reclaim : ReclaimGeneration(g)
    BY <1>20, <1>2 DEF ReclaimGeneration, runVars
  <1>21. CASE Crash
    BY <1>21 DEF Crash, NoRun
  <1>22. CASE Open
    BY <1>22, <1>2 DEF Open, runVars
  <1>. QED  BY <1>2, <1>3, <1>4, <1>6, <1>7, <1>8, <1>10, <1>11, <1>12, <1>13,
            <1>15, <1>16, <1>17, <1>18, <1>20, <1>21, <1>22
         DEF CompactionNext, Sweep, Copy, Cutover, Deferred

\* RunSound is kept.
LEMMA RunStep ==
    ASSUME CompactionInv, CompactionNext
    PROVE  RunSound'
  <1>. SUFFICES ASSUME pc' \in Building \cup {"uncandidate"}, ~run'.attempted,
                       NEW d \in Left'
                PROVE  Target(d) # run'.gen
    BY RunLocalsStep DEF RunSound, RunUnnamed, Building, Opening, CatchingUp
  <1>1. CASE Swept
    <2>1. /\ run'.gen \in Generations \ drawn
          /\ UNCHANGED disk
      BY <1>1 DEF Swept, NoRun
    <2>2. Target(d) \in drawn \cup {Initial}
      BY <2>1 DEF CompactionInv, DrawnOnce, Left
    <2>. QED  BY <2>1, <2>2, CompactionAssumption
  <1>2. CASE /\ pc \in Building \cup {"uncandidate"}
             /\ ~run.attempted
             /\ run'.gen = run.gen
             /\ ~Publish
    <2>1. PICK e \in Left : Target(d) = Target(e)
      BY <1>2, TargetsStep
    <2>. QED  BY <1>2, <2>1 DEF CompactionInv, RunSound, RunUnnamed
  <1>. QED  BY <1>1, <1>2, RunGoesOn

-----------------------------------------------------------------------------
(***************************************************************************)
(* Its file.                                                               *)
(***************************************************************************)

\* FileSound is kept.
LEMMA FileStep ==
    ASSUME CompactionInv, CompactionNext
    PROVE  FileSound'
  <1>1. /\ FileSound /\ RunLocals
        /\ run \in Locals
        /\ CompactionTypeOK
        /\ Visible \in Left
        /\ Visible.files \subseteq drawn \cup {Initial}
        /\ Initial \notin Generations
        /\ serving \in served \cup {None}
        /\ reclaim \subseteq served
    BY VisibleIsLeft, CompactionAssumption
       DEF CompactionInv, RunSound, CompactionTypeOK, Locals, DrawnOnce
  <1>2. UNCHANGED disk => Visible' = Visible
    BY DEF Visible
  <1>3. \A g : Became(Without(g)) => Visible'.files = Visible.files \ {g}
    BY <1>1, WithoutFields DEF Became
  <1>. USE <1>1 DEF FileSound, RunLocals, Building, Opening, CatchingUp, Complete, Idle,
                    Locals, KeepsMarker
  <1>4. CASE Write \/ WriteAmbiguous
    BY <1>2, <1>4, Writing
  <1>5. CASE CompactOnline
    BY <1>5 DEF CompactOnline, Goto
  <1>6. CASE SweepError
    BY <1>6, SweepFails
  <1>7. CASE Swept
    BY <1>2, <1>7 DEF Swept, NoRun
  <1>8. CASE \E g \in scratch : SweepCandidate(g)
    <2>1. PICK g \in scratch : SweepCandidate(g)
      BY <1>8
    <2>2. CASE pc' = Idle
      BY <2>2
    <2>3. CASE /\ pc' = "unscratch"
               /\ run' = [NoRun EXCEPT !.gen = g, !.sweeping = TRUE]
               /\ \/ UNCHANGED disk /\ (g \notin Visible.files \/ g = serving)
                  \/ Became(Without(g)) /\ g # serving /\ g # Target(Visible)
      <3>1. run'.gen = g
        BY <2>3 DEF NoRun
      <3>2. UNCHANGED served
        BY <2>1 DEF SweepCandidate, Goto, procVars
      <3>3. serving \in served
        BY <2>1 DEF SweepCandidate
      <3>4. g \notin Visible'.files \/ g \in served'
        BY <1>2, <1>3, <2>3, <3>2, <3>3
      <3>. QED  BY <2>3, <3>1, <3>4
    <2>. QED  BY <2>1, <2>2, <2>3, Sweeping
  <1>9. CASE BootstrapRename
    <2>1. /\ pc = "bootstrap" /\ pc' \in {"reset", "bootsync"}
          /\ UNCHANGED <<run, served, partial>>
      BY <1>9 DEF BootstrapRename, Goto, procVars
    <2>2. Visible'.files = Visible.files
      BY <1>2, <1>9, Bootstrapping DEF Became
    <2>. QED  BY <2>1, <2>2
  <1>10. CASE BootstrapSync \/ SyncCandidate \/ PublishSync
    <2>1. Visible' = Visible
      BY <1>10, Syncing DEF Became
    <2>. QED  BY <1>10, <2>1 DEF BootstrapSync, SyncCandidate, PublishSync, Goto, procVars
  <1>11. CASE BootstrapError \/ JournalReset \/ StartSession \/ SessionError
    BY <1>2, <1>11 DEF BootstrapError, JournalReset, StartSession, SessionError, GiveUp, Goto,
       procVars
  <1>12. CASE MakeScratch \/ MarkScratch
    BY <1>2, <1>12 DEF MakeScratch, MarkScratch, Goto, procVars
  <1>13. CASE TakeSnapshot
    BY <1>2, <1>13 DEF TakeSnapshot, procVars
  <1>14. CASE CreateCandidate
    <2>1. Visible'.files = Visible.files \cup {run.gen}
      BY <1>14, Creating DEF Became
    <2>. QED  BY <1>14, <2>1 DEF CreateCandidate, Goto, procVars
  <1>15. CASE FillCandidate
    BY <1>2, <1>15 DEF FillCandidate, Goto, procVars
  <1>16. CASE Replay
    <2>1. /\ pc = "replay" /\ pc' \in {"uncandidate", "sync", "replay"}
          /\ UNCHANGED <<disk, served, partial>>
      BY <1>16 DEF Replay, Unwind, Goto, procVars
    <2>2. \/ UNCHANGED run
          \/ \E end \in run.replayed..Source.gen : run' = [run EXCEPT !.replayed = end]
      BY <1>16, Replaying
    <2>3. run'.gen = run.gen
      BY <2>2
    <2>. QED  BY <1>2, <2>1, <2>3
  <1>17. CASE Gate
    BY <1>2, <1>17 DEF Gate, Unwind, Goto, procVars
  <1>18. CASE Publish
    <2>1. Visible'.files = Visible.files
      BY <1>18, Publishing DEF Became
    <2>. QED  BY <1>18, <2>1 DEF Publish, Goto, procVars
  <1>19. CASE PublishError \/ PublishSyncError
    BY <1>2, <1>19 DEF PublishError, PublishSyncError, runVars
  <1>20. CASE Swap
    BY <1>2, <1>20 DEF Swap
  <1>21. CASE Cancel
    BY <1>2, <1>21 DEF Cancel, Goto, procVars
  <1>22. CASE DropCandidate
    <2>1. pc = "uncandidate" /\ UNCHANGED served
      BY <1>22 DEF DropCandidate, Goto, procVars
    <2>2. CASE UNCHANGED run /\ Became(Without(run.gen))
      BY <1>3, <1>22, <2>1, <2>2, Dropping
    <2>3. CASE run.attempted /\ run' = [run EXCEPT !.retained = TRUE]
      BY <1>22, <2>1, <2>3, Dropping
    <2>. QED  BY <1>22, <2>2, <2>3, Dropping
  <1>23. CASE DropCandidateError
    BY <1>23 DEF DropCandidateError, Goto
  <1>24. CASE RemoveSnapshot \/ RemoveMarker \/ RemoveScratch \/ ScratchError \/ EndSession
    BY <1>2, <1>24 DEF RemoveSnapshot, RemoveMarker, RemoveScratch, ScratchError, AfterScratch,
       Goto, EndSession, procVars
  <1>25. CASE \E g \in reclaim : ReclaimGeneration(g)
    <2>1. PICK g \in reclaim : ReclaimGeneration(g)
      BY <1>25
    <2>2. Visible'.files = Visible.files \ {g} /\ g \in served
      BY <1>3, <2>1, Reclaiming
    <2>3. UNCHANGED <<pc, run, partial, served>>
      BY <2>1 DEF ReclaimGeneration, procVars, runVars
    <2>. QED  BY <2>2, <2>3
  <1>26. CASE Crash
    BY <1>26 DEF Crash
  <1>27. CASE Open
    BY <1>27 DEF Open
  <1>. QED  BY <1>4, <1>5, <1>6, <1>7, <1>8, <1>9, <1>10, <1>11, <1>12, <1>13, <1>14,
            <1>15, <1>16, <1>17, <1>18, <1>19, <1>20, <1>21, <1>22, <1>23, <1>24, <1>25,
            <1>26, <1>27
         DEF CompactionNext, Sweep, Begin, Copy, Cutover, Deferred

-----------------------------------------------------------------------------
(***************************************************************************)
(* No write is lost.                                                       *)
(***************************************************************************)

\* ReclaimSound is kept.
LEMMA ReclaimStep ==
    ASSUME CompactionInv, CompactionNext
    PROVE  ReclaimSound'
  <1>1. /\ ReclaimSound /\ RunLocals /\ ManifestSound
        /\ reclaim \subseteq served
        /\ serving \in served \cup {None}
    BY DEF CompactionInv, RunSound, DrawnOnce
  <1>2. CASE Swap
    <2>1. Visible' = Visible
      BY <1>2 DEF Swap, Visible
    <2>2. Target(Visible) = run.gen /\ run.gen \notin served /\ serving # None
      BY <1>1, <1>2 DEF Swap, ManifestSound, RunLocals, Complete, Idle
    <2>. QED  BY <1>1, <1>2, <2>1, <2>2 DEF Swap, ReclaimSound
  <1>3. CASE Crash
    BY <1>3 DEF Crash, ReclaimSound
  <1>4. CASE Open
    BY <1>1, <1>4 DEF Open, RunLocals, ReclaimSound
  <1>5. CASE Publish
    <2>1. Target(Visible') = run.gen
      BY <1>5, Publishing DEF Became
    <2>2. run.gen \notin served
      BY <1>1, <1>5 DEF Publish, RunLocals, Building
    <2>3. UNCHANGED <<serving, reclaim>>
      BY <1>5 DEF Publish, Goto, procVars
    <2>. QED  BY <1>1, <2>1, <2>2, <2>3 DEF ReclaimSound
  <1>6. CASE ~Swap /\ ~Crash /\ ~Open /\ ~Publish
    <2>1. Target(Visible') = Target(Visible) /\ serving' = serving
      BY <1>6, TargetsStep, ServingFrame
    <2>2. reclaim' \subseteq reclaim
      BY <1>6, ReclaimFrame DEF ReclaimGeneration
    <2>. QED  BY <1>1, <2>1, <2>2 DEF ReclaimSound
  <1>. QED  BY <1>2, <1>3, <1>4, <1>5, <1>6

\* A database is only rewritten while it is filled and caught up; otherwise
\* its generation grows and it keeps what it holds.
LEMMA DbsKept ==
    ASSUME CompactionInv, CompactionNext, ~Write, ~WriteAmbiguous, NEW g \in Stores,
           ~(g = run.gen /\ pc \in {"compact"} \cup CatchingUp)
    PROVE  /\ dbs'[g].data = dbs[g].data
           /\ dbs'[g].storage = dbs[g].storage
           /\ dbs'[g].gen >= dbs[g].gen
           /\ dbs'[g].required = dbs[g].required \/ (StartSession /\ pc' = "mkdir")
  <1>1. CompactionTypeOK
    BY DEF CompactionInv
  <1>2. dbs[g] \in Database(dbs[g].journal) /\ dbs[g].gen \in Nat
    BY <1>1, Fields
  <1>3. CASE dbs'[g] = dbs[g]
    BY <1>2, <1>3
  <1>4. CASE JournalReset
    <2>1. CASE g = serving
      <3>1. dbs'[g] = [dbs[g] EXCEPT !.journal = <<>>]
        BY <1>4, <2>1, Resetting
      <3>. QED  BY <1>2, <3>1 DEF Database
    <2>. QED  BY <1>3, <1>4, <2>1, Resetting DEF OnlyChanged
  <1>5. CASE StartSession
    <2>1. CASE g = serving /\ dbs'[serving] = SessionStarted(dbs[serving]) /\ pc' = "mkdir"
      <3>1. run.gen \in Generations
        BY <1>5, Starting
      <3>2. /\ SessionStarted(dbs[g]).gen = dbs[g].gen + 1
            /\ SessionStarted(dbs[g]).data = dbs[g].data
            /\ SessionStarted(dbs[g]).storage = dbs[g].storage
        BY <1>2, <3>1, StartedFields, Zenon
      <3>. QED  BY <1>2, <1>5, <2>1, <3>2
    <2>. QED  BY <1>3, <1>5, <2>1, Starting DEF OnlyChanged
  <1>6. CASE FillCandidate
    BY <1>3, <1>6, Filling DEF OnlyChanged, FillCandidate
  <1>7. CASE Replay
    BY <1>3, <1>7, Replaying DEF OnlyChanged, Replay, CatchingUp
  <1>8. CASE Gate
    BY <1>3, <1>8, Gating DEF OnlyChanged, Gate, CatchingUp
  <1>9. CASE EndSession
    <2>1. CASE g = serving /\ dbs'[serving] = SessionEnded(dbs[serving])
      BY <1>2, <2>1, EndedFields
    <2>. QED  BY <1>3, <1>9, <2>1, Ending DEF OnlyChanged
  <1>10. CASE Open
    <2>1. CASE dbs'[g] = SessionEnded(dbs[g])
      BY <1>2, <2>1, EndedFields
    <2>. QED  BY <1>3, <1>10, <2>1, Reopening DEF OnlyChanged
  <1>. QED  BY <1>3, <1>4, <1>5, <1>6, <1>7, <1>8, <1>9, <1>10, DbsFrame

\* The states of the directory that are new after a step.
LEMMA DirectoryStep ==
    ASSUME CompactionInv, CompactionNext, NEW d \in Left'
    PROVE  \/ d \in Left
           \/ /\ serving # None
              /\ \/ \E g : d = Without(g) /\ g # Target(Visible)
                 \/ BootstrapRename /\ d = Anchored /\ Visible.manifest = None
                 \/ CreateCandidate /\ d = With
                 \/ Publish /\ d = Switched
  <1>1. CompactionTypeOK /\ Visible \in Left /\ RunLocals
    BY VisibleIsLeft DEF CompactionInv, RunSound
  <1>2. \A e : Became(e) => d \in Left \/ d = e
    BY DEF Became
  <1>. USE DEF RunLocals, Idle
  <1>3. CASE UNCHANGED disk
    BY <1>3 DEF Left
  <1>4. CASE \E g \in scratch : SweepCandidate(g)
    <2>1. serving # None
      BY <1>1, <1>4 DEF SweepCandidate
    <2>. QED  BY <1>2, <1>3, <1>4, <2>1, Sweeping
  <1>5. CASE SweepError
    <2>1. serving # None
      BY <1>1, <1>5 DEF SweepError
    <2>. QED  BY <1>2, <1>3, <1>5, <2>1, SweepFails
  <1>6. CASE DropCandidate
    <2>1. serving # None
      BY <1>1, <1>6 DEF DropCandidate
    <2>. QED  BY <1>2, <1>3, <1>6, <2>1, Dropping
  <1>7. CASE DropCandidateError
    <2>1. serving # None
      BY <1>1, <1>7 DEF DropCandidateError
    <2>. QED  BY <1>2, <1>3, <1>7, <2>1, DropFails
  <1>8. CASE \E g \in reclaim : ReclaimGeneration(g)
    <2>1. serving # None
      BY <1>1, <1>8
    <2>. QED  BY <1>2, <1>8, <2>1, Reclaiming
  <1>9. CASE BootstrapSync \/ SyncCandidate \/ PublishSync \/ Open
    BY <1>1, <1>2, <1>9, Syncing
  <1>10. CASE BootstrapRename
    <2>1. serving # None
      BY <1>1, <1>10 DEF BootstrapRename
    <2>. QED  BY <1>2, <1>3, <1>10, <2>1, Bootstrapping
  <1>11. CASE CreateCandidate
    <2>1. serving # None
      BY <1>1, <1>11 DEF CreateCandidate
    <2>. QED  BY <1>2, <1>11, <2>1, Creating
  <1>12. CASE Publish
    <2>1. serving # None
      BY <1>1, <1>12 DEF Publish
    <2>. QED  BY <1>2, <1>12, <2>1, Publishing
  <1>13. CASE Crash
    BY <1>2, <1>13, Crashing
  <1>. QED  BY <1>3, <1>4, <1>5, <1>6, <1>7, <1>8, <1>9, <1>10, <1>11, <1>12, <1>13, DiskFrame

\* A store that needs a manifest goes on needing one.
LEMMA RequiredStays ==
    ASSUME CompactionInv, CompactionNext
    PROVE  /\ dbs[Initial].required => dbs'[Initial].required
           /\ dbs'[Initial].required = dbs[Initial].required \/ (StartSession /\ pc' = "mkdir")
           /\ dbs'[Initial].storage = Initial
  <1>1. /\ CompactionTypeOK /\ Initial \in Stores /\ dbs[Initial].storage = Initial
        /\ pc \notin {Idle, "sweep"} => run.gen # Initial
    BY RunGenerations DEF CompactionInv, ManifestSound
  <1>2. dbs[Initial] \in Database(dbs[Initial].journal)
    BY <1>1, Fields
  <1>3. CASE Write \/ WriteAmbiguous
    <2>1. CASE Initial = serving /\ Len(log) + 1 \in Writes /\
               dbs'[serving] = Committed(dbs[serving], Len(log) + 1)
      BY <1>1, <1>2, <2>1, CommittedFields
    <2>2. CASE dbs'[Initial] = dbs[Initial]
      BY <1>1, <2>2
    <2>. QED  BY <1>1, <1>3, <2>1, <2>2, Writing DEF OnlyChanged
  <1>4. CASE ~Write /\ ~WriteAmbiguous
    <2>1. ~(Initial = run.gen /\ pc \in {"compact"} \cup CatchingUp)
      BY <1>1 DEF CatchingUp, Idle
    <2>2. /\ dbs'[Initial].storage = dbs[Initial].storage
          /\ dbs'[Initial].required = dbs[Initial].required \/ (StartSession /\ pc' = "mkdir")
      BY <1>1, <1>4, <2>1, DbsKept
    <2>3. StartSession /\ pc' = "mkdir" =>
            dbs'[Initial] = dbs[Initial] \/ dbs'[Initial].required = TRUE
      <3>. SUFFICES ASSUME StartSession, pc' = "mkdir"
                    PROVE  dbs'[Initial] = dbs[Initial] \/ dbs'[Initial].required = TRUE
        OBVIOUS
      <3>1. run.gen \in Generations
        BY Starting
      <3>2. SessionStarted(dbs[Initial]).required = TRUE
        BY <1>2, <3>1, StartedFields, Zenon
      <3>. QED  BY <1>1, <3>2, Starting DEF OnlyChanged, Idle
    <2>. QED  BY <1>1, <2>2, <2>3
  <1>. QED  BY <1>3, <1>4

\* The fence of a run that published, or tried to, lasts while the process does.
LEMMA FenceStays ==
    ASSUME CompactionInv, CompactionNext, ~Swap, ~Crash, ~Open,
           run.attempted, failed \/ pc \in {"pubsync", "swap"}
    PROVE  run'.attempted /\ (failed' \/ pc' \in {"pubsync", "swap"})
  <1>1. RunLocals /\ run \in Locals /\ failed \in BOOLEAN
    BY DEF CompactionInv, RunSound, CompactionTypeOK, Locals
  <1>. USE <1>1 DEF RunLocals, Building, Opening, CatchingUp, Complete, Idle, Locals
  <1>2. CASE Publish \/ PublishError
    BY <1>2 DEF Publish, PublishError, Goto, procVars
  <1>3. CASE Write \/ WriteAmbiguous
    BY <1>3, Writing DEF Gated
  <1>4. CASE CompactOnline \/ SweepError \/ Swept
    BY <1>4 DEF CompactOnline, SweepError, Swept
  <1>5. CASE \E g \in scratch : SweepCandidate(g)
    BY <1>5 DEF SweepCandidate
  <1>6. CASE Begin
    BY <1>6 DEF Begin, BootstrapRename, BootstrapSync, BootstrapError, JournalReset,
       StartSession, SessionError
  <1>7. CASE Copy
    BY <1>7 DEF Copy, MakeScratch, MarkScratch, SyncCandidate, CreateCandidate, TakeSnapshot,
       FillCandidate, Replay
  <1>8. CASE Gate
    BY <1>8 DEF Gate
  <1>9. CASE PublishSync \/ PublishSyncError
    BY <1>9 DEF PublishSync, PublishSyncError, Goto, procVars, runVars
  <1>10. CASE Cancel
    BY <1>10 DEF Cancel, Goto, procVars
  <1>11. CASE DropCandidate \/ DropCandidateError
    BY <1>11 DEF DropCandidate, DropCandidateError, Goto, procVars
  <1>12. CASE RemoveSnapshot \/ RemoveMarker \/ RemoveScratch \/ ScratchError \/ EndSession
    BY <1>12 DEF RemoveSnapshot, RemoveMarker, RemoveScratch, ScratchError,
       Goto, EndSession, procVars
  <1>13. CASE \E g \in reclaim : ReclaimGeneration(g)
    BY <1>13 DEF ReclaimGeneration, runVars, procVars
  <1>. QED  BY <1>2, <1>3, <1>4, <1>5, <1>6, <1>7, <1>8, <1>9, <1>10, <1>11, <1>12, <1>13
         DEF CompactionNext, Sweep, Cutover, Deferred

\* A state of the directory leads to a generation of the store.
LEMMA TargetIsStore ==
    ASSUME CompactionTypeOK, NEW d \in Left
    PROVE  /\ Target(d) \in Stores
           /\ d.manifest # None => d.manifest.cutover \in Nat /\ Target(d) = d.manifest.file
           /\ d.manifest = None => Target(d) = Initial
  <1>1. d \in Directory
    BY VisibleIsLeft
  <1>. QED  BY <1>1 DEF Directory, Manifest, Target, Stores

\* What a state of the directory led to before a step is complete after it.
LEMMA OldRecoverable ==
    ASSUME CompactionInv, CompactionNext, NEW d \in Left, Recoverable(d)'
    PROVE  /\ Recoverable(d)
           /\ Opens(d)'
           /\ dbs'[Target(d)].data = log'
  <1>1. PICK t : t = Target(d)
    OBVIOUS
  <1>2. /\ t \in Stores
        /\ d.manifest # None => d.manifest.cutover \in Nat /\ t = d.manifest.file
        /\ d.manifest = None => t = Initial
        /\ CompactionTypeOK
    BY <1>1, TargetIsStore DEF CompactionInv
  <1>3. Recoverable(d)
    BY RequiredStays DEF Recoverable
  <1>4. /\ t \in d.files /\ t \notin partial
        /\ d.manifest # None => dbs[t].gen >= d.manifest.cutover /\ dbs[t].storage = t
        /\ dbs[t].data = log
        /\ serving \notin {None, t} => failed \/ pc \in {"pubsync", "swap"}
    BY <1>1, <1>2, <1>3 DEF CompactionInv, RecoverSound, Opens
  <1>5. pc \in Building => t # run.gen
    BY <1>1 DEF CompactionInv, RunSound, RunUnnamed, RunLocals
  <1>6. t \notin partial'
    BY <1>4, <1>5, PartialFrame DEF CreateCandidate, FillCandidate, Building, Opening
  <1>7. dbs[t] \in Database(dbs[t].journal) /\ dbs[t].gen \in Nat
    BY <1>2, Fields
  <1>8. /\ dbs'[t].data = log'
        /\ dbs'[t].storage = dbs[t].storage
        /\ dbs'[t].gen \in Nat
        /\ dbs'[t].gen >= dbs[t].gen
    <2>1. CASE Write \/ WriteAmbiguous
      <3>1. t = serving
        BY <1>4, <2>1, Writing DEF Gated
      <3>2. CASE UNCHANGED <<dbs, log>>
        BY <1>4, <1>7, <3>2
      <3>3. CASE /\ log' = Append(log, Len(log) + 1)
                 /\ Len(log) + 1 \in Writes
                 /\ dbs'[serving] = Committed(dbs[serving], Len(log) + 1)
        <4>1. /\ dbs'[t].gen = dbs[t].gen + 1
              /\ dbs'[t].data = Append(dbs[t].data, Len(log) + 1)
              /\ dbs'[t].storage = dbs[t].storage
          BY <1>7, <3>1, <3>3, CommittedFields
        <4>. QED  BY <1>4, <1>7, <3>3, <4>1
      <3>. QED  BY <2>1, <3>2, <3>3, Writing
    <2>2. CASE ~Write /\ ~WriteAmbiguous
      <3>1. ~(t = run.gen /\ pc \in {"compact"} \cup CatchingUp)
        BY <1>5 DEF Building
      <3>2. dbs'[t].gen \in Nat
        BY <1>2, DbsTyped DEF Database
      <3>. QED  BY <1>2, <1>4, <2>2, <3>1, <3>2, DbsKept, LogFrame
    <2>. QED  BY <2>1, <2>2
  <1>9. Opens(d)'
    <2>1. d.manifest = None => ~dbs'[t].required
      BY <1>2 DEF Recoverable
    <2>2. d.manifest # None =>
            dbs'[t].gen >= d.manifest.cutover /\ dbs'[t].storage = d.manifest.file
      BY <1>2, <1>4, <1>7, <1>8
    <2>. QED  BY <1>1, <1>4, <1>6, <2>1, <2>2 DEF Opens
  <1>. QED  BY <1>1, <1>3, <1>8, <1>9

\* A state of the directory that is new after a step is complete, too.
LEMMA NewRecoverable ==
    ASSUME CompactionInv, CompactionNext, NEW d \in Left', d \notin Left, Recoverable(d)'
    PROVE  /\ Opens(d)'
           /\ dbs'[Target(d)].data = log'
           /\ serving # None
           /\ Publish \/ (Recoverable(Visible) /\ Target(d) = Target(Visible))
  <1>1. /\ CompactionTypeOK /\ Visible \in Left
        /\ serving # None => Recoverable(Visible)
    BY VisibleIsLeft DEF CompactionInv, ManifestSound
  <1>2. serving # None
    BY DirectoryStep
  <1>3. CASE \E g : d = Without(g) /\ g # Target(Visible)
    <2>1. PICK g : d = Without(g) /\ g # Target(Visible)
      BY <1>3
    <2>2. /\ d.manifest = Visible.manifest
          /\ d.files = Visible.files \ {g}
          /\ Target(d) = Target(Visible)
      BY <1>1, <2>1, WithoutFields
    <2>3. PICK v : v = Visible
      OBVIOUS
    <2>4. Recoverable(v)'
      BY <2>2, <2>3 DEF Recoverable
    <2>5. Opens(v)' /\ dbs'[Target(v)].data = log'
      BY <1>1, <2>3, <2>4, OldRecoverable
    <2>6. Opens(d)'
      BY <2>1, <2>2, <2>3, <2>5 DEF Opens
    <2>. QED  BY <1>1, <1>2, <2>2, <2>3, <2>5, <2>6
  <1>4. CASE CreateCandidate /\ d = With
    <2>1. /\ d.manifest = Visible.manifest
          /\ d.files = Visible.files \cup {run.gen}
          /\ Target(d) = Target(Visible)
      BY <1>4, Creating
    <2>2. PICK v : v = Visible
      OBVIOUS
    <2>3. Recoverable(v)'
      BY <2>1, <2>2 DEF Recoverable
    <2>4. Opens(v)' /\ dbs'[Target(v)].data = log'
      BY <1>1, <2>2, <2>3, OldRecoverable
    <2>5. Opens(d)'
      BY <2>1, <2>2, <2>4 DEF Opens
    <2>. QED  BY <1>1, <1>2, <2>1, <2>2, <2>4, <2>5
  <1>5. CASE BootstrapRename /\ d = Anchored /\ Visible.manifest = None
    <2>1. UNCHANGED <<dbs, partial, log>>
      BY <1>5 DEF BootstrapRename, Goto
    <2>2. Target(Visible) = Initial
      BY <1>5 DEF Target
    <2>3. /\ Initial \in Visible.files /\ Initial \notin partial
          /\ dbs[Initial].data = log
      BY <1>1, <1>2, <2>2 DEF CompactionInv, RecoverSound, Opens
    <2>4. d \notin Left => /\ d.manifest = InitialManifest
                           /\ d.files = Visible.files
                           /\ Target(d) = Initial
      <3>1. CASE UNCHANGED disk
        BY <3>1 DEF Left
      <3>. QED  BY <1>5, <3>1, Bootstrapping
    <2>5. dbs[Initial].storage = Initial /\ dbs[Initial].gen \in Nat /\ Initial \in Stores
      BY <1>1, RunGenerations, Fields DEF CompactionInv, ManifestSound
    <2>6. InitialManifest # None
      <3>1. InitialManifest \in Manifest
        BY <2>5 DEF InitialManifest, Manifest
      <3>. QED  BY <3>1, CompactionAssumption
    <2>7. Opens(d)'
      BY <2>1, <2>3, <2>4, <2>5, <2>6 DEF Opens, InitialManifest
    <2>. QED  BY <1>1, <1>2, <2>1, <2>2, <2>3, <2>4, <2>7
  <1>6. CASE Publish /\ d = Switched
    <2>1. UNCHANGED <<dbs, partial, log>> /\ pc = "publish"
      BY <1>6 DEF Publish, Goto
    <2>2. /\ run.gen \in Visible.files /\ run.gen \notin partial
          /\ dbs[run.gen].data = log /\ dbs[run.gen].storage = run.gen
      BY <2>1 DEF CompactionInv, FileSound, ManifestSound, Complete
    <2>3. dbs[run.gen].gen \in Nat
      BY <1>1, <2>1, RunGenerations, Fields DEF Idle
    <2>4. /\ d.files = Visible.files
          /\ d.manifest # None
          /\ d.manifest.file = run.gen
          /\ d.manifest.cutover = dbs[run.gen].gen
          /\ Target(d) = run.gen
      BY <1>6, Publishing
    <2>5. Opens(d)'
      BY <2>1, <2>2, <2>3, <2>4 DEF Opens
    <2>. QED  BY <1>2, <1>6, <2>1, <2>2, <2>4, <2>5
  <1>. QED  BY <1>3, <1>4, <1>5, <1>6, DirectoryStep

\* RecoverSound is kept.
LEMMA RecoverStep ==
    ASSUME CompactionInv, CompactionNext
    PROVE  RecoverSound'
  <1>. SUFFICES ASSUME NEW d \in Left', Recoverable(d)'
                PROVE  /\ Opens(d)'
                       /\ dbs'[Target(d)].data = log'
                       /\ serving' \notin {None, Target(d)} =>
                             run'.attempted /\ (failed' \/ pc' \in {"pubsync", "swap"})
    BY DEF RecoverSound
  <1>1. Opens(d)' /\ dbs'[Target(d)].data = log'
    BY OldRecoverable, NewRecoverable
  <1>2. Visible \in Left
    BY VisibleIsLeft DEF CompactionInv
  <1>. SUFFICES ASSUME serving' # None, serving' # Target(d)
                PROVE  run'.attempted /\ (failed' \/ pc' \in {"pubsync", "swap"})
    BY <1>1
  <1>3. CASE Publish
    BY <1>3 DEF Publish, Goto, CompactionInv, CompactionTypeOK
  <1>4. CASE Open
    BY <1>4, Syncing DEF Open
  <1>5. CASE Crash
    BY <1>5 DEF Crash
  <1>6. CASE ~Publish /\ ~Open /\ ~Crash
    <2>1. PICK e \in Left : Recoverable(e) /\ Target(d) = Target(e)
      <3>1. CASE d \in Left
        BY <3>1, OldRecoverable
      <3>2. CASE d \notin Left
        BY <1>2, <1>6, <3>2, NewRecoverable
      <3>. QED  BY <3>1, <3>2
    <2>2. serving \notin {None, Target(e)} =>
            run.attempted /\ (failed \/ pc \in {"pubsync", "swap"})
      BY <2>1 DEF CompactionInv, RecoverSound
    <2>3. CASE Swap
      <3>1. /\ pc = "swap" /\ serving' = run.gen /\ failed' = failed
            /\ run' = [run EXCEPT !.switched = TRUE]
        BY <2>3 DEF Swap
      <3>2. /\ run.attempted
            /\ ~failed => Target(e) = run.gen
        BY <3>1 DEF CompactionInv, ManifestSound
      <3>3. failed
        BY <2>1, <3>1, <3>2
      <3>4. run'.attempted = run.attempted
        BY <3>1 DEF CompactionInv, CompactionTypeOK
      <3>. QED  BY <3>1, <3>2, <3>3, <3>4
    <2>4. CASE ~Swap
      <3>1. serving' = serving
        BY <1>6, <2>4, ServingFrame
      <3>. QED  BY <1>6, <2>1, <2>2, <2>4, <3>1, FenceStays
    <2>. QED  BY <2>3, <2>4
  <1>. QED  BY <1>3, <1>4, <1>5, <1>6

\* ServesEveryWrite is kept.
LEMMA ServesStep ==
    ASSUME CompactionInv, CompactionNext
    PROVE  ServesEveryWrite'
  <1>. SUFFICES ASSUME serving' # None PROVE dbs'[serving'].data = log'
    BY DEF ServesEveryWrite
  <1>1. CompactionTypeOK /\ ServesEveryWrite /\ ManifestSound
    BY DEF CompactionInv
  <1>2. CASE Write \/ WriteAmbiguous
    <2>1. serving \in Stores /\ serving # None /\ serving' = serving
      BY <1>2, Writing
    <2>2. dbs[serving] \in Database(dbs[serving].journal) /\ dbs[serving].data = log
      BY <1>1, <2>1, Fields DEF ServesEveryWrite
    <2>3. CASE UNCHANGED <<dbs, log>>
      BY <2>1, <2>2, <2>3
    <2>4. CASE /\ log' = Append(log, Len(log) + 1)
               /\ Len(log) + 1 \in Writes
               /\ dbs'[serving] = Committed(dbs[serving], Len(log) + 1)
      <3>1. Committed(dbs[serving], Len(log) + 1).data =
                Append(dbs[serving].data, Len(log) + 1)
        BY <2>2, <2>4, CommittedFields
      <3>. QED  BY <2>1, <2>2, <2>4, <3>1
    <2>. QED  BY <1>2, <2>3, <2>4, Writing
  <1>3. CASE Open
    <2>1. serving' = Target(Visible) /\ Opens(Visible) /\ serving = None
      BY <1>3 DEF Open
    <2>2. Visible \in Left
      BY <1>1, VisibleIsLeft
    <2>3. Recoverable(Visible)
      BY <2>1 DEF Recoverable, Opens, Target
    <2>4. dbs[Target(Visible)].data = log
      BY <2>2, <2>3 DEF CompactionInv, RecoverSound
    <2>5. dbs[Target(Visible)] \in Database(dbs[Target(Visible)].journal)
      BY <1>1, <1>3, Reopening, Fields
    <2>6. SessionEnded(dbs[Target(Visible)]).data = dbs[Target(Visible)].data
      BY <2>5, EndedFields
    <2>7. log' = log
      BY <1>3 DEF Open
    <2>. QED  BY <1>3, <2>1, <2>4, <2>6, <2>7, Reopening
  <1>4. CASE Swap
    BY <1>1, <1>4 DEF Swap, ManifestSound, Complete
  <1>5. CASE Crash
    BY <1>5 DEF Crash
  <1>6. CASE ~Write /\ ~WriteAmbiguous /\ ~Open /\ ~Swap /\ ~Crash
    <2>1. serving' = serving /\ log' = log
      BY <1>6, ServingFrame, LogFrame
    <2>2. serving \in Stores /\ dbs[serving].data = log
      BY <1>1, <2>1, RunGenerations DEF ServesEveryWrite
    <2>3. ~(serving = run.gen /\ pc \in {"compact"} \cup CatchingUp)
      BY RunGenerations DEF Building
    <2>4. dbs'[serving].data = dbs[serving].data
      BY <1>6, <2>2, <2>3, DbsKept
    <2>. QED  BY <2>1, <2>2, <2>4
  <1>. QED  BY <1>2, <1>3, <1>4, <1>5, <1>6

\* A manifest stays.
LEMMA ManifestStays ==
    ASSUME CompactionInv, CompactionNext, ~Crash
    PROVE  /\ Visible.manifest # None => Visible'.manifest # None
           /\ Visible'.manifest = None => Visible.manifest = None
           /\ BootstrapRename => Visible'.manifest # None
  <1>1. CompactionTypeOK
    BY DEF CompactionInv
  <1>2. UNCHANGED disk => Visible' = Visible
    BY DEF Visible
  <1>3. \A g : Became(Without(g)) => Visible'.manifest = Visible.manifest
    BY <1>1, WithoutFields DEF Became
  <1>4. InitialManifest # None
    <2>1. InitialManifest \in Manifest
      BY RunGenerations DEF InitialManifest, Manifest
    <2>. QED  BY <2>1, CompactionAssumption
  <1>5. CASE BootstrapRename
    BY <1>2, <1>4, <1>5, Bootstrapping DEF Became
  <1>14. CASE UNCHANGED disk /\ ~BootstrapRename
    BY <1>2, <1>14
  <1>6. CASE Publish
    BY <1>5, <1>6, Publishing DEF Became
  <1>7. CASE CreateCandidate
    BY <1>5, <1>7, Creating DEF Became
  <1>8. CASE BootstrapSync \/ SyncCandidate \/ PublishSync \/ Open
    BY <1>5, <1>8, Syncing DEF Became
  <1>9. CASE \E g \in scratch : SweepCandidate(g)
    BY <1>2, <1>3, <1>5, <1>9, Sweeping
  <1>10. CASE SweepError
    BY <1>2, <1>3, <1>5, <1>10, SweepFails
  <1>11. CASE DropCandidate
    BY <1>2, <1>3, <1>5, <1>11, Dropping
  <1>12. CASE DropCandidateError
    BY <1>2, <1>3, <1>5, <1>12, DropFails
  <1>13. CASE \E g \in reclaim : ReclaimGeneration(g)
    BY <1>3, <1>5, <1>13, Reclaiming
  <1>. QED  BY <1>14, <1>5, <1>6, <1>7, <1>8, <1>9, <1>10, <1>11, <1>12, <1>13, DiskFrame

\* Where the labels after the gate come from.
LEMMA CompleteFrom ==
    ASSUME CompactionInv, CompactionNext
    PROVE  /\ pc' \in {"bootsync", "reset", "session"} =>
                 pc \in {"bootsync", "reset", "session"} \/ BootstrapRename
           /\ pc' \in Complete =>
                 Gate \/ (pc \in Complete /\ run'.gen = run.gen /\ ~Write /\ ~WriteAmbiguous)
           /\ pc' \in {"pubsync", "swap"} =>
                 \/ Publish
                 \/ /\ pc \in {"pubsync", "swap"} /\ ~Publish /\ ~Crash
                    /\ run'.gen = run.gen /\ run'.attempted = run.attempted
           /\ pc' = "swap" /\ ~failed' => PublishSync \/ (pc = "swap" /\ ~failed)
  <1>. DEFINE P1 == pc' \in {"bootsync", "reset", "session"} =>
                 pc \in {"bootsync", "reset", "session"} \/ BootstrapRename
              P2 == pc' \in Complete =>
                 Gate \/ (pc \in Complete /\ run'.gen = run.gen /\ ~Write /\ ~WriteAmbiguous)
              P3 == pc' \in {"pubsync", "swap"} =>
                 \/ Publish
                 \/ /\ pc \in {"pubsync", "swap"} /\ ~Publish /\ ~Crash
                    /\ run'.gen = run.gen /\ run'.attempted = run.attempted
              P4 == pc' = "swap" /\ ~failed' => PublishSync \/ (pc = "swap" /\ ~failed)
  <1>. SUFFICES P1 /\ P2 /\ P3 /\ P4
    OBVIOUS
  <1>1. run \in Locals
    BY DEF CompactionInv, CompactionTypeOK, Locals
  <1>2. /\ Write \/ WriteAmbiguous => pc \notin Gated /\ pc' = pc /\ ~failed
        /\ Publish => pc = "publish"
        /\ Crash => pc' = Idle
    BY Writing DEF Publish, Crash
  <1>. USE <1>1, <1>2 DEF Complete, Gated, Idle, Locals
  <1>3. CASE Write \/ WriteAmbiguous
    BY <1>3
  <1>4. CASE Sweep
    BY <1>4 DEF Sweep, CompactOnline, SweepError, Swept, SweepCandidate, Goto
  <1>6. CASE Begin
    BY <1>6 DEF Begin, BootstrapRename, BootstrapSync, BootstrapError, JournalReset,
       StartSession, SessionError, GiveUp, Goto
  <1>7. CASE Copy
    BY <1>7 DEF Copy, MakeScratch, MarkScratch, SyncCandidate, CreateCandidate, TakeSnapshot,
       FillCandidate, Replay, Unwind, Goto
  <1>8. CASE Gate
    BY <1>8, Gating
  <1>9. CASE Publish
    BY <1>9 DEF Publish, Goto
  <1>10. CASE PublishError
    BY <1>10 DEF PublishError
  <1>11. CASE PublishSync
    BY <1>11 DEF PublishSync, Goto
  <1>12. CASE PublishSyncError
    BY <1>12 DEF PublishSyncError, runVars
  <1>13. CASE Swap
    BY <1>13 DEF Swap
  <1>14. CASE Cancel
    BY <1>14 DEF Cancel, Goto
  <1>15. CASE Deferred
    BY <1>15 DEF Deferred, DropCandidate, DropCandidateError, RemoveSnapshot, RemoveMarker,
       RemoveScratch, ScratchError, AfterScratch, EndSession, Goto
  <1>16. CASE \E g \in reclaim : ReclaimGeneration(g)
    BY <1>16 DEF ReclaimGeneration, procVars, runVars
  <1>17. CASE Crash
    BY <1>17
  <1>18. CASE Open
    BY <1>18 DEF Open, CompactionInv, RunSound, RunLocals
  <1>. QED  BY <1>3, <1>4, <1>6, <1>7, <1>8, <1>9, <1>10, <1>11, <1>12, <1>13, <1>14, <1>15,
            <1>16, <1>17, <1>18
         DEF CompactionNext, Cutover

\* ManifestSound is kept.
LEMMA ManifestStep ==
    ASSUME CompactionInv, CompactionNext
    PROVE  ManifestSound'
  <1>1. /\ CompactionTypeOK /\ ManifestSound
        /\ Visible \in Left
    BY VisibleIsLeft DEF CompactionInv
  <1>2. ASSUME serving' # None PROVE Recoverable(Visible)'
    <2>1. ~Crash
      BY <1>2 DEF Crash
    <2>2. CASE StartSession /\ pc' = "mkdir"
      <3>1. Visible.manifest # None
        BY <1>1, <2>2 DEF StartSession, ManifestSound
      <3>. QED  BY <2>1, <3>1, ManifestStays DEF Recoverable
    <2>3. CASE ~(StartSession /\ pc' = "mkdir")
      <3>1. dbs'[Initial].required = dbs[Initial].required
        BY <2>3, RequiredStays
      <3>2. Recoverable(Visible)
        <4>1. CASE serving # None
          BY <1>1, <4>1 DEF ManifestSound
        <4>2. CASE Open
          BY <4>2 DEF Open, Opens, Target, Recoverable
        <4>. QED  BY <1>2, <2>1, <4>1, <4>2, ServingFrame DEF Swap, CompactionInv, RunSound,
                  RunLocals, Idle
      <3>. QED  BY <2>1, <3>1, <3>2, ManifestStays DEF Recoverable
    <2>. QED  BY <2>2, <2>3
  <1>3. ASSUME pc' \in {"bootsync", "reset", "session"} PROVE Visible'.manifest # None
    <2>1. ~Crash
      BY <1>3 DEF Crash, Idle
    <2>. QED  BY <1>1, <1>3, <2>1, CompleteFrom, ManifestStays DEF ManifestSound
  <1>4. ASSUME pc' \in Complete
        PROVE  dbs'[run'.gen].data = log' /\ dbs'[run'.gen].storage = run'.gen
    <2>1. CASE Gate
      <3>1. pc' = "publish"
        BY <1>4, <2>1, Gating DEF Complete
      <3>2. log' = log
        BY <2>1 DEF Gate, Unwind, Goto
      <3>. QED  BY <2>1, <3>1, <3>2, Gating
    <2>2. CASE pc \in Complete /\ run'.gen = run.gen /\ ~Write /\ ~WriteAmbiguous
      <3>1. /\ dbs[run.gen].data = log /\ dbs[run.gen].storage = run.gen
            /\ run.gen \in Stores /\ log' = log
        BY <1>1, <2>2, RunGenerations, LogFrame DEF ManifestSound, Complete, Idle
      <3>2. ~(pc \in {"compact"} \cup CatchingUp)
        BY <2>2 DEF Complete, CatchingUp
      <3>3. dbs'[run.gen].data = dbs[run.gen].data /\ dbs'[run.gen].storage = dbs[run.gen].storage
        BY <2>2, <3>1, <3>2, DbsKept
      <3>. QED  BY <2>2, <3>1, <3>3
    <2>. QED  BY <1>4, <2>1, <2>2, CompleteFrom
  <1>5. ASSUME pc' \in {"pubsync", "swap"}
        PROVE  run'.attempted /\ Target(Visible') = run'.gen
    <2>1. CASE Publish
      <3>1. run' = [run EXCEPT !.attempted = TRUE]
        BY <2>1 DEF Publish
      <3>2. run'.attempted /\ run'.gen = run.gen
        BY <1>1, <3>1 DEF CompactionTypeOK
      <3>. QED  BY <2>1, <3>2, Publishing DEF Became
    <2>2. CASE ~Publish
      BY <1>1, <1>5, <2>2, CompleteFrom, TargetsStep DEF ManifestSound
    <2>. QED  BY <2>1, <2>2
  <1>6. ASSUME pc' = "swap", ~failed', NEW d \in Left'
        PROVE  Target(d) = run'.gen
    <2>1. CASE PublishSync
      <3>1. d = Visible /\ run' = run /\ pc = "pubsync"
        BY <2>1, Syncing DEF PublishSync
      <3>. QED  BY <1>1, <3>1 DEF ManifestSound
    <2>2. CASE pc = "swap" /\ ~failed
      <3>1. ~Publish /\ run'.gen = run.gen
        BY <1>6, <2>2, CompleteFrom DEF Publish
      <3>2. PICK e \in Left : Target(d) = Target(e)
        BY <3>1, TargetsStep
      <3>. QED  BY <1>1, <2>2, <3>1, <3>2 DEF ManifestSound
    <2>. QED  BY <1>6, <2>1, <2>2, CompleteFrom
  <1>. QED  BY <1>2, <1>3, <1>4, <1>5, <1>6, RequiredStays DEF ManifestSound

-----------------------------------------------------------------------------
(***************************************************************************)
(* The scratch directory.                                                  *)
(***************************************************************************)

\* ScratchSound is kept.
LEMMA ScratchStep ==
    ASSUME CompactionInv, CompactionNext
    PROVE  ScratchSound'
  <1>1. ScratchSound /\ run \in Locals
    BY DEF CompactionInv, CompactionTypeOK, Locals
  <1>. USE <1>1 DEF ScratchSound, Opening, CatchingUp, Complete, Idle, Locals
  <1>2. CASE Write \/ WriteAmbiguous
    BY <1>2, Writing
  <1>3. CASE CompactOnline \/ SweepError
    BY <1>3 DEF CompactOnline, SweepError, Goto, scratchVars
  <1>4. CASE Swept
    BY <1>4 DEF Swept, scratchVars
  <1>5. CASE \E g \in scratch : SweepCandidate(g)
    BY <1>5 DEF SweepCandidate, Goto, scratchVars
  <1>6. CASE Begin
    BY <1>6 DEF Begin, BootstrapRename, BootstrapSync, BootstrapError, JournalReset,
       StartSession, SessionError, GiveUp, Goto, scratchVars
  <1>7. CASE MakeScratch
    BY <1>7 DEF MakeScratch, Goto
  <1>8. CASE MarkScratch
    BY <1>8 DEF MarkScratch, Goto
  <1>9. CASE TakeSnapshot
    BY <1>9 DEF TakeSnapshot
  <1>10. CASE SyncCandidate \/ CreateCandidate \/ FillCandidate
    BY <1>10 DEF SyncCandidate, CreateCandidate, FillCandidate, Goto, scratchVars
  <1>11. CASE Replay
    <2>1. /\ pc = "replay" /\ pc' \in {"uncandidate", "sync", "replay"}
          /\ UNCHANGED scratchVars
      BY <1>11 DEF Replay, Unwind, Goto
    <2>2. \/ UNCHANGED run
          \/ \E end \in run.replayed..Source.gen : run' = [run EXCEPT !.replayed = end]
      BY <1>11, Replaying
    <2>3. run'.gen = run.gen
      BY <2>2
    <2>. QED  BY <2>1, <2>3 DEF scratchVars
  <1>12. CASE Gate
    BY <1>12 DEF Gate, Unwind, Goto, scratchVars
  <1>13. CASE Publish \/ PublishError \/ PublishSync \/ PublishSyncError
    BY <1>13 DEF Publish, PublishError, PublishSync, PublishSyncError, Goto, scratchVars, runVars
  <1>14. CASE Swap
    BY <1>14 DEF Swap, scratchVars
  <1>15. CASE Cancel
    BY <1>15 DEF Cancel, Goto
  <1>16. CASE DropCandidate \/ DropCandidateError
    BY <1>16 DEF DropCandidate, DropCandidateError, Goto, scratchVars
  <1>17. CASE RemoveSnapshot
    BY <1>17 DEF RemoveSnapshot, AfterScratch, Goto
  <1>18. CASE RemoveMarker
    BY <1>18 DEF RemoveMarker, Goto
  <1>19. CASE RemoveScratch
    BY <1>19 DEF RemoveScratch, AfterScratch, Goto
  <1>20. CASE ScratchError \/ EndSession
    BY <1>20 DEF ScratchError, EndSession, AfterScratch, Goto, scratchVars
  <1>21. CASE \E g \in reclaim : ReclaimGeneration(g)
    BY <1>21 DEF ReclaimGeneration, runVars, scratchVars
  <1>22. CASE Crash
    BY <1>22 DEF Crash, scratchVars
  <1>23. CASE Open
    BY <1>23 DEF Open, runVars, scratchVars
  <1>. QED  BY <1>2, <1>3, <1>4, <1>5, <1>6, <1>7, <1>8, <1>9, <1>10, <1>11, <1>12, <1>13,
            <1>14, <1>15, <1>16, <1>17, <1>18, <1>19, <1>20, <1>21, <1>22, <1>23
         DEF CompactionNext, Sweep, Copy, Cutover, Deferred

-----------------------------------------------------------------------------
(***************************************************************************)
(* The journal.                                                            *)
(***************************************************************************)

\* The steps that lead into, or through, a session.
LEMMA JournalFrom ==
    ASSUME CompactionInv, CompactionNext,
           pc' \in {"session", "mkdir", "mark", "snapshot", "candidate", "compact"}
                   \cup CatchingUp
    PROVE  \/ Write \/ WriteAmbiguous \/ JournalReset \/ StartSession \/ MakeScratch
           \/ MarkScratch \/ TakeSnapshot \/ CreateCandidate \/ FillCandidate \/ Replay
           \/ SyncCandidate \/ \E g \in reclaim : ReclaimGeneration(g)
  <1>. USE DEF CatchingUp, Idle
  <1>1. ~Sweep
    BY DEF Sweep, CompactOnline, SweepError, Swept, SweepCandidate, Goto
  <1>2. ~(BootstrapRename \/ BootstrapSync \/ BootstrapError \/ SessionError)
    BY DEF BootstrapRename, BootstrapSync, BootstrapError, SessionError, GiveUp, Goto
  <1>3. ~(Publish \/ PublishError \/ PublishSync \/ PublishSyncError \/ Swap)
    BY DEF Publish, PublishError, PublishSync, PublishSyncError, Swap, Goto
  <1>4. ~Gate
    BY Gating
  <1>5. ~(Cancel \/ Deferred)
    BY DEF Cancel, Deferred, DropCandidate, DropCandidateError, RemoveSnapshot, RemoveMarker,
       RemoveScratch, ScratchError, AfterScratch, EndSession, Goto
  <1>6. ~(Crash \/ Open)
    BY DEF Crash, Open, CompactionInv, RunSound, RunLocals
  <1>. QED  BY <1>1, <1>2, <1>3, <1>4, <1>5, <1>6 DEF CompactionNext, Begin, Copy, Cutover

\* JournalSound is kept when the databases, the run and its label stay.
LEMMA JournalStill ==
    ASSUME JournalSound, UNCHANGED <<dbs, serving, run, snapshot, log>>,
           \/ pc' = pc
           \/ pc = "sync" /\ pc' = "gate"
           \/ pc = "candidate" /\ pc' = "compact"
           \/ pc = "mkdir" /\ pc' = "mark"
           \/ pc = "mark" /\ pc' = "snapshot"
    PROVE  JournalSound'
  <1>1. Source' = Source /\ Candidate' = Candidate
    BY DEF Source, Candidate
  <1>2. (pc' \in CatchingUp) <=> (pc \in CatchingUp)
    BY DEF CatchingUp
  <1>3. Base' = Base /\ Copied' = Copied
    BY <1>1, <1>2 DEF Base, Copied
  <1>. QED  BY <1>1, <1>2, <1>3 DEF JournalSound, CatchingUp

\* A committed write is journalled, or ends the session and leaves a gap.
LEMMA JournalWrite ==
    ASSUME CompactionInv, Write \/ WriteAmbiguous
    PROVE  JournalSound'
  <1>1. /\ serving \in Stores /\ serving # None /\ ~failed /\ pc \notin Gated
        /\ UNCHANGED <<serving, pc, run, snapshot>>
        /\ JournalSound /\ CompactionTypeOK
    BY Writing DEF CompactionInv
  <1>2. CASE UNCHANGED <<dbs, log>>
    BY <1>1, <1>2, JournalStill
  <1>3. CASE /\ log' = Append(log, Len(log) + 1)
             /\ Len(log) + 1 \in Writes
             /\ OnlyChanged(serving)
             /\ dbs'[serving] = Committed(dbs[serving], Len(log) + 1)
    <2>. DEFINE w == Len(log) + 1
    <2>1. /\ Source \in Database(Source.journal) /\ Source.gen \in Nat
      BY <1>1, Fields DEF Source
    <2>2. /\ Source'.gen = Source.gen + 1
          /\ \/ Source'.session = None /\ Source'.journal = Source.journal
             \/ /\ Source'.session = Source.session
                /\ Source.session # None
                /\ Source'.journal = Put(Source.journal, Source.gen + 1, w)
      BY <1>1, <1>3, <2>1, CommittedFields DEF Source
    <2>3. /\ log \in Seq(Writes) /\ Len(log) \in Nat /\ Len(log') = Len(log) + 1
      BY <1>1, <1>3 DEF CompactionTypeOK
    <2>4. PICK n : n = Source.gen
      OBVIOUS
    <2>5. PICK j : j = Source.journal
      OBVIOUS
    <2>6. PICK k : k = Source'.journal
      OBVIOUS
    <2>7. \/ Source'.session = None /\ k = j
          \/ /\ Source'.session = Source.session
             /\ Source.session # None
             /\ DOMAIN k = DOMAIN j \cup {n + 1}
             /\ k[n + 1] = w
             /\ \A x \in DOMAIN j : x # n + 1 => k[x] = j[x]
      BY <2>2, <2>4, <2>5, <2>6 DEF Put
    <2>8. pc \in CatchingUp => Candidate' = Candidate
      <3>. SUFFICES ASSUME pc \in CatchingUp PROVE Candidate' = Candidate
        OBVIOUS
      <3>1. run.gen # serving /\ run.gen \in Stores
        BY RunGenerations DEF Building, CatchingUp, Idle
      <3>. QED  BY <1>1, <1>3, <3>1 DEF OnlyChanged, Candidate
    <2>9. PICK b : b = Base
      OBVIOUS
    <2>10. PICK c : c = Copied
      OBVIOUS
    <2>11. Base' = b /\ Copied' = c
      BY <1>1, <2>8, <2>9, <2>10 DEF Base, Copied
    <2>12. pc \in {"candidate", "compact"} \cup CatchingUp => b \in Nat /\ c \in Seq(Writes)
      <3>1. snapshot.gen \in Nat /\ run.replayed \in Nat /\ snapshot.data \in Seq(Writes)
        BY <1>1 DEF CompactionTypeOK, Database
      <3>2. pc \in CatchingUp => Candidate.data \in Seq(Writes)
        BY <1>1, RunGenerations, Fields DEF Candidate, CatchingUp, Idle
      <3>. QED  BY <2>9, <2>10, <3>1, <3>2 DEF Base, Copied
    <2>. HIDE DEF w
    <2>13. pc' # "session"
      BY <1>1 DEF Gated
    <2>14. ASSUME pc' \in {"mkdir", "mark", "snapshot", "candidate", "compact"} \cup CatchingUp
           PROVE  DOMAIN j \subseteq 0..n /\ DOMAIN k \subseteq 0..(n + 1)
      <3>1. DOMAIN j \subseteq 0..n
        BY <1>1, <2>4, <2>5, <2>14 DEF JournalSound
      <3>. QED  BY <2>1, <2>4, <2>7, <3>1
    <2>15. ASSUME pc' \in {"candidate", "compact"} \cup CatchingUp
           PROVE  b \in Nat /\ b <= n
      BY <1>1, <2>4, <2>9, <2>12, <2>15 DEF JournalSound
    <2>16. ASSUME pc' \in {"candidate", "compact"} \cup CatchingUp, Source'.session = run'.gen
           PROVE  /\ Len(c) + ((n + 1) - b) = Len(log')
                  /\ \A i \in 1..Len(c) : c[i] = i
                  /\ \A i \in 1..((n + 1) - b) : b + i \in DOMAIN k /\ k[b + i] = Len(c) + i
      <3>1. run.gen # None
        BY <1>1, <2>16, RunGenerations, CompactionAssumption DEF CatchingUp, Idle, Stores
      <3>2. /\ Source.session = run.gen
            /\ DOMAIN k = DOMAIN j \cup {n + 1}
            /\ k[n + 1] = w
            /\ \A x \in DOMAIN j : x # n + 1 => k[x] = j[x]
        BY <1>1, <2>7, <2>16, <3>1
      <3>3. /\ Len(c) + (n - b) = Len(log)
            /\ \A i \in 1..Len(c) : c[i] = i
            /\ \A i \in 1..(n - b) : b + i \in DOMAIN j /\ j[b + i] = Len(c) + i
        BY <1>1, <2>4, <2>5, <2>9, <2>10, <2>16, <3>2 DEF JournalSound
      <3>4. b \in Nat /\ b <= n /\ n \in Nat /\ Len(c) \in Nat
        BY <1>1, <2>1, <2>4, <2>12, <2>15, <2>16
      <3>5. ASSUME NEW i \in 1..((n + 1) - b)
            PROVE  b + i \in DOMAIN k /\ k[b + i] = Len(c) + i
        <4>1. CASE i \in 1..(n - b)
          <5>1. b + i # n + 1
            BY <3>4, <4>1
          <5>. QED  BY <3>2, <3>3, <4>1, <5>1
        <4>2. CASE i = (n + 1) - b
          <5>1. b + i = n + 1 /\ w = Len(c) + i
            BY <2>3, <3>3, <3>4, <4>2 DEF w
          <5>. QED  BY <3>2, <5>1
        <4>. QED  BY <3>4, <4>1, <4>2
      <3>. QED  BY <2>3, <3>3, <3>4, <3>5
    <2>17. ASSUME pc' \in {"sync", "gate"}, Source'.session # run'.gen
           PROVE  \E i \in 1..((n + 1) - b) : b + i \notin DOMAIN k
      <3>1. b \in Nat /\ b <= n /\ n \in Nat /\ DOMAIN j \subseteq 0..n
        BY <2>1, <2>4, <2>14, <2>15, <2>17 DEF CatchingUp
      <3>2. CASE Source.session = run.gen
        <4>1. k = j
          BY <1>1, <2>7, <2>17, <3>2
        <4>2. (n + 1) - b \in 1..((n + 1) - b) /\ b + ((n + 1) - b) = n + 1
          BY <3>1
        <4>3. n + 1 \notin DOMAIN k
          BY <3>1, <4>1
        <4>. QED  BY <4>2, <4>3
      <3>3. CASE Source.session # run.gen
        <4>1. PICK i \in 1..(n - b) : b + i \notin DOMAIN j
          BY <1>1, <2>4, <2>5, <2>9, <2>17, <3>3 DEF JournalSound
        <4>2. b + i # n + 1 /\ i \in 1..((n + 1) - b)
          BY <3>1
        <4>3. b + i \notin DOMAIN k
          BY <2>7, <4>1, <4>2
        <4>. QED  BY <4>2, <4>3
      <3>. QED  BY <3>2, <3>3
    <2>18. Source'.gen = n + 1
      BY <2>2, <2>4
    <2>19. Source'.gen \in Nat /\ n \in Nat
      BY <2>1, <2>4, <2>18
    <2>20. pc' \in {"candidate", "compact"} \cup CatchingUp => b <= Source'.gen
      BY <2>15, <2>18, <2>19
    <2>. QED  BY <2>6, <2>11, <2>13, <2>14, <2>16, <2>17, <2>18, <2>20 DEF JournalSound
  <1>. QED  BY <1>2, <1>3, Writing

\* A batch moves what it replays from the journal to the candidate.
LEMMA JournalReplay ==
    ASSUME CompactionInv, Replay
    PROVE  JournalSound'
  <1>1. CASE pc' = "uncandidate"
    BY <1>1 DEF JournalSound, CatchingUp
  <1>2. CASE \E end \in run.replayed..Source.gen :
                /\ Source.session = run.gen
                /\ pc' \in {"sync", "replay"}
                /\ run' = [run EXCEPT !.replayed = end]
                /\ OnlyChanged(run.gen)
                /\ dbs'[run.gen] = Replayed(end)
    <2>1. PICK e \in run.replayed..Source.gen :
                /\ Source.session = run.gen
                /\ pc' \in {"sync", "replay"}
                /\ run' = [run EXCEPT !.replayed = e]
                /\ OnlyChanged(run.gen)
                /\ dbs'[run.gen] = Replayed(e)
      BY <1>2
    <2>2. /\ pc = "replay" /\ pc \in CatchingUp /\ serving' = serving /\ log' = log
          /\ run.gen \in Stores /\ serving \in Stores /\ run.gen # serving
          /\ CompactionTypeOK /\ JournalSound
      BY Replaying DEF Replay, Unwind, Goto, procVars, CatchingUp, CompactionInv
    <2>3. run'.gen = run.gen /\ run'.replayed = e
      BY <2>1, <2>2 DEF CompactionTypeOK
    <2>4. Source' = Source
      BY <2>1, <2>2 DEF Source, OnlyChanged
    <2>5. PICK c : c = Candidate.data \o WriteSets(e)
      OBVIOUS
    <2>6. /\ c \in Seq(Writes)
          /\ Len(c) = Len(Candidate.data) + (e - run.replayed)
          /\ Len(c) + (Source.gen - e) = Len(log)
          /\ \A i \in 1..Len(c) : c[i] = i
      BY <2>1, <2>2, <2>5, CatchUp
    <2>7. Candidate' = Replayed(e)
      BY <2>1, <2>3 DEF Candidate
    <2>8. Candidate'.data = c
      BY <2>1, <2>2, <2>5, <2>7, ReplayedFields
    <2>9. Base' = e /\ Copied' = c
      BY <2>1, <2>3, <2>8 DEF Base, Copied, CatchingUp
    <2>10. /\ \A i \in 1..(Source.gen - run.replayed) :
                /\ run.replayed + i \in DOMAIN Source.journal
                /\ Source.journal[run.replayed + i] = Len(Candidate.data) + i
           /\ DOMAIN Source.journal \subseteq 0..Source.gen
      BY <2>1, <2>2 DEF JournalSound, Base, Copied
    <2>11. /\ run.replayed \in Nat /\ Source.gen \in Nat /\ Len(Candidate.data) \in Nat
      <3>1. Candidate.data \in Seq(Writes) /\ Source.gen \in Nat
        BY <2>2, Fields DEF Candidate, Source
      <3>. QED  BY <2>2, <3>1 DEF CompactionTypeOK
    <2>12. PICK r : r = run.replayed
      OBVIOUS
    <2>13. PICK n : n = Source.gen
      OBVIOUS
    <2>14. PICK l : l = Len(Candidate.data)
      OBVIOUS
    <2>15. e \in Nat /\ r \in Nat /\ n \in Nat /\ l \in Nat /\ r <= e /\ e <= n
      BY <2>11, <2>12, <2>13, <2>14
    <2>16. ASSUME NEW i \in 1..(n - e)
           PROVE  e + i \in DOMAIN Source.journal /\ Source.journal[e + i] = Len(c) + i
      <3>1. (e - r) + i \in 1..(n - r)
        BY <2>15
      <3>2. r + ((e - r) + i) = e + i
        BY <2>15
      <3>3. l + ((e - r) + i) = Len(c) + i
        BY <2>6, <2>12, <2>14, <2>15
      <3>4. /\ r + ((e - r) + i) \in DOMAIN Source.journal
            /\ Source.journal[r + ((e - r) + i)] = l + ((e - r) + i)
        BY <2>10, <2>12, <2>13, <2>14, <3>1
      <3>. QED  BY <3>2, <3>3, <3>4
    <2>. QED  BY <2>1, <2>2, <2>3, <2>4, <2>6, <2>9, <2>10, <2>13, <2>15, <2>16
              DEF JournalSound
  <1>. QED  BY <1>1, <1>2, Replaying

\* JournalSound is kept.
LEMMA JournalStep ==
    ASSUME CompactionInv, CompactionNext
    PROVE  JournalSound'
  <1>1. JournalSound /\ CompactionTypeOK
    BY DEF CompactionInv
  <1>2. CASE pc' \notin {"session", "mkdir", "mark", "snapshot", "candidate", "compact"}
                          \cup CatchingUp
    BY <1>2 DEF JournalSound, CatchingUp
  <1>3. CASE Write \/ WriteAmbiguous
    BY <1>3, JournalWrite
  <1>4. CASE JournalReset
    <2>1. pc' = "session" /\ serving' = serving
      BY <1>4 DEF JournalReset, Goto, procVars
    <2>2. dbs[serving] \in Database(dbs[serving].journal)
      BY <1>1, <1>4, Resetting, Fields
    <2>3. Source'.journal = <<>>
      BY <1>4, <2>1, <2>2, Resetting DEF Source, Database
    <2>4. DOMAIN Source'.journal = {}
      BY <2>3
    <2>. QED  BY <2>1, <2>4 DEF JournalSound, CatchingUp
  <1>5. CASE StartSession
    <2>1. CASE pc' = Idle
      BY <1>2, <2>1 DEF Idle, CatchingUp
    <2>2. CASE /\ pc' = "mkdir"
               /\ OnlyChanged(serving)
               /\ dbs'[serving] = SessionStarted(dbs[serving])
      <3>1. serving' = serving /\ serving \in Stores /\ run.gen \in Generations /\ pc = "session"
        BY <1>5, Starting DEF StartSession, Goto, procVars
      <3>2. dbs[serving] \in Database(dbs[serving].journal) /\ Source.gen \in Nat
        BY <1>1, <3>1, Fields DEF Source
      <3>3. /\ SessionStarted(dbs[serving]).gen = dbs[serving].gen + 1
            /\ SessionStarted(dbs[serving]).journal =
                   Put(dbs[serving].journal, dbs[serving].gen + 1, 0)
        BY <3>1, <3>2, StartedFields, Zenon
      <3>4. /\ Source'.gen = Source.gen + 1
            /\ Source'.journal = Put(Source.journal, Source.gen + 1, 0)
        BY <2>2, <3>1, <3>3 DEF Source
      <3>5. DOMAIN Source.journal = {}
        BY <1>1, <3>1 DEF JournalSound
      <3>6. DOMAIN Source'.journal = {Source.gen + 1}
        BY <3>4, <3>5 DEF Put
      <3>7. DOMAIN Source'.journal \subseteq 0..Source'.gen
        BY <3>2, <3>4, <3>6
      <3>. QED  BY <2>2, <3>7 DEF JournalSound, CatchingUp
    <2>. QED  BY <1>5, <2>1, <2>2, Starting
  <1>6. CASE MakeScratch \/ MarkScratch \/ CreateCandidate \/ SyncCandidate
    BY <1>1, <1>6, JournalStill DEF MakeScratch, MarkScratch, CreateCandidate, SyncCandidate,
       Goto, procVars
  <1>7. CASE \E g \in reclaim : ReclaimGeneration(g)
    BY <1>1, <1>7, JournalStill DEF ReclaimGeneration, procVars, runVars
  <1>8. CASE TakeSnapshot
    <2>1. /\ pc = "snapshot" /\ pc' = "candidate" /\ snapshot' = Source
          /\ UNCHANGED <<dbs, log, serving, run>>
      BY <1>8 DEF TakeSnapshot, Source, procVars
    <2>2. Source' = Source
      BY <2>1 DEF Source
    <2>3. Base' = Source.gen /\ Copied' = Source.data
      BY <2>1 DEF Base, Copied, CatchingUp
    <2>4. serving \in Stores /\ serving # None
      BY <2>1, RunGenerations DEF Idle
    <2>5. Source.data = log /\ Source.gen \in Nat
      BY <1>1, <2>4, Fields DEF CompactionInv, ServesEveryWrite, Source
    <2>6. DOMAIN Source.journal \subseteq 0..Source.gen
      BY <1>1, <2>1 DEF JournalSound
    <2>7. Len(log) \in Nat /\ \A i \in 1..Len(log) : log[i] = i
      BY LogBounded DEF CompactionInv, LogNumbered
    <2>8. Len(Source.data) + (Source.gen - Source.gen) = Len(log)
      BY <2>5, <2>7
    <2>9. 1..(Source.gen - Source.gen) = {}
      BY <2>5
    <2>. QED  BY <2>1, <2>2, <2>3, <2>5, <2>6, <2>7, <2>8, <2>9 DEF JournalSound, CatchingUp
  <1>9. CASE FillCandidate
    <2>1. /\ pc = "compact" /\ pc' = "replay"
          /\ run' = [run EXCEPT !.replayed = snapshot.gen]
          /\ UNCHANGED <<log, serving, snapshot>>
      BY <1>9 DEF FillCandidate, Goto, procVars
    <2>2. run'.gen = run.gen /\ run'.replayed = snapshot.gen
      BY <1>1, <2>1 DEF CompactionTypeOK
    <2>3. Source' = Source /\ Candidate' = snapshot
      BY <1>9, <2>1, <2>2, Filling DEF Source, Candidate, OnlyChanged
    <2>4. Base = snapshot.gen /\ Copied = snapshot.data
      BY <2>1 DEF Base, Copied, CatchingUp
    <2>5. Base' = Base /\ Copied' = Copied
      BY <2>1, <2>2, <2>3, <2>4 DEF Base, Copied, CatchingUp
    <2>. QED  BY <1>1, <2>1, <2>2, <2>3, <2>5 DEF JournalSound, CatchingUp
  <1>10. CASE Replay
    BY <1>10, JournalReplay
  <1>. QED  BY <1>2, <1>3, <1>4, <1>5, <1>6, <1>7, <1>8, <1>9, <1>10, JournalFrom

-----------------------------------------------------------------------------
(***************************************************************************)
(* The theorems.                                                           *)
(***************************************************************************)

\* A new store is sound.
LEMMA CompactionInitial ==
    ASSUME CompactionInit
    PROVE  CompactionInv
  <1>. DEFINE d0 == [manifest |-> None, files |-> {Initial}]
  <1>1. d0 \in Directory
    BY DEF Directory, Stores
  <1>2. disk = <<d0>> /\ Left = {d0} /\ Visible = d0
    <2>1. disk = <<d0>>
      BY DEF CompactionInit
    <2>. HIDE DEF d0
    <2>. QED  BY <2>1 DEF Left, Visible, Last, Range
  <1>3. EmptyDb \in Database(EmptyDb.journal)
    BY DEF EmptyDb, Database, Stores
  <1>4. /\ DOMAIN dbs = Stores
        /\ \A g \in Stores : dbs[g] = EmptyDb
        /\ Initial \in Stores
    BY DEF CompactionInit, Stores
  <1>5. NoRun \in Locals
    BY LocalsTyped
  <1>6. log = <<>> /\ log \in Seq(Writes) /\ Len(log) = 0
    BY DEF CompactionInit
  <1>7. CompactionTypeOK
    <2>1. disk \in Seq(Directory) \ {<<>>}
      BY <1>1, <1>2
    <2>2. 0 \in 0..MaxFaults
      BY CompactionAssumption
    <2>. QED  BY <1>3, <1>4, <1>5, <1>6, <2>1, <2>2
              DEF CompactionInit, CompactionTypeOK, Labels, Idle, Stores, Locals
  <1>8. Target(d0) = Initial
    BY DEF Target
  <1>9. LogNumbered /\ DrawnOnce /\ ReclaimSound
    BY <1>2, <1>6, <1>8 DEF CompactionInit, LogNumbered, DrawnOnce, ReclaimSound
  <1>10. RunSound /\ FileSound
    BY CompactionAssumption DEF CompactionInit, RunSound, RunLocals, RunUnnamed, FileSound, NoRun,
       Building, Opening, CatchingUp, Complete, Idle, Stores
  <1>11. ServesEveryWrite
    BY <1>4, <1>6 DEF CompactionInit, ServesEveryWrite, EmptyDb
  <1>12. ~dbs[Initial].required /\ dbs[Initial].storage = Initial /\ dbs[Initial].data = log
    BY <1>4, <1>6 DEF EmptyDb
  <1>13. RecoverSound
    <2>1. Opens(d0)
      BY <1>8, <1>12 DEF Opens, CompactionInit
    <2>. QED  BY <1>2, <1>8, <1>12, <2>1 DEF RecoverSound, CompactionInit
  <1>14. ManifestSound
    BY <1>12 DEF CompactionInit, ManifestSound, Recoverable, Complete, Idle
  <1>15. JournalSound /\ ScratchSound
    BY DEF CompactionInit, JournalSound, ScratchSound, Opening, CatchingUp, Complete, Idle
  <1>. QED  BY <1>7, <1>9, <1>10, <1>11, <1>13, <1>14, <1>15 DEF CompactionInv

\* Every step of CompactOnline, of a writer and of a restart keeps CompactionInv.
LEMMA CompactionStep ==
    ASSUME CompactionInv, [CompactionNext]_compVars
    PROVE  CompactionInv'
  <1>1. CASE CompactionNext
    BY <1>1, TypeStep, LogStep, DrawnStep, RunStep, FileStep, ReclaimStep, RecoverStep,
       ManifestStep, ServesStep, JournalStep, ScratchStep DEF CompactionInv
  <1>2. CASE UNCHANGED compVars
    BY <1>2 DEF compVars, procVars, runVars, scratchVars, CompactionInv, CompactionTypeOK,
       LogNumbered, DrawnOnce, RunSound, RunLocals, RunUnnamed, FileSound, KeepsMarker,
       ReclaimSound, RecoverSound, Recoverable, Opens, ManifestSound, ServesEveryWrite,
       JournalSound, Base, Copied, Source, Candidate, ScratchSound, Left, Visible
  <1>. QED  BY <1>1, <1>2

\* CompactionInv holds in every state that CompactOnline, the writers, crashes
\* and restarts can reach.
THEOREM CompactionInductive == CompactionSpec => []CompactionInv
  BY CompactionInitial, CompactionStep, PTL DEF CompactionSpec

\* Databases, directory states and the locals of CompactOnline have their types;
\* what applyMutations replays is always data.
THEOREM CompactionTypeCorrect == CompactionSpec => []CompactionTypeOK
  <1>1. CompactionInv => CompactionTypeOK
    BY DEF CompactionInv
  <1>. QED  BY <1>1, CompactionInductive, PTL

\* The open generation holds every committed write once and in order, through
\* every cutover, crash and restart.
THEOREM EveryWriteServed == CompactionSpec => []ServesEveryWrite
  <1>1. CompactionInv => ServesEveryWrite
    BY DEF CompactionInv
  <1>. QED  BY <1>1, CompactionInductive, PTL

\* Whatever state of the directory a crash leaves, OpenBillingInbox opens a
\* generation that holds every committed write, unless the store needs a
\* manifest and the crash has left none.
THEOREM EveryWriteRecovered == CompactionSpec => []RecoversEveryWrite
  <1>1. CompactionInv => RecoversEveryWrite
    BY DEF CompactionInv, RecoverSound, Recoverable, RecoversEveryWrite, Left
  <1>. QED  BY <1>1, CompactionInductive, PTL

\* While its session lasts, a run can bring the candidate up to date from the
\* journal, with no write missed and none replayed twice.
THEOREM CatchUpIsComplete == CompactionSpec => []CatchUpComplete
  <1>1. ASSUME CompactionInv PROVE CatchUpComplete
    <2>. SUFFICES ASSUME pc \in CatchingUp, Source.session = run.gen
                  PROVE  Journalled(Source.gen) /\ Replayed(Source.gen).data = log
      BY DEF CatchUpComplete, CatchingUp
    <2>1. Source.gen \in Nat /\ run.replayed \in Nat
      BY <1>1, RunGenerations, Fields DEF CompactionInv, CompactionTypeOK, Source, CatchingUp, Idle
    <2>2. run.replayed <= Source.gen
      BY <1>1 DEF CompactionInv, JournalSound, Base
    <2>3. Source.gen \in run.replayed..Source.gen
      BY <2>1, <2>2
    <2>4. PICK c : c = Candidate.data \o WriteSets(Source.gen)
      OBVIOUS
    <2>5. /\ Journalled(Source.gen)
          /\ c \in Seq(Writes)
          /\ Len(c) + (Source.gen - Source.gen) = Len(log)
          /\ \A i \in 1..Len(c) : c[i] = i
      BY <1>1, <2>3, <2>4, CatchUp
    <2>6. log \in Seq(Writes) /\ \A i \in 1..Len(log) : log[i] = i
      BY <1>1 DEF CompactionInv, LogNumbered, CompactionTypeOK
    <2>7. Len(c) = Len(log)
      BY <2>1, <2>5, <2>6
    <2>8. \A i \in 1..Len(c) : c[i] = log[i]
      BY <2>5, <2>6, <2>7
    <2>9. c = log
      BY <2>5, <2>6, <2>7, <2>8, SeqEqual, Zenon
    <2>10. Replayed(Source.gen).data = c
      BY <1>1, <2>3, <2>4, ReplayedFields
    <2>. QED  BY <2>5, <2>9, <2>10
  <1>. QED  BY <1>1, CompactionInductive, PTL

\* Plaintext is only where owner.json says whose it is, and in one directory.
THEOREM PlaintextIsOwned == CompactionSpec => []PlaintextOwned
  <1>1. ASSUME CompactionInv PROVE PlaintextOwned
    <2>1. plain \subseteq marked /\ marked \subseteq scratch /\ \A a, b \in scratch : a = b
      BY <1>1 DEF CompactionInv, ScratchSound
    <2>2. CASE plain = {}
      BY <2>1, <2>2, FS_EmptySet DEF PlaintextOwned
    <2>3. CASE plain # {}
      <3>1. PICK g : g \in plain
        BY <2>3
      <3>2. plain = {g}
        BY <2>1, <3>1
      <3>3. Cardinality(plain) = 1
        BY <3>2, FS_Singleton
      <3>. QED  BY <2>1, <3>3 DEF PlaintextOwned
    <2>. QED  BY <2>2, <2>3
  <1>. QED  BY <1>1, CompactionInductive, PTL

\* removeCompactionScratch leaves the marker of a shadow that was never active
\* for as long as its file is there.
THEOREM ShadowsAreOwned == CompactionSpec => ShadowsKeepOwner
  <1>1. ASSUME CompactionInv, [CompactionNext]_compVars
        PROVE  [\A g \in Shadows \cap marked : g \in marked' \/ g \notin Shadows']_compVars
    <2>. SUFFICES ASSUME CompactionNext, NEW g \in Shadows, g \in marked, g \notin marked'
                  PROVE  FALSE
      BY <1>1
    <2>1. RemoveMarker
      BY ScratchFrame DEF MakeScratch, MarkScratch, TakeSnapshot, Cancel, RemoveSnapshot,
         RemoveScratch
    <2>2. g = run.gen /\ pc = "unmark"
      BY <2>1 DEF RemoveMarker
    <2>3. run.gen \notin Visible.files \/ run.gen \in served
      BY <1>1, <2>2 DEF CompactionInv, FileSound
    <2>. QED  BY <2>2, <2>3 DEF Shadows
  <1>. QED  BY <1>1, CompactionInductive, PTL DEF CompactionSpec, ShadowsKeepOwner
=============================================================================
