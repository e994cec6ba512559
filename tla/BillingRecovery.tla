--------------------------- MODULE BillingRecovery ---------------------------
(***************************************************************************)
(* Restore admission: a backup of the billing inbox is staged in a private *)
(* directory, opened behind a durable fence, and serves again only after   *)
(* an independent custodian has signed the exact state it is in.           *)
(*                                                                         *)
(* There is one installed store: the original until the first restore, a   *)
(* copy of a backup afterwards.  A write is a number never used before, so *)
(* the log of a store tells its own records from those of another life of  *)
(* the same sequence, and a digest of a bucket is the last write to it.    *)
(*                                                                         *)
(* Failures: a stop of the process at any point, an error or a power loss  *)
(* at any step of the staging, a commit whose outcome is unknown.  Bytes   *)
(* that were synced and database commits survive; directory entries        *)
(* survive only once the directory is synced.                              *)
(***************************************************************************)
EXTENDS Integers, Sequences, FiniteSets

CONSTANTS
    MaxWrites,    \* bound on the writes of all lives of the store
    MaxBackups,   \* bound on the backups
    MaxRestores,  \* bound on the losses of a store that is in use
    MaxFaults,    \* bound on errors, power losses and stops
    MaxApprovals, \* bound on the approvals in the custodian's hands
    MaxTime,      \* bound on the clock
    TTL,          \* longest life of an approval (15 minutes)
    Skew,         \* tolerated lead of the custodian's clock (1 minute)
    Drifts        \* how far the custodian's clock is ahead

ASSUME RecoveryBounds ==
    /\ MaxWrites \in Nat
    /\ MaxBackups \in Nat
    /\ MaxRestores \in Nat
    /\ MaxFaults \in Nat
    /\ MaxApprovals \in Nat
    /\ MaxTime \in Nat
    /\ TTL \in Nat \ {0}
    /\ Skew \in Nat
    /\ Drifts \subseteq Nat

VARIABLES
    db,         \* the database of the installed store
    marker,     \* <path>.recovery-stage.json is visible
    active,     \* <path>.active.json, as it is visible
    unsynced,   \* directory entries were made since the last directory sync
    phase,      \* how far the staging of the copy has got
    pristine    \* the file is still the snapshot byte for byte

copyVars == <<db, marker, active, unsynced, phase, pristine>>

VARIABLES
    proc,       \* "down", "starting" (opened, not serving yet) or "up"
    recovering, \* s.recovering
    calls       \* AdmitRecovery between its check, its commit and its return

procVars == <<proc, recovering, calls>>

VARIABLES
    backups,    \* snapshots in the archive
    observed,   \* the state of a fenced store the custodian has read
    approvals,  \* signed approvals
    now         \* wall clock of the service

worldVars == <<backups, observed, approvals, now>>

(***************************************************************************)
(* What has really happened, for the properties and bounds only.           *)
(***************************************************************************)
VARIABLES
    issued,     \* every sequence ever given out, with the write it stands for
    writes,     \* writes so far
    epoch,      \* admissions so far
    observedIn, \* the epoch of that reading
    admitted,   \* the last fence of the installed store was lifted by an admission
    replayed,   \* an approval was used after an admission it did not know of
    restores,   \* losses of a store in use so far
    faults      \* errors, power losses and stops so far

historyVars == <<issued, writes, epoch, observedIn, admitted, replayed, restores, faults>>

vars == <<copyVars, procVars, worldVars, historyVars>>

-----------------------------------------------------------------------------
Writes == 1..MaxWrites

Generations == {"initial", "compacted"}

\* The parts of the database that recovery looks at.  (identity, environment
\* and version are the same in every copy.)
Database == [log : Seq(Writes), floor : Nat, ops : Nat, cat : Nat,
             gen : Generations, required : BOOLEAN, fence : BOOLEAN]

NoManifest == [form |-> "none", gen |-> "initial"]

\* activeManifest; its cutover generation is the one the same call has just
\* stored in a counter that never decreases, so it has no counterpart.
ActiveManifest == [form : {"none", "torn", "whole"}, gen : Generations]

\* RecoveryState as the custodian reads it.
recoveryState(d) ==
    [head |-> Len(d.log), floor |-> d.floor, ops |-> d.ops, cat |-> d.cat,
     fenced |-> d.fence]

RecoveryStates == [head : Nat, floor : Nat, ops : Nat, cat : Nat, fenced : BOOLEAN]

RecoveryApproval ==
    [head : Nat, floor : Nat, ops : Nat, cat : Nat, frontier : Nat,
     at : Nat, expires : Nat, epoch : Nat]

Serving == proc = "up" /\ ~recovering

RecoveryInit ==
    /\ \E gen \in Generations :
         /\ db = [log |-> <<>>, floor |-> 0, ops |-> 0, cat |-> 0, gen |-> gen,
                  required |-> gen = "compacted", fence |-> FALSE]
         /\ active = [form |-> IF gen = "compacted" THEN "whole" ELSE "none",
                      gen |-> gen]
    /\ marker = FALSE
    /\ unsynced = FALSE
    /\ phase = "original"
    /\ pristine = FALSE
    /\ proc = "up"
    /\ recovering = FALSE
    /\ calls = {}
    /\ backups = {}
    /\ observed = recoveryState(db)
    /\ approvals = {}
    /\ now = 0
    /\ issued = <<>>
    /\ writes = 0
    /\ epoch = 0
    /\ observedIn = 0
    /\ admitted = TRUE
    /\ replayed = FALSE
    /\ restores = 0
    /\ faults = 0

Fault == faults < MaxFaults /\ faults' = faults + 1

-----------------------------------------------------------------------------
(***************************************************************************)
(* The store in service.  BillingInbox and BillingLifecycle have these     *)
(* operations in detail; here each is what it does to the recovery state.  *)
(***************************************************************************)
InsertEvent ==
    /\ Serving
    /\ writes < MaxWrites
    /\ writes' = writes + 1
    /\ db' = [db EXCEPT !.log = Append(@, writes + 1)]
    /\ issued' = Append(issued, writes + 1)
    /\ UNCHANGED <<marker, active, unsynced, phase, pristine, procVars, worldVars,
                   epoch, observedIn, admitted, replayed, restores, faults>>

VerifyCatalog ==
    /\ Serving
    /\ writes < MaxWrites
    /\ writes' = writes + 1
    /\ db' = [db EXCEPT !.cat = writes + 1]
    /\ UNCHANGED <<marker, active, unsynced, phase, pristine, procVars, worldVars,
                   issued, epoch, observedIn, admitted, replayed, restores, faults>>

ApplyRetirement ==
    /\ Serving
    /\ writes < MaxWrites
    /\ db.floor < Len(db.log)
    /\ writes' = writes + 1
    /\ db' = [db EXCEPT !.floor = Len(db.log), !.ops = writes + 1]
    /\ UNCHANGED <<marker, active, unsynced, phase, pristine, procVars, worldVars,
                   issued, epoch, observedIn, admitted, replayed, restores, faults>>

\* A snapshot of the serving store reaches the archive.
Capture ==
    /\ Serving
    /\ Cardinality(backups) < MaxBackups
    /\ backups' = backups \cup {db}
    /\ UNCHANGED <<copyVars, procVars, observed, approvals, now, historyVars>>

-----------------------------------------------------------------------------
(***************************************************************************)
(* PrepareBillingSnapshotRecovery, in a directory of its own.              *)
(***************************************************************************)

\* The controller gives up the store (it is lost, or its staging failed) and
\* decrypts a backup into a new private directory.
Restore(b) ==
    /\ \/ phase = "abandoned" /\ proc = "down" /\ UNCHANGED restores
       \/ restores < MaxRestores /\ restores' = restores + 1
    /\ db' = b
    /\ pristine' = TRUE
    /\ marker' = FALSE
    /\ active' = NoManifest
    /\ unsynced' = FALSE
    /\ phase' = "restored"
    /\ proc' = "down"
    /\ recovering' = FALSE
    /\ calls' = {}
    /\ admitted' = FALSE
    /\ UNCHANGED <<worldVars, issued, writes, epoch, observedIn, replayed, faults>>

\* No file of an earlier attempt, and the database is the signed snapshot
\* byte for byte (ValidateBillingSnapshot).
Preparable == ~marker /\ active.form = "none" /\ pristine

PrepareMark ==
    /\ proc = "down"
    /\ phase \in {"restored", "abandoned"}
    /\ Preparable
    /\ marker' = TRUE
    /\ unsynced' = TRUE
    /\ phase' = "marked"
    /\ UNCHANGED <<db, active, pristine, procVars, worldVars, historyVars>>

\* Mutant: the fence is left to the recovery flag of the service.
FencedCopyUnfenced(d) == [d EXCEPT !.required = TRUE]

FencedCopy(d) == [d EXCEPT !.fence = TRUE, !.required = TRUE]

\* One transaction, then db.Sync.
PrepareUpdate ==
    /\ phase = "marked"
    /\ db' = FencedCopy(db)
    /\ pristine' = FALSE
    /\ phase' = "updated"
    /\ UNCHANGED <<marker, active, unsynced, procVars, worldVars, historyVars>>

\* Mutant: the manifest always names the first generation.
StagedManifestInitial == [form |-> "whole", gen |-> "initial"]

StagedManifest == [form |-> "whole", gen |-> db.gen]

\* exclusiveFile: created, written, synced; the entry is not durable yet.
PrepareActivate ==
    /\ phase = "updated"
    /\ active' = StagedManifest
    /\ unsynced' = TRUE
    /\ phase' = "activated"
    /\ UNCHANGED <<db, marker, pristine, procVars, worldVars, historyVars>>

PrepareDone ==
    /\ phase = "activated"
    /\ unsynced' = FALSE
    /\ phase' = "fenced"
    /\ UNCHANGED <<db, marker, active, pristine, procVars, worldVars, historyVars>>

Staging == {"marked", "updated", "activated"}

\* An error: the call returns with what it has done so far.  The step it was
\* in may have had its effect; a file it was writing may be torn.
PrepareError ==
    /\ Fault
    /\ \/ /\ proc = "down" /\ phase = "restored" /\ Preparable
          /\ marker' \in BOOLEAN /\ UNCHANGED <<db, pristine, active>>
       \/ /\ phase = "marked"
          /\ \/ db' = FencedCopy(db) /\ pristine' = FALSE
             \/ UNCHANGED <<db, pristine>>
          /\ UNCHANGED <<marker, active>>
       \/ /\ phase = "updated"
          /\ active' \in {active} \cup [form : {"torn", "whole"}, gen : {db.gen}]
          /\ UNCHANGED <<db, pristine, marker>>
       \/ phase = "activated" /\ UNCHANGED <<db, pristine, marker, active>>
    /\ phase' = "abandoned"
    /\ unsynced' = TRUE
    /\ UNCHANGED <<procVars, worldVars, issued, writes, epoch, observedIn, admitted, replayed,
                   restores>>

\* What a power loss can leave of the two files.
Survivors(mk, ac, lossy) ==
    (IF lossy THEN {mk, FALSE} ELSE {mk}) \X (IF lossy THEN {ac, NoManifest} ELSE {ac})

\* The machine stops, with the staging or with the service.
PowerLoss ==
    /\ Fault
    /\ \E s \in Survivors(marker, active, unsynced) : marker' = s[1] /\ active' = s[2]
    /\ unsynced' = FALSE
    /\ phase' = IF phase \in Staging THEN "abandoned" ELSE phase
    /\ proc' = "down"
    /\ recovering' = FALSE
    /\ calls' = {}
    /\ UNCHANGED <<db, pristine, worldVars, issued, writes, epoch, observedIn, admitted,
                   replayed, restores>>

-----------------------------------------------------------------------------
(***************************************************************************)
(* Startup of the service.                                                 *)
(***************************************************************************)

\* loadActivePath, manifest_required and validateActiveManifest.
Opens(d, ac) ==
    \/ ac.form = "none" /\ ~d.required
    \/ ac.form = "whole" /\ ac.gen = d.gen

\* OpenBillingInbox with or without the recovery flag.  The operator sets it
\* for a copy until it is known to be fenced.  Opening writes to the file.
Open(flag) ==
    /\ proc = "down"
    /\ phase \notin Staging
    /\ flag \/ phase \in {"original", "fenced"}
    /\ Opens(db, active)
    /\ proc' = IF flag THEN "starting" ELSE "up"
    /\ recovering' = db.fence
    /\ unsynced' = FALSE
    /\ pristine' = FALSE
    /\ UNCHANGED <<db, marker, active, phase, calls, worldVars, historyVars>>

\* The fence is durable before the listener starts.
SetRecoveryMode ==
    /\ proc = "starting"
    /\ db' = [db EXCEPT !.fence = TRUE]
    /\ recovering' = TRUE
    /\ proc' = "up"
    /\ phase' = IF phase = "original" THEN phase ELSE "fenced"
    /\ admitted' = FALSE
    /\ UNCHANGED <<marker, active, unsynced, pristine, calls, worldVars, issued,
                   writes, epoch, observedIn, replayed, restores, faults>>

\* The commit fails, with or without effect, and main exits.
SetRecoveryModeError ==
    /\ proc = "starting"
    /\ Fault
    /\ \/ UNCHANGED <<db, admitted>>
       \/ db' = [db EXCEPT !.fence = TRUE] /\ admitted' = FALSE
    /\ proc' = "down"
    /\ recovering' = FALSE
    /\ UNCHANGED <<marker, active, unsynced, phase, pristine, calls, worldVars, issued,
                   writes, epoch, observedIn, replayed, restores>>

Stopped ==
    /\ proc' = "down"
    /\ recovering' = FALSE
    /\ calls' = {}
    /\ UNCHANGED <<copyVars, worldVars, issued, writes, epoch, observedIn, admitted, replayed,
                   restores>>

Stop == proc # "down" /\ Fault /\ Stopped

\* An operator restarts a service that reports an unfenced store and refuses
\* every request: the commit of AdmitRecovery had effect and reported an
\* error, and a retry is a conflict.
Restart ==
    /\ proc = "up"
    /\ recovering
    /\ ~db.fence
    /\ calls = {}
    /\ Stopped
    /\ UNCHANGED faults

-----------------------------------------------------------------------------
(***************************************************************************)
(* The custodian and AdmitRecovery.                                        *)
(***************************************************************************)

\* GET recovery.
Observe ==
    /\ proc = "up"
    /\ db.fence
    /\ <<observed, observedIn>> # <<recoveryState(db), epoch>>
    /\ observed' = recoveryState(db)
    /\ observedIn' = epoch
    /\ UNCHANGED <<copyVars, procVars, backups, approvals, now, issued, writes, epoch,
                   admitted, replayed, restores, faults>>

\* Mutant: an approval need not reach the allocation frontier.
ValidateFrontierBelow(a, t) ==
    /\ a.floor <= a.head
    /\ a.frontier >= a.head
    /\ a.at <= t + Skew
    /\ a.expires > t
    /\ a.expires > a.at
    /\ a.expires - a.at <= TTL

\* Mutant: an approval of the longest life is refused.
ValidateShorterLife(a, t) ==
    /\ a.floor <= a.head
    /\ a.frontier = a.head
    /\ a.at <= t + Skew
    /\ a.expires > t
    /\ a.expires > a.at
    /\ a.expires - a.at < TTL

\* RecoveryApproval.Validate at time t.
Validate(a, t) ==
    /\ a.floor <= a.head
    /\ a.frontier = a.head
    /\ a.at <= t + Skew
    /\ a.expires > t
    /\ a.expires > a.at
    /\ a.expires - a.at <= TTL

\* All fields of the approval agree with the state, and it is fenced.
Matches(a, d) ==
    /\ d.fence
    /\ a.head = Len(d.log)
    /\ a.floor = d.floor
    /\ a.ops = d.ops
    /\ a.cat = d.cat

\* The approval for the state last read.  The custodian knows the real
\* allocation frontier from outside.
Approval(drift) ==
    [head |-> observed.head, floor |-> observed.floor, ops |-> observed.ops,
     cat |-> observed.cat, frontier |-> Len(issued), at |-> now + drift,
     expires |-> now + drift + TTL, epoch |-> observedIn]

\* SignRecoveryApproval.  A custodian signs only for a fenced store and only
\* while nothing it has signed for this state can be used; older approvals
\* may get lost, or stay around.
Sign(drift) ==
    LET a == Approval(drift) IN
    /\ observed.fenced
    /\ Validate(a, a.at)
    /\ \A b \in approvals :
          [b EXCEPT !.at = a.at, !.expires = a.expires, !.epoch = a.epoch] = a
             => ~Validate(b, now)
    /\ \/ approvals' = {a}
       \/ Cardinality(approvals) < MaxApprovals /\ approvals' = approvals \cup {a}
    /\ UNCHANGED <<copyVars, procVars, backups, observed, now, historyVars>>

\* VerifyRecoveryApproval, before the transaction.
AdmitCheck(a) ==
    /\ proc = "up"
    /\ calls = {}
    /\ a \in approvals
    /\ Validate(a, now)
    /\ calls' = {[approval |-> a, stage |-> "checked"]}
    /\ UNCHANGED <<copyVars, proc, recovering, worldVars, historyVars>>

Lifted(a) ==
    /\ db' = [db EXCEPT !.fence = FALSE]
    /\ epoch' = epoch + 1
    /\ admitted' = TRUE
    /\ replayed' = (replayed \/ a.epoch # epoch)

\* The transaction: recovery_admission (which nothing reads) is stored and
\* the fence removed, or ErrLifecycleConflict.
AdmitCommit(c) ==
    /\ c \in calls
    /\ c.stage = "checked"
    /\ IF Matches(c.approval, db)
       THEN /\ Lifted(c.approval)
            /\ calls' = {[c EXCEPT !.stage = "committed"]}
       ELSE /\ calls' = {}
            /\ UNCHANGED <<db, epoch, admitted, replayed>>
    /\ UNCHANGED <<marker, active, unsynced, phase, pristine, proc, recovering,
                   worldVars, issued, writes, observedIn, restores, faults>>

\* The commit reports an error and may have happened; s.recovering stays.
AdmitError(c) ==
    /\ c \in calls
    /\ c.stage = "checked"
    /\ Matches(c.approval, db)
    /\ Fault
    /\ \/ Lifted(c.approval)
       \/ UNCHANGED <<db, epoch, admitted, replayed>>
    /\ calls' = {}
    /\ UNCHANGED <<marker, active, unsynced, phase, pristine, proc, recovering,
                   worldVars, issued, writes, observedIn, restores>>

AdmitFinish(c) ==
    /\ c \in calls
    /\ c.stage = "committed"
    /\ recovering' = FALSE
    /\ calls' = {}
    /\ UNCHANGED <<copyVars, proc, worldVars, historyVars>>

\* Time passes.  An approval that has expired is refused for ever and left
\* out to save states; a call that has checked one goes on.
Tick ==
    /\ now < MaxTime
    /\ now' = now + 1
    /\ approvals' = {a \in approvals : a.expires > now + 1}
    /\ UNCHANGED <<copyVars, procVars, backups, observed, historyVars>>

-----------------------------------------------------------------------------
Prepare == PrepareMark \/ PrepareUpdate \/ PrepareActivate \/ PrepareDone

RecoveryNext ==
    \/ InsertEvent \/ VerifyCatalog \/ ApplyRetirement \/ Capture
    \/ \E b \in backups : Restore(b)
    \/ Prepare \/ PrepareError \/ PowerLoss
    \/ \E flag \in BOOLEAN : Open(flag)
    \/ SetRecoveryMode \/ SetRecoveryModeError \/ Stop \/ Restart
    \/ Observe
    \/ \E drift \in Drifts : Sign(drift)
    \/ \E a \in approvals : AdmitCheck(a)
    \/ \E c \in calls : AdmitCommit(c) \/ AdmitError(c) \/ AdmitFinish(c)
    \/ Tick

\* The controller stages a copy until it succeeds, the supervisor restarts the
\* service with the flag it was started with, the custodian reads, signs and
\* submits, and a request that is running ends.
RecoveryFairness ==
    /\ WF_vars(Prepare)
    /\ WF_vars(phase = "abandoned" /\ ~Preparable /\ \E b \in backups : Restore(b))
    /\ WF_vars(Open(FALSE))
    /\ WF_vars(phase = "restored" /\ Open(TRUE))
    /\ WF_vars(SetRecoveryMode)
    /\ SF_vars(Restart)
    /\ WF_vars(Observe)
    /\ WF_vars(\E drift \in Drifts : Sign(drift))
    /\ WF_vars(\E a \in approvals : Matches(a, db) /\ AdmitCheck(a))
    /\ WF_vars(\E c \in calls : AdmitCommit(c) \/ AdmitFinish(c))
    /\ WF_vars(Tick)

RecoverySpec == RecoveryInit /\ [][RecoveryNext]_vars /\ RecoveryFairness

-----------------------------------------------------------------------------
RecoveryTypeOK ==
    /\ db \in Database
    /\ pristine \in BOOLEAN
    /\ marker \in BOOLEAN
    /\ active \in ActiveManifest
    /\ unsynced \in BOOLEAN
    /\ phase \in {"original", "restored", "fenced", "abandoned"} \cup Staging
    /\ proc \in {"down", "starting", "up"}
    /\ recovering \in BOOLEAN
    /\ calls \subseteq [approval : RecoveryApproval, stage : {"checked", "committed"}]
    /\ backups \subseteq Database
    /\ observed \in RecoveryStates
    /\ approvals \subseteq RecoveryApproval
    /\ now \in Nat
    /\ issued \in Seq(Writes)
    /\ writes \in 0..MaxWrites
    /\ epoch \in Nat
    /\ observedIn \in Nat
    /\ admitted \in BOOLEAN
    /\ replayed \in BOOLEAN
    /\ restores \in 0..MaxRestores
    /\ faults \in 0..MaxFaults

\* A store that was restored, or started with the recovery flag, serves only
\* after an admission that came later, whatever stops, power losses, failed
\* stagings and starts without the flag lie in between.
ServesOnlyAdmitted == Serving => admitted

\* A store that serves holds exactly the records that were ever committed,
\* each under the sequence it was given: no restore of an older backup gives
\* a sequence out again or drops a record.  Left out is an approval that is
\* used, within its life, after an
\* admission that the custodian's reading does not know of.
NoReallocation == Serving /\ ~replayed => db.log = issued

\* When the staging has reported success, the service can open the copy from
\* every directory state that a power loss may leave.
PreparedOpens ==
    phase = "fenced" =>
        \A s \in Survivors(marker, active, unsynced) : Opens(db, s[2])

\* A copy that holds everything ever committed comes back into service,
\* though stagings fail, commits are ambiguous and approvals expire, unless
\* the controller puts an older backup in its place.
RecoveryCompletes ==
    (phase # "original" /\ db.log = issued) ~> (Serving \/ db.log # issued)
=============================================================================
