------------------------ MODULE BillingRecoveryProofs ------------------------
(***************************************************************************)
(* Proofs of the safety properties of restore admission, for any number of *)
(* writes, backups, restores, approvals and faults, and for any clocks.    *)
(***************************************************************************)
EXTENDS BillingRecovery, SequenceTheorems, TLAPS

(***************************************************************************)
(* The inductive invariant.                                                *)
(***************************************************************************)
Prefix(s, t) ==
    /\ Len(s) <= Len(t)
    /\ \A k \in 1..Len(s) : s[k] = t[k]

\* A copy that was not fenced yet is not in service, and a staging has the
\* store for itself.
PhaseFollows ==
    /\ phase \in {"restored", "abandoned"} \cup Staging => ~admitted /\ proc # "up"
    /\ phase \in Staging => proc = "down"
    /\ proc # "up" => calls = {}

\* The fence is up whenever it has to be.
FenceFollows ==
    /\ db.fence => ~admitted
    /\ ~admitted /\ phase \in {"original", "fenced", "updated", "activated"} => db.fence
    /\ proc = "up" /\ ~recovering => admitted
    /\ \A c \in calls : c.stage = "committed" => admitted

\* An approval of the current epoch was signed for a store that has not been
\* in service since, so its frontier is still the real one.
ApprovalCurrent(a) == a.epoch = epoch => ~admitted /\ a.frontier = Len(issued)

ApprovalFollows ==
    /\ observedIn <= epoch
    /\ observedIn = epoch /\ observed.fenced => ~admitted
    /\ \A a \in approvals : a.epoch <= epoch /\ ApprovalCurrent(a)
    /\ \A c \in calls :
          /\ c.approval.epoch <= epoch
          /\ c.stage = "checked" => ApprovalCurrent(c.approval)
          /\ c.approval.frontier = c.approval.head

\* Every copy is a beginning of what was given out, the admitted one all of it.
LogFollows ==
    ~replayed =>
        /\ Prefix(db.log, issued)
        /\ \A b \in backups : Prefix(b.log, issued)
        /\ admitted => db.log = issued

\* The files beside a fenced or opened store let it be opened again.
FilesFollow ==
    /\ phase = "activated" => active.form = "whole" /\ active.gen = db.gen
    /\ phase = "fenced" \/ proc # "down" => Opens(db, active) /\ ~unsynced

RecoveryInv ==
    /\ RecoveryTypeOK
    /\ PhaseFollows
    /\ FenceFollows
    /\ ApprovalFollows
    /\ LogFollows
    /\ FilesFollow

(***************************************************************************)
(* One lemma per part of the invariant, with one step per action.          *)
(***************************************************************************)

\* SignRecoveryApproval adds at most one approval, of the state last read.
LEMMA SignEffect ==
    ASSUME RecoveryTypeOK, NEW drift \in Drifts, Sign(drift)
    PROVE  /\ observed.fenced
           /\ \E a \in RecoveryApproval :
                 /\ approvals' \subseteq approvals \cup {a}
                 /\ a.epoch = observedIn
                 /\ a.frontier = Len(issued)
           /\ UNCHANGED <<db, marker, active, unsynced, phase, pristine, proc,
                          recovering, calls, backups, observed, now, issued, writes,
                          epoch, observedIn, admitted, replayed, restores, faults>>
<1> DEFINE a == Approval(drift)
<1>1. /\ now \in Nat /\ observedIn \in Nat /\ observed \in RecoveryStates
      /\ issued \in Seq(Writes) /\ drift \in Nat /\ TTL \in Nat
  BY RecoveryBounds DEF RecoveryTypeOK
<1>2. a \in RecoveryApproval /\ a.epoch = observedIn /\ a.frontier = Len(issued)
  BY <1>1 DEF Approval, RecoveryApproval, RecoveryStates
<1> HIDE DEF a
<1>3. observed.fenced /\ approvals' \subseteq approvals \cup {a}
  BY DEF Sign, a
<1>4. UNCHANGED <<copyVars, procVars, backups, observed, now, historyVars>>
  BY DEF Sign
<1> QED
  BY <1>2, <1>3, <1>4 DEF copyVars, procVars, historyVars

\* The transaction of AdmitRecovery changes nothing, or it lifts the fence of
\* a store with the head that was approved.
LEMMA AdmitEffect ==
    ASSUME RecoveryTypeOK, NEW c \in calls, AdmitCommit(c) \/ AdmitError(c)
    PROVE  /\ c.stage = "checked"
           /\ \/ UNCHANGED <<db, epoch, admitted, replayed>> /\ calls' = {}
              \/ /\ db' \in Database
                 /\ db'.log = db.log /\ db'.gen = db.gen /\ db'.required = db.required
                 /\ db.fence /\ ~db'.fence
                 /\ c.approval.head = Len(db.log)
                 /\ epoch' = epoch + 1
                 /\ admitted'
                 /\ replayed' = (replayed \/ c.approval.epoch # epoch)
                 /\ calls' \subseteq [approval : {c.approval}, stage : {"committed"}]
           /\ calls' \subseteq [approval : RecoveryApproval, stage : {"checked", "committed"}]
           /\ faults' \in 0..MaxFaults
           /\ epoch' \in Nat /\ admitted' \in BOOLEAN /\ replayed' \in BOOLEAN
           /\ UNCHANGED <<marker, active, unsynced, phase, pristine, proc, recovering,
                          backups, observed, approvals, now, issued, writes, observedIn,
                          restores>>
<1>1. /\ db \in Database /\ epoch \in Nat /\ replayed \in BOOLEAN /\ admitted \in BOOLEAN
      /\ faults \in 0..MaxFaults /\ MaxFaults \in Nat
      /\ c \in [approval : RecoveryApproval, stage : {"checked", "committed"}]
  BY RecoveryBounds DEF RecoveryTypeOK
<1>2. c.stage = "checked"
  BY DEF AdmitCommit, AdmitError
<1>3. faults' \in 0..MaxFaults
  BY <1>1 DEF AdmitCommit, AdmitError, Fault
<1>4. UNCHANGED <<marker, active, unsynced, phase, pristine, proc, recovering,
                  worldVars, issued, writes, observedIn, restores>>
  BY DEF AdmitCommit, AdmitError
<1>5. \/ UNCHANGED <<db, epoch, admitted, replayed>> /\ calls' = {}
      \/ /\ Matches(c.approval, db) /\ Lifted(c.approval)
         /\ calls' \in {{}, {[c EXCEPT !.stage = "committed"]}}
  BY DEF AdmitCommit, AdmitError
<1>6. CASE UNCHANGED <<db, epoch, admitted, replayed>> /\ calls' = {}
  BY <1>1, <1>2, <1>3, <1>4, <1>6 DEF worldVars
<1>7. CASE /\ Matches(c.approval, db) /\ Lifted(c.approval)
           /\ calls' \in {{}, {[c EXCEPT !.stage = "committed"]}}
  <2>1. /\ db' \in Database
        /\ db'.log = db.log /\ db'.gen = db.gen /\ db'.required = db.required
        /\ db.fence /\ ~db'.fence
        /\ c.approval.head = Len(db.log)
    BY <1>1, <1>7 DEF Matches, Lifted, Database
  <2>2. /\ epoch' = epoch + 1 /\ admitted' = TRUE
        /\ replayed' = (replayed \/ c.approval.epoch # epoch)
    BY <1>7 DEF Lifted
  <2>3. [c EXCEPT !.stage = "committed"] \in [approval : {c.approval}, stage : {"committed"}]
    BY <1>1
  <2>4. calls' \subseteq [approval : {c.approval}, stage : {"committed"}]
    BY <1>7, <2>3
  <2>5. c.approval \in RecoveryApproval
    BY <1>1
  <2>6. calls' \subseteq [approval : RecoveryApproval, stage : {"checked", "committed"}]
    BY <2>4, <2>5
  <2>7. epoch' \in Nat /\ admitted' \in BOOLEAN /\ replayed' \in BOOLEAN
    BY <1>1, <2>2
  <2>8. UNCHANGED <<marker, active, unsynced, phase, pristine, proc, recovering,
                    backups, observed, approvals, now, issued, writes, observedIn,
                    restores>>
    BY <1>4 DEF worldVars
  <2> QED
    BY <1>2, <1>3, <2>1, <2>2, <2>4, <2>6, <2>7, <2>8, Zenon
<1> QED
  BY <1>5, <1>6, <1>7

\* A fault is counted within its bound.
LEMMA FaultCounted ==
    ASSUME faults \in 0..MaxFaults, Fault
    PROVE  faults' \in 0..MaxFaults
BY RecoveryBounds DEF Fault

\* The fields of a database, one by one.
LEMMA DatabaseFields ==
    ASSUME NEW d \in Database
    PROVE  /\ d.log \in Seq(Writes) /\ Len(d.log) \in Nat
           /\ d.floor \in Nat /\ d.ops \in Nat /\ d.cat \in Nat
           /\ d.gen \in Generations
           /\ d.required \in BOOLEAN /\ d.fence \in BOOLEAN
           /\ FencedCopy(d) \in Database
           /\ [d EXCEPT !.fence = TRUE] \in Database
<1>1. /\ d.log \in Seq(Writes) /\ d.floor \in Nat /\ d.ops \in Nat /\ d.cat \in Nat
      /\ d.gen \in Generations /\ d.required \in BOOLEAN /\ d.fence \in BOOLEAN
  BY DEF Database
<1>2. Len(d.log) \in Nat
  BY <1>1
<1>3. FencedCopy(d) \in Database
  BY DEF Database, FencedCopy
<1>4. [d EXCEPT !.fence = TRUE] \in Database
  BY DEF Database
<1> QED
  BY <1>1, <1>2, <1>3, <1>4

\* A longer log has the same beginnings.
LEMMA PrefixAppend ==
    ASSUME NEW s \in Seq(Writes), NEW t \in Seq(Writes), NEW w \in Writes, Prefix(s, t)
    PROVE  Prefix(s, Append(t, w))
<1>1. /\ Len(Append(t, w)) = Len(t) + 1
      /\ \A k \in 1..Len(t) : Append(t, w)[k] = t[k]
      /\ Len(s) \in Nat /\ Len(t) \in Nat
  OBVIOUS
<1> QED
  BY <1>1 DEF Prefix

\* A beginning of full length is the whole.
LEMMA PrefixWhole ==
    ASSUME NEW s \in Seq(Writes), NEW t \in Seq(Writes), Prefix(s, t), Len(s) = Len(t)
    PROVE  s = t
BY SeqEqual DEF Prefix

\* The transaction of AdmitRecovery makes a copy the store only when it holds
\* all that was given out.
LEMMA AdmitLog ==
    ASSUME RecoveryTypeOK, ApprovalFollows, LogFollows,
           NEW c \in calls, AdmitCommit(c) \/ AdmitError(c)
    PROVE  LogFollows'
<1> SUFFICES ASSUME ~replayed' PROVE LogFollows'
  BY DEF LogFollows
<1>1. CASE UNCHANGED <<db, epoch, admitted, replayed>>
  BY <1>1, AdmitEffect DEF LogFollows
<1>2. CASE ~(UNCHANGED <<db, epoch, admitted, replayed>>)
  <2>1. /\ c.stage = "checked" /\ db'.log = db.log
        /\ c.approval.head = Len(db.log)
        /\ replayed' = (replayed \/ c.approval.epoch # epoch)
        /\ UNCHANGED <<backups, issued>>
    BY <1>2, AdmitEffect
  <2>2. ~replayed /\ c.approval.epoch = epoch
    BY <2>1
  <2>3. Len(db.log) = Len(issued)
    BY <2>1, <2>2 DEF ApprovalFollows, ApprovalCurrent
  <2>4. Prefix(db.log, issued) /\ \A b \in backups : Prefix(b.log, issued)
    BY <2>2 DEF LogFollows
  <2>5. db \in Database /\ issued \in Seq(Writes)
    BY DEF RecoveryTypeOK
  <2>6. db.log = issued
    BY <2>3, <2>4, <2>5, PrefixWhole, DatabaseFields
  <2> QED
    BY <2>1, <2>4, <2>6 DEF LogFollows
<1> QED
  BY <1>1, <1>2

\* It takes every approval it leaves behind out of the current epoch.
LEMMA AdmitApproval ==
    ASSUME RecoveryTypeOK, ApprovalFollows,
           NEW c \in calls, AdmitCommit(c) \/ AdmitError(c)
    PROVE  ApprovalFollows'
<1>1. /\ epoch \in Nat /\ observedIn \in Nat
      /\ approvals \subseteq RecoveryApproval
      /\ c.approval \in RecoveryApproval
  BY DEF RecoveryTypeOK
<1>2. /\ observedIn <= epoch
      /\ \A a \in approvals : a.epoch <= epoch
      /\ c.approval.epoch <= epoch /\ c.approval.frontier = c.approval.head
  BY DEF ApprovalFollows
<1>3. c.approval.epoch \in Nat /\ \A a \in approvals : a.epoch \in Nat
  BY <1>1 DEF RecoveryApproval
<1>4. CASE UNCHANGED <<db, epoch, admitted, replayed>> /\ calls' = {}
  <2>1. UNCHANGED <<observed, observedIn, approvals, issued>>
    BY AdmitEffect
  <2> QED
    BY <1>4, <2>1 DEF ApprovalFollows, ApprovalCurrent
<1>5. CASE ~(UNCHANGED <<db, epoch, admitted, replayed>> /\ calls' = {})
  <2>1. /\ epoch' = epoch + 1
        /\ calls' \subseteq [approval : {c.approval}, stage : {"committed"}]
        /\ UNCHANGED <<observed, observedIn, approvals, issued>>
    BY <1>5, AdmitEffect
  <2>2. observedIn' <= epoch' /\ observedIn' # epoch'
    BY <1>1, <1>2, <2>1
  <2>3. \A a \in approvals' : a.epoch <= epoch' /\ a.epoch # epoch'
    BY <1>1, <1>2, <1>3, <2>1
  <2>4. \A x \in calls' : x.approval = c.approval /\ x.stage = "committed"
    BY <2>1
  <2>5. c.approval.epoch <= epoch'
    BY <1>1, <1>2, <1>3, <2>1
  <2> QED
    BY <1>2, <2>2, <2>3, <2>4, <2>5 DEF ApprovalFollows, ApprovalCurrent
<1> QED
  BY <1>4, <1>5

\* Every operation keeps the types of what it assigns.
LEMMA TypeStep ==
    ASSUME RecoveryTypeOK, RecoveryNext
    PROVE  RecoveryTypeOK'
<1> USE RecoveryBounds DEF RecoveryTypeOK, Staging, copyVars, procVars, worldVars,
        historyVars
<1>1. CASE InsertEvent
  <2>1. writes + 1 \in Writes /\ writes + 1 \in Nat /\ writes' \in 0..MaxWrites
    <3>1. writes \in 0..MaxWrites /\ writes < MaxWrites /\ writes' = writes + 1
      BY <1>1 DEF InsertEvent
    <3> QED  BY <3>1 DEF Writes
  <2>2. db' \in Database
    <3>0. db.log \in Seq(Writes)
      BY DatabaseFields
    <3>1. Append(db.log, writes + 1) \in Seq(Writes)
      BY <2>1, <3>0
    <3>2. db' = [db EXCEPT !.log = Append(db.log, writes + 1)]
      BY <1>1 DEF InsertEvent
    <3> QED
      BY <3>1, <3>2 DEF Database
  <2>3. issued' \in Seq(Writes)
    BY <1>1, <2>1 DEF InsertEvent
  <2> QED
    BY <1>1, <2>1, <2>2, <2>3 DEF InsertEvent
<1>2. CASE VerifyCatalog
  <2>1. writes + 1 \in Writes /\ writes + 1 \in Nat /\ writes' \in 0..MaxWrites
    <3>1. writes \in 0..MaxWrites /\ writes < MaxWrites /\ writes' = writes + 1
      BY <1>2 DEF VerifyCatalog
    <3> QED  BY <3>1 DEF Writes
  <2>2. db' \in Database
    BY <1>2, <2>1, DatabaseFields DEF VerifyCatalog, Database
  <2>3. issued' \in Seq(Writes)
    BY <1>2, <2>1 DEF VerifyCatalog
  <2> QED
    BY <1>2, <2>1, <2>2, <2>3 DEF VerifyCatalog
<1>3. CASE ApplyRetirement
  <2>1. writes + 1 \in Writes /\ writes + 1 \in Nat /\ writes' \in 0..MaxWrites
    <3>1. writes \in 0..MaxWrites /\ writes < MaxWrites /\ writes' = writes + 1
      BY <1>3 DEF ApplyRetirement
    <3> QED  BY <3>1 DEF Writes
  <2>2. db' \in Database
    BY <1>3, <2>1, DatabaseFields DEF ApplyRetirement, Database
  <2>3. issued' \in Seq(Writes)
    BY <1>3, <2>1 DEF ApplyRetirement
  <2> QED
    BY <1>3, <2>1, <2>2, <2>3 DEF ApplyRetirement
<1>4. CASE Capture
  BY <1>4 DEF Capture
<1>5. CASE \E b \in backups : Restore(b)
  <2>1. PICK b \in backups : Restore(b)
    BY <1>5
  <2>2. restores' \in 0..MaxRestores
    BY <2>1 DEF Restore
  <2>3. active' \in ActiveManifest
    BY <2>1 DEF Restore, NoManifest, ActiveManifest, Generations
  <2>4. db' \in Database
    BY <2>1 DEF Restore
  <2> QED
    BY <2>1, <2>2, <2>3, <2>4 DEF Restore
<1>6. CASE PrepareMark
  BY <1>6 DEF PrepareMark, Preparable
<1>7. CASE PrepareUpdate
  BY <1>7 DEF PrepareUpdate, FencedCopy, Database
<1>8. CASE PrepareActivate
  BY <1>8 DEF PrepareActivate, StagedManifest, ActiveManifest, Database
<1>9. CASE PrepareDone
  BY <1>9 DEF PrepareDone
<1>10. CASE PrepareError
  <2>1. db' \in Database
    BY <1>10, DatabaseFields DEF PrepareError
  <2>2. active' \in ActiveManifest
    BY <1>10, DatabaseFields DEF PrepareError, ActiveManifest
  <2>3. marker' \in BOOLEAN /\ pristine' \in BOOLEAN
    BY <1>10 DEF PrepareError
  <2>4. faults' \in 0..MaxFaults
    BY <1>10, FaultCounted DEF PrepareError
  <2> QED
    BY <1>10, <2>1, <2>2, <2>3, <2>4 DEF PrepareError
<1>11. CASE PowerLoss
  <2>1. PICK s \in Survivors(marker, active, unsynced) : marker' = s[1] /\ active' = s[2]
    BY <1>11 DEF PowerLoss
  <2>2. marker' \in BOOLEAN
    BY <2>1 DEF Survivors
  <2>3. active' \in {active, NoManifest}
    BY <2>1 DEF Survivors
  <2>4. active' \in ActiveManifest
    BY <2>3 DEF NoManifest, ActiveManifest, Generations
  <2>5. faults' \in 0..MaxFaults
    BY <1>11, FaultCounted DEF PowerLoss
  <2> QED
    BY <1>11, <2>2, <2>4, <2>5 DEF PowerLoss
<1>12. CASE \E flag \in BOOLEAN : Open(flag)
  BY <1>12 DEF Open, Database
<1>13. CASE SetRecoveryMode
  BY <1>13 DEF SetRecoveryMode, Database
<1>14. CASE SetRecoveryModeError
  <2>1. db' \in Database /\ admitted' \in BOOLEAN
    BY <1>14, DatabaseFields DEF SetRecoveryModeError
  <2>2. faults' \in 0..MaxFaults
    BY <1>14, FaultCounted DEF SetRecoveryModeError
  <2> QED
    BY <1>14, <2>1, <2>2 DEF SetRecoveryModeError
<1>15. CASE Stop
  <2>1. faults' \in 0..MaxFaults
    BY <1>15, FaultCounted DEF Stop
  <2> QED
    BY <1>15, <2>1 DEF Stop, Stopped
<1>16. CASE Restart
  BY <1>16 DEF Restart, Stopped
<1>17. CASE Observe
  BY <1>17 DEF Observe, recoveryState, RecoveryStates, Database
<1>18. CASE \E drift \in Drifts : Sign(drift)
  BY <1>18, SignEffect
<1>19. CASE \E a \in approvals : AdmitCheck(a)
  BY <1>19 DEF AdmitCheck, Validate
<1>20. CASE \E c \in calls : AdmitCommit(c)
  BY <1>20, AdmitEffect
<1>21. CASE \E c \in calls : AdmitError(c)
  BY <1>21, AdmitEffect
<1>22. CASE \E c \in calls : AdmitFinish(c)
  BY <1>22 DEF AdmitFinish
<1>23. CASE Tick
  BY <1>23 DEF Tick
<1> QED
    BY <1>1, <1>2, <1>3, <1>4, <1>5, <1>6, <1>7, <1>8, <1>9, <1>10, <1>11, <1>12,
     <1>13, <1>14, <1>15, <1>16, <1>17, <1>18, <1>19, <1>20, <1>21, <1>22, <1>23
     DEF RecoveryNext, Prepare

\* What is in service was fenced and is not being staged.
LEMMA PhaseStep ==
    ASSUME RecoveryInv, RecoveryNext
    PROVE  PhaseFollows'
<1> USE DEF RecoveryInv, PhaseFollows, FenceFollows, Staging, copyVars, procVars,
        worldVars, historyVars
<1>1. CASE InsertEvent
  BY <1>1 DEF InsertEvent
<1>2. CASE VerifyCatalog
  BY <1>2 DEF VerifyCatalog
<1>3. CASE ApplyRetirement
  BY <1>3 DEF ApplyRetirement
<1>4. CASE Capture
  BY <1>4 DEF Capture
<1>5. CASE \E b \in backups : Restore(b)
  BY <1>5 DEF Restore
<1>6. CASE PrepareMark
  BY <1>6 DEF PrepareMark, Preparable
<1>7. CASE PrepareUpdate
  BY <1>7 DEF PrepareUpdate, FencedCopy
<1>8. CASE PrepareActivate
  BY <1>8 DEF PrepareActivate, StagedManifest
<1>9. CASE PrepareDone
  BY <1>9 DEF PrepareDone
<1>10. CASE PrepareError
  BY <1>10 DEF PrepareError, FencedCopy, Preparable, Fault
<1>11. CASE PowerLoss
  BY <1>11 DEF PowerLoss, Survivors, Fault, NoManifest
<1>12. CASE \E flag \in BOOLEAN : Open(flag)
  BY <1>12 DEF Open, Opens
<1>13. CASE SetRecoveryMode
  BY <1>13 DEF SetRecoveryMode
<1>14. CASE SetRecoveryModeError
  BY <1>14 DEF SetRecoveryModeError, Fault
<1>15. CASE Stop
  BY <1>15 DEF Stop, Stopped, Fault
<1>16. CASE Restart
  BY <1>16 DEF Restart, Stopped
<1>17. CASE Observe
  BY <1>17 DEF Observe, recoveryState
<1>18. CASE \E drift \in Drifts : Sign(drift)
  BY <1>18, SignEffect
<1>19. CASE \E a \in approvals : AdmitCheck(a)
  BY <1>19 DEF AdmitCheck, Validate
<1>20. CASE \E c \in calls : AdmitCommit(c)
  BY <1>20, AdmitEffect
<1>21. CASE \E c \in calls : AdmitError(c)
  BY <1>21, AdmitEffect
<1>22. CASE \E c \in calls : AdmitFinish(c)
  BY <1>22 DEF AdmitFinish
<1>23. CASE Tick
  BY <1>23 DEF Tick
<1> QED
    BY <1>1, <1>2, <1>3, <1>4, <1>5, <1>6, <1>7, <1>8, <1>9, <1>10, <1>11, <1>12,
     <1>13, <1>14, <1>15, <1>16, <1>17, <1>18, <1>19, <1>20, <1>21, <1>22, <1>23
     DEF RecoveryNext, Prepare

\* No step takes the fence down but an admission.
LEMMA FenceStep ==
    ASSUME RecoveryInv, RecoveryNext
    PROVE  FenceFollows'
<1> USE DEF RecoveryInv, PhaseFollows, FenceFollows, Staging, copyVars, procVars,
        worldVars, historyVars, RecoveryTypeOK, Database
<1>1. CASE InsertEvent
  BY <1>1 DEF InsertEvent
<1>2. CASE VerifyCatalog
  BY <1>2 DEF VerifyCatalog
<1>3. CASE ApplyRetirement
  BY <1>3 DEF ApplyRetirement
<1>4. CASE Capture
  BY <1>4 DEF Capture
<1>5. CASE \E b \in backups : Restore(b)
  BY <1>5 DEF Restore
<1>6. CASE PrepareMark
  BY <1>6 DEF PrepareMark, Preparable
<1>7. CASE PrepareUpdate
  BY <1>7 DEF PrepareUpdate, FencedCopy
<1>8. CASE PrepareActivate
  BY <1>8 DEF PrepareActivate, StagedManifest
<1>9. CASE PrepareDone
  BY <1>9 DEF PrepareDone
<1>10. CASE PrepareError
  BY <1>10 DEF PrepareError, FencedCopy, Preparable, Fault
<1>11. CASE PowerLoss
  BY <1>11 DEF PowerLoss, Survivors, Fault, NoManifest
<1>12. CASE \E flag \in BOOLEAN : Open(flag)
  BY <1>12 DEF Open, Opens
<1>13. CASE SetRecoveryMode
  BY <1>13 DEF SetRecoveryMode
<1>14. CASE SetRecoveryModeError
  BY <1>14 DEF SetRecoveryModeError, Fault
<1>15. CASE Stop
  BY <1>15 DEF Stop, Stopped, Fault
<1>16. CASE Restart
  BY <1>16 DEF Restart, Stopped
<1>17. CASE Observe
  BY <1>17 DEF Observe, recoveryState
<1>18. CASE \E drift \in Drifts : Sign(drift)
  BY <1>18, SignEffect
<1>19. CASE \E a \in approvals : AdmitCheck(a)
  BY <1>19 DEF AdmitCheck, Validate
<1>20. CASE \E c \in calls : AdmitCommit(c)
  BY <1>20, AdmitEffect
<1>21. CASE \E c \in calls : AdmitError(c)
  BY <1>21, AdmitEffect
<1>22. CASE \E c \in calls : AdmitFinish(c)
  BY <1>22 DEF AdmitFinish
<1>23. CASE Tick
  BY <1>23 DEF Tick
<1> QED
    BY <1>1, <1>2, <1>3, <1>4, <1>5, <1>6, <1>7, <1>8, <1>9, <1>10, <1>11, <1>12,
     <1>13, <1>14, <1>15, <1>16, <1>17, <1>18, <1>19, <1>20, <1>21, <1>22, <1>23
     DEF RecoveryNext, Prepare

\* Approvals of the current epoch stay current until one of them is used.
LEMMA ApprovalStep ==
    ASSUME RecoveryInv, RecoveryNext
    PROVE  ApprovalFollows'
<1> USE DEF RecoveryInv, FenceFollows, ApprovalFollows, ApprovalCurrent, copyVars,
        procVars, worldVars, historyVars, RecoveryTypeOK, RecoveryApproval,
        RecoveryStates, Serving
<1>1. CASE InsertEvent
  BY <1>1 DEF InsertEvent
<1>2. CASE VerifyCatalog
  BY <1>2 DEF VerifyCatalog
<1>3. CASE ApplyRetirement
  BY <1>3 DEF ApplyRetirement
<1>4. CASE Capture
  BY <1>4 DEF Capture
<1>5. CASE \E b \in backups : Restore(b)
  BY <1>5 DEF Restore
<1>6. CASE PrepareMark
  BY <1>6 DEF PrepareMark, Preparable
<1>7. CASE PrepareUpdate
  BY <1>7 DEF PrepareUpdate, FencedCopy
<1>8. CASE PrepareActivate
  BY <1>8 DEF PrepareActivate, StagedManifest
<1>9. CASE PrepareDone
  BY <1>9 DEF PrepareDone
<1>10. CASE PrepareError
  BY <1>10 DEF PrepareError, FencedCopy, Preparable, Fault
<1>11. CASE PowerLoss
  BY <1>11 DEF PowerLoss, Survivors, Fault, NoManifest
<1>12. CASE \E flag \in BOOLEAN : Open(flag)
  BY <1>12 DEF Open, Opens
<1>13. CASE SetRecoveryMode
  BY <1>13 DEF SetRecoveryMode
<1>14. CASE SetRecoveryModeError
  BY <1>14 DEF SetRecoveryModeError, Fault
<1>15. CASE Stop
  BY <1>15 DEF Stop, Stopped, Fault
<1>16. CASE Restart
  BY <1>16 DEF Restart, Stopped
<1>17. CASE Observe
  BY <1>17 DEF Observe, recoveryState
<1>18. CASE \E drift \in Drifts : Sign(drift)
  BY <1>18, SignEffect
<1>19. CASE \E a \in approvals : AdmitCheck(a)
  BY <1>19 DEF AdmitCheck, Validate
<1>20. CASE \E c \in calls : AdmitCommit(c)
  BY <1>20, AdmitApproval
<1>21. CASE \E c \in calls : AdmitError(c)
  BY <1>21, AdmitApproval
<1>22. CASE \E c \in calls : AdmitFinish(c)
  BY <1>22 DEF AdmitFinish
<1>23. CASE Tick
  BY <1>23 DEF Tick
<1> QED
    BY <1>1, <1>2, <1>3, <1>4, <1>5, <1>6, <1>7, <1>8, <1>9, <1>10, <1>11, <1>12,
     <1>13, <1>14, <1>15, <1>16, <1>17, <1>18, <1>19, <1>20, <1>21, <1>22, <1>23
     DEF RecoveryNext, Prepare

\* Only an admission of all that was given out makes a copy the store.
LEMMA LogStep ==
    ASSUME RecoveryInv, RecoveryNext
    PROVE  LogFollows'
<1> USE DEF RecoveryInv, FenceFollows, ApprovalFollows, ApprovalCurrent, LogFollows,
        copyVars, procVars, worldVars, historyVars, RecoveryTypeOK, Serving
<1>1. CASE InsertEvent
  <2> SUFFICES ASSUME ~replayed' PROVE LogFollows'
    OBVIOUS
  <2>1. /\ writes + 1 \in Writes /\ UNCHANGED <<backups, admitted, replayed>>
        /\ issued' = Append(issued, writes + 1)
        /\ admitted
    <3>1. writes \in 0..MaxWrites /\ writes < MaxWrites
      BY <1>1 DEF InsertEvent
    <3>2. writes + 1 \in Writes
      BY <3>1, RecoveryBounds DEF Writes
    <3> QED
      BY <1>1, <3>2 DEF InsertEvent
  <2>2. db.log = issued /\ issued \in Seq(Writes) /\ issued' \in Seq(Writes)
    BY <2>1
  <2>3. db' = [db EXCEPT !.log = Append(db.log, writes + 1)]
    BY <1>1 DEF InsertEvent
  <2>4. db'.log = issued'
    BY <2>1, <2>2, <2>3
  <2>5. Prefix(db'.log, issued')
    BY <2>2, <2>4 DEF Prefix
  <2>6. \A b \in backups' : Prefix(b.log, issued')
    BY <2>1, <2>2, PrefixAppend, DatabaseFields
  <2> QED
    BY <2>4, <2>5, <2>6
<1>2. CASE VerifyCatalog
  BY <1>2 DEF VerifyCatalog
<1>3. CASE ApplyRetirement
  BY <1>3 DEF ApplyRetirement
<1>4. CASE Capture
  BY <1>4 DEF Capture
<1>5. CASE \E b \in backups : Restore(b)
  BY <1>5 DEF Restore
<1>6. CASE PrepareMark
  BY <1>6 DEF PrepareMark, Preparable
<1>7. CASE PrepareUpdate
  BY <1>7 DEF PrepareUpdate, FencedCopy
<1>8. CASE PrepareActivate
  BY <1>8 DEF PrepareActivate, StagedManifest
<1>9. CASE PrepareDone
  BY <1>9 DEF PrepareDone
<1>10. CASE PrepareError
  <2>1. db'.log = db.log /\ UNCHANGED <<backups, issued, replayed>>
    BY <1>10, DatabaseFields DEF PrepareError, Database, FencedCopy
  <2>2. admitted' => admitted
    BY <1>10 DEF PrepareError
  <2> QED
    BY <2>1, <2>2
<1>11. CASE PowerLoss
  BY <1>11 DEF PowerLoss, Survivors, Fault, NoManifest
<1>12. CASE \E flag \in BOOLEAN : Open(flag)
  BY <1>12 DEF Open, Opens
<1>13. CASE SetRecoveryMode
  BY <1>13 DEF SetRecoveryMode
<1>14. CASE SetRecoveryModeError
  <2>1. db'.log = db.log /\ UNCHANGED <<backups, issued, replayed>>
    BY <1>14, DatabaseFields DEF SetRecoveryModeError, Database
  <2>2. admitted' => admitted
    BY <1>14 DEF SetRecoveryModeError
  <2> QED
    BY <2>1, <2>2
<1>15. CASE Stop
  BY <1>15 DEF Stop, Stopped, Fault
<1>16. CASE Restart
  BY <1>16 DEF Restart, Stopped
<1>17. CASE Observe
  BY <1>17 DEF Observe, recoveryState
<1>18. CASE \E drift \in Drifts : Sign(drift)
  <2>1. UNCHANGED <<db, backups, issued, admitted, replayed>>
    BY <1>18, SignEffect
  <2> QED
    BY <2>1
<1>19. CASE \E a \in approvals : AdmitCheck(a)
  BY <1>19 DEF AdmitCheck, Validate
<1>20. CASE \E c \in calls : AdmitCommit(c)
  BY <1>20, AdmitLog
<1>21. CASE \E c \in calls : AdmitError(c)
  BY <1>21, AdmitLog
<1>22. CASE \E c \in calls : AdmitFinish(c)
  BY <1>22 DEF AdmitFinish
<1>23. CASE Tick
  BY <1>23 DEF Tick
<1> QED
    BY <1>1, <1>2, <1>3, <1>4, <1>5, <1>6, <1>7, <1>8, <1>9, <1>10, <1>11, <1>12,
     <1>13, <1>14, <1>15, <1>16, <1>17, <1>18, <1>19, <1>20, <1>21, <1>22, <1>23
     DEF RecoveryNext, Prepare

\* The manifest goes with the generation of the copy.
LEMMA FilesStep ==
    ASSUME RecoveryInv, RecoveryNext
    PROVE  FilesFollow'
<1> USE DEF RecoveryInv, PhaseFollows, FilesFollow, Opens, Staging, copyVars,
        procVars, worldVars, historyVars, RecoveryTypeOK, Database, ActiveManifest,
        Generations
<1>1. CASE InsertEvent
  BY <1>1 DEF InsertEvent
<1>2. CASE VerifyCatalog
  BY <1>2 DEF VerifyCatalog
<1>3. CASE ApplyRetirement
  BY <1>3 DEF ApplyRetirement
<1>4. CASE Capture
  BY <1>4 DEF Capture
<1>5. CASE \E b \in backups : Restore(b)
  BY <1>5 DEF Restore
<1>6. CASE PrepareMark
  BY <1>6 DEF PrepareMark, Preparable
<1>7. CASE PrepareUpdate
  BY <1>7 DEF PrepareUpdate, FencedCopy
<1>8. CASE PrepareActivate
  BY <1>8 DEF PrepareActivate, StagedManifest
<1>9. CASE PrepareDone
  BY <1>9 DEF PrepareDone
<1>10. CASE PrepareError
  BY <1>10 DEF PrepareError, FencedCopy, Preparable, Fault
<1>11. CASE PowerLoss
  BY <1>11 DEF PowerLoss, Survivors, Fault, NoManifest
<1>12. CASE \E flag \in BOOLEAN : Open(flag)
  BY <1>12 DEF Open, Opens
<1>13. CASE SetRecoveryMode
  BY <1>13 DEF SetRecoveryMode
<1>14. CASE SetRecoveryModeError
  BY <1>14 DEF SetRecoveryModeError, Fault
<1>15. CASE Stop
  BY <1>15 DEF Stop, Stopped, Fault
<1>16. CASE Restart
  BY <1>16 DEF Restart, Stopped
<1>17. CASE Observe
  BY <1>17 DEF Observe, recoveryState
<1>18. CASE \E drift \in Drifts : Sign(drift)
  BY <1>18, SignEffect
<1>19. CASE \E a \in approvals : AdmitCheck(a)
  BY <1>19 DEF AdmitCheck, Validate
<1>20. CASE \E c \in calls : AdmitCommit(c)
  BY <1>20, AdmitEffect
<1>21. CASE \E c \in calls : AdmitError(c)
  BY <1>21, AdmitEffect
<1>22. CASE \E c \in calls : AdmitFinish(c)
  BY <1>22 DEF AdmitFinish
<1>23. CASE Tick
  BY <1>23 DEF Tick
<1> QED
    BY <1>1, <1>2, <1>3, <1>4, <1>5, <1>6, <1>7, <1>8, <1>9, <1>10, <1>11, <1>12,
     <1>13, <1>14, <1>15, <1>16, <1>17, <1>18, <1>19, <1>20, <1>21, <1>22, <1>23
     DEF RecoveryNext, Prepare

-----------------------------------------------------------------------------
\* The original store in service satisfies the invariant.
LEMMA InitInv == RecoveryInit => RecoveryInv
<1> SUFFICES ASSUME RecoveryInit PROVE RecoveryInv
  OBVIOUS
<1>1. PICK gen \in Generations :
         /\ db = [log |-> <<>>, floor |-> 0, ops |-> 0, cat |-> 0, gen |-> gen,
                  required |-> gen = "compacted", fence |-> FALSE]
         /\ active = [form |-> IF gen = "compacted" THEN "whole" ELSE "none",
                      gen |-> gen]
  BY DEF RecoveryInit
<1>2. db \in Database /\ active \in ActiveManifest /\ observed \in RecoveryStates
  <2>1. db \in Database
    BY <1>1 DEF Database
  <2>2. active \in ActiveManifest
    BY <1>1 DEF ActiveManifest
  <2>3. observed \in RecoveryStates
    BY <2>1, DatabaseFields DEF RecoveryInit, recoveryState, RecoveryStates
  <2> QED  BY <2>1, <2>2, <2>3
<1>3. RecoveryTypeOK
  <2>1. /\ marker \in BOOLEAN /\ unsynced \in BOOLEAN /\ pristine \in BOOLEAN
        /\ recovering \in BOOLEAN /\ admitted \in BOOLEAN /\ replayed \in BOOLEAN
        /\ phase = "original" /\ proc = "up"
        /\ calls = {} /\ backups = {} /\ approvals = {}
    BY DEF RecoveryInit
  <2>2. /\ now \in Nat /\ epoch \in Nat /\ observedIn \in Nat /\ writes \in 0..MaxWrites
        /\ restores \in 0..MaxRestores /\ faults \in 0..MaxFaults
        /\ issued \in Seq(Writes)
    BY RecoveryBounds DEF RecoveryInit
  <2> QED
    BY <1>2, <2>1, <2>2 DEF RecoveryTypeOK
<1>4. PhaseFollows /\ FenceFollows
  BY <1>1 DEF RecoveryInit, PhaseFollows, FenceFollows, Staging
<1>5. ApprovalFollows
  BY <1>1 DEF RecoveryInit, ApprovalFollows, recoveryState
<1>6. LogFollows
  BY <1>1 DEF RecoveryInit, LogFollows, Prefix
<1>7. FilesFollow
  BY <1>1 DEF RecoveryInit, FilesFollow, Opens, Generations
<1> QED
  BY <1>3, <1>4, <1>5, <1>6, <1>7 DEF RecoveryInv

\* Every step of the service, the controller, the custodian and the machine
\* keeps the invariant.
LEMMA NextInv == RecoveryInv /\ [RecoveryNext]_vars => RecoveryInv'
<1> SUFFICES ASSUME RecoveryInv, [RecoveryNext]_vars PROVE RecoveryInv'
  OBVIOUS
<1>1. CASE RecoveryNext
  <2>1. RecoveryTypeOK'
    BY <1>1, TypeStep DEF RecoveryInv
  <2> QED
        BY <1>1, <2>1, PhaseStep, FenceStep, ApprovalStep, LogStep, FilesStep DEF
       RecoveryInv
<1>2. CASE UNCHANGED vars
  BY <1>2 DEF RecoveryInv, RecoveryTypeOK, PhaseFollows, FenceFollows, ApprovalFollows,
              ApprovalCurrent, LogFollows, FilesFollow, Prefix, Opens, vars, copyVars,
              procVars, worldVars, historyVars
<1> QED
  BY <1>1, <1>2

\* The inductive invariant, and with it the types, hold in every reachable
\* state.
THEOREM RecoveryInductive == RecoverySpec => []RecoveryInv
BY InitInv, NextInv, PTL DEF RecoverySpec

\* Each operation of the recovery leaves the state well-typed.
THEOREM RecoveryTyped == RecoverySpec => []RecoveryTypeOK
<1>1. RecoveryInv => RecoveryTypeOK
  BY DEF RecoveryInv
<1> QED
  BY <1>1, RecoveryInductive, PTL

\* A restored or fenced store serves only after an admission that came later
\* (PrepareBillingSnapshotRecovery, SetRecoveryMode, OpenBillingInbox,
\* AdmitRecovery).
THEOREM OnlyAdmittedServes == RecoverySpec => []ServesOnlyAdmitted
<1>1. RecoveryInv => ServesOnlyAdmitted
  BY DEF RecoveryInv, FenceFollows, ServesOnlyAdmitted, Serving
<1> QED
  BY <1>1, RecoveryInductive, PTL

\* A store in service holds every record ever committed under its own
\* sequence, unless an approval was used a second time (RecoveryApproval,
\* AdmitRecovery).
THEOREM SequencesAreNotReused == RecoverySpec => []NoReallocation
<1>1. RecoveryInv => NoReallocation
  BY DEF RecoveryInv, FenceFollows, LogFollows, NoReallocation, Serving
<1> QED
  BY <1>1, RecoveryInductive, PTL

\* A copy whose staging has succeeded can be opened after any power loss
\* (PrepareBillingSnapshotRecovery, loadActivePath, validateActiveManifest).
THEOREM StagedCopyOpens == RecoverySpec => []PreparedOpens
<1>1. RecoveryInv => PreparedOpens
  BY DEF RecoveryInv, FilesFollow, PreparedOpens, Survivors, RecoveryTypeOK
<1> QED
  BY <1>1, RecoveryInductive, PTL
=============================================================================
