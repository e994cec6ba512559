------------------------- MODULE MCBillingLifecycle -------------------------
(***************************************************************************)
(* TLC instances of the lifecycle.                                         *)
(***************************************************************************)
EXTENDS BillingLifecycle, TLC

CONSTANTS s1

\* Plans over one set: record by record, or both records at once.
RetirePlans == {[from |-> 1, through |-> 1, set |-> s1],
                [from |-> 2, through |-> 2, set |-> s1],
                [from |-> 1, through |-> 2, set |-> s1]}

\* A plan for the one record, and another that reaches past the head.
RivalPlans == {[from |-> 1, through |-> 1, set |-> s1],
               [from |-> 1, through |-> 2, set |-> s1]}

CaptureSymmetry == Permutations(Ids) \cup Permutations(Sets)
RetireSymmetry == Permutations(Ops)

(***************************************************************************)
(* A store that LifecycleSpec reaches once the inbox is full and set s1    *)
(* holds all of it, verified; the first `legacy` records were committed at *)
(* time 0 and migrated at time 1, the others came after the migration.     *)
(* Retirement is checked from here.                                        *)
(***************************************************************************)
CONSTANTS i1, i2, c1, h1

FullLog == [k \in Seqs |-> [sequence |-> k,
                            event |-> [id |-> IF k = 1 THEN i1 ELSE i2,
                                       content |-> c1, host |-> h1]]]

MigratedAt(legacy) == IF legacy = 0 THEN 0 ELSE 1

FullManifest(legacy) ==
    [from |-> 1, through |-> MaxSequence, high |-> MaxSequence, created |-> 1,
     records |-> [k \in Seqs |-> [record |-> FullLog[k], at |-> MigratedAt(legacy)]]]

ArchivedInit ==
    \E legacy \in 0..MaxSequence :
    /\ version = "2"
    /\ head = MaxSequence
    /\ events = FullLog
    /\ ids = [i \in Ids |-> Binding(FullLog[IF i = i1 THEN 1 ELSE 2])]
    /\ receiptIds = [k \in Seqs |-> FullLog[k].event.id]
    /\ receiptTimes = [k \in Seqs |-> IF k <= legacy THEN Legacy ELSE MigratedAt(legacy)]
    /\ legacyThrough = legacy
    /\ backfilledThrough = legacy
    /\ legacyAgeFloor = MigratedAt(legacy)
    /\ archiveFloor = 0
    /\ archiveCache = [k \in Seqs |-> NoBody]
    /\ recoveryFence = FALSE
    /\ up = TRUE /\ failed = FALSE /\ recovering = FALSE
    /\ now = 1
    /\ cursor = [after |-> 0, through |-> 0]
    /\ collected = <<>>
    /\ log = FullLog
    /\ receivedAt = [k \in Seqs |-> IF k <= legacy THEN 0 ELSE MigratedAt(legacy)]
    /\ acked = {<<i1, c1>>}
    /\ faults = 0
    /\ captures = [s \in Sets |-> [status |-> "verified", manifest |-> FullManifest(legacy)]]
    /\ capturedThrough = MaxSequence
    /\ catalog = [s \in Sets |-> FullManifest(legacy)]
    /\ operations = [o \in Ops |-> [plan |-> NoPlan, status |-> "none", retired |-> 0]]
    /\ cacheBytes = 0
    /\ scratch = [s \in Sets |-> {"manifest", "complete"}]
    /\ cloud = [s \in Sets |-> {"parts", "manifest", "complete"}]
    /\ signed = Sets
    /\ authority = [o \in Ops |-> [plan |-> NoPlan, status |-> "none"]]
    /\ worker = Idle
    /\ finishing = [s \in Sets |-> "none"]
    /\ inflight = {}

ArchivedSpec == ArchivedInit /\ [][LifecycleNext]_lifecycleVars
=============================================================================
