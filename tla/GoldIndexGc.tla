---------------------------- MODULE GoldIndexGc ----------------------------
(* Retention of the Research search indices (gold_index_gc): archive-delete  *)
(* snapshots and deletes the previous index, restore-drill brings it back    *)
(* from its snapshot, compact-snapshot replaces a snapshot of several        *)
(* indices by one of the previous index alone.  Each is a Kubernetes Job;    *)
(* the launcher lists conflicting Jobs before it creates one.  Promotions    *)
(* (GoldReadAlias) run beside them and are no such Job.                      *)
EXTENDS GoldReadAlias

CONSTANTS
  Old,          \* the previous index; the archive name of the operations
  Active,       \* the index they expect behind the alias
  Archiver,     \* archive-delete operations
  Reusing,      \* those given the archive receipt as an input
  Targets,      \* the indices an archive-delete operation declares
  Drill,        \* restore-drill operations
  Compactor,    \* compact-snapshot operations
  CloneIsSafe,  \* whether a clone may be free of, or carry, cluster state
  MaxMade,      \* bound: snapshots ever started
  MaxDeaths,    \* bound: Jobs that die or exceed a deadline
  SnapshotEnd,  \* how snapshots may end
  LaunchRace,   \* bound: launchers may list Jobs at the same time
  QuietDelete   \* bound: no alias update between a final check and its deletes

ASSUME GcConstants ==
  /\ {Old, Active} \subseteq Index /\ Old # Active
  /\ Reusing \subseteq Archiver
  /\ Archiver \cap Drill = {} /\ Archiver \cap Compactor = {} /\ Drill \cap Compactor = {}
  /\ Targets \in [Archiver -> SUBSET (Index \ {Active})]
  /\ CloneIsSafe \subseteq BOOLEAN
  /\ MaxMade \in Nat /\ MaxDeaths \in Nat
  /\ SnapshotEnd \subseteq {"SUCCESS", "FAILED"}
  /\ {LaunchRace, QuietDelete} \subseteq BOOLEAN

Job == Archiver \cup Drill \cup Compactor
Snapshot == {"source", "replacement"}

VARIABLES
  snap,     \* the two manual snapshots of the repository
  made,     \* snapshots started so far; the number is the snapshot's UUID
  arch,     \* archive receipts, by the snapshot they pin
  results,  \* operations whose result receipt is published
  jpc,      \* where a Job is
  mem,      \* what it remembers of its reads
  deaths

gcVars == <<snap, made, arch, results, jpc, mem, deaths>>
vars == <<aliasVars, gcVars>>

NoSnap == [state |-> "absent", set |-> {}, global |-> FALSE, by |-> "none", uuid |-> 0]
NoReceipt == [set |-> {}, uuid |-> 0]
Fresh == [had |-> {}, todo |-> {}, uuid |-> 0, ok |-> FALSE]

Init ==
  /\ AliasInit
  /\ snap = [s \in Snapshot |-> NoSnap]
  /\ made = 0
  /\ arch = [s \in Snapshot |-> NoReceipt]
  /\ results = {}
  /\ jpc = [j \in Job |-> "idle"]
  /\ mem = [j \in Job |-> Fresh]
  /\ deaths = 0

-----------------------------------------------------------------------------
(* Checks                                                                    *)

Written(s) == arch[s] # NoReceipt

\* The activation receipt of the active index names exactly the old one.
Authorised == [index |-> Active, previous |-> {Old}, changed |-> TRUE] \in activation

\* assert_snapshot_success against the receipt that pins the snapshot.
SnapOK(s) ==
  /\ snap[s].state = "SUCCESS" /\ ~snap[s].global
  /\ snap[s].set = arch[s].set /\ snap[s].uuid = arch[s].uuid

AliasActiveOnly == alias = {Active}
PreDelete(set) == set \subseteq Existing /\ AliasActiveOnly /\ Existing = set \cup {Active}
PostDelete == AliasActiveOnly /\ Existing = {Active}

InProgress(i) == \E s \in Snapshot : snap[s].state = "IN_PROGRESS" /\ i \in snap[s].set

-----------------------------------------------------------------------------
(* Jobs                                                                      *)

Running(j) == jpc[j] \notin {"idle", "listed", "failed", "killed", "done"}

To(j, phase) == jpc' = [jpc EXCEPT ![j] = phase]

\* A step of a Job that changes nothing but its position.
Decide(j, phase) ==
  To(j, phase) /\ UNCHANGED <<aliasVars, snap, made, arch, results, mem, deaths>>

\* assert_no_conflicting_jobs: builder, GC, restore and snapshot GC exclude
\* one another.
Clear(j) == \A k \in Job \ {j} : ~Running(k) /\ (LaunchRace \/ jpc[k] # "listed")

\* A run that reuses an archive receipt needs one to be submitted at all.
ListJobs(j) ==
  /\ jpc[j] = "idle" /\ Clear(j)
  /\ j \in Reusing \cup Drill \cup Compactor => Written("source")
  /\ Decide(j, "listed")

CreateJob(j) == jpc[j] = "listed" /\ Decide(j, "start")

\* An operation that ended is submitted again; a reusing one under a new
\* operation identity, hence without a result.
Resubmit(j) ==
  /\ jpc[j] \in {"failed", "killed", "done"}
  /\ To(j, "idle")
  /\ mem' = [mem EXCEPT ![j] = Fresh]
  /\ results' = results \ (Reusing \cap {j})
  /\ UNCHANGED <<aliasVars, snap, made, arch, deaths>>

\* A Job dies anywhere; at the bound of snapshots it may always do so, or the
\* bound would stop it.
Dies(j) ==
  /\ Running(j) /\ (deaths < MaxDeaths \/ made = MaxMade)
  /\ deaths' = IF deaths < MaxDeaths THEN deaths + 1 ELSE deaths
  /\ To(j, "killed")
  /\ UNCHANGED <<aliasVars, snap, made, arch, results, mem>>

-----------------------------------------------------------------------------
(* OpenSearch                                                                *)

Start(s, set, global, by) ==
  /\ made < MaxMade /\ made' = made + 1
  /\ snap' = [snap EXCEPT ![s] = [state |-> "IN_PROGRESS", set |-> set,
                                  global |-> global, by |-> by, uuid |-> made + 1]]

SnapshotEnds(s) ==
  /\ snap[s].state = "IN_PROGRESS"
  /\ \E end \in SnapshotEnd : snap' = [snap EXCEPT ![s].state = end]
  /\ UNCHANGED <<aliasVars, made, arch, results, jpc, mem, deaths>>

RestoreEnds ==
  /\ idx[Old] = "restoring"
  /\ idx' = [idx EXCEPT ![Old] = "open"]
  /\ UNCHANGED <<alias, promoVars, gcVars>>

\* Deleting an index takes it from the alias; an index that is gone or being
\* snapshotted is an error.
Deletable(i) == i \in Existing /\ ~InProgress(i)
DropIndex(i) ==
  /\ idx' = [idx EXCEPT ![i] = "absent"]
  /\ alias' = alias \ {i}
  /\ UNCHANGED promoVars

\* Indices are restored under their own name, without aliases.
Restorable(s) == snap[s].state = "SUCCESS" /\ Old \in snap[s].set /\ idx[Old] = "absent"
RestoreOld ==
  /\ idx' = [idx EXCEPT ![Old] = "restoring"]
  /\ UNCHANGED <<alias, promoVars>>
-----------------------------------------------------------------------------
(* archive-delete                                                            *)

\* Receipts: an existing result is validated again, an existing archive
\* receipt must cover the targets and pin a successful snapshot.
Discover(a) ==
  /\ jpc[a] = "start"
  /\ \/ ~Authorised /\ Decide(a, "failed")
     \/ Authorised /\ a \in results
          /\ Decide(a, IF SnapOK("source") /\ PostDelete THEN "done" ELSE "failed")
     \/ Authorised /\ a \notin results
          /\ Decide(a, IF Written("source") => Targets[a] \subseteq arch["source"].set
                                                 /\ SnapOK("source")
                         THEN "inspect" ELSE "failed")

\* Targets: none left of an archived set ends the operation; otherwise the
\* cluster holds exactly them and the active index, and nothing is retained
\* that the alias or the pins use.
Inspect(a) ==
  LET had == Targets[a] \cap Existing
      sound == /\ Written("source") \/ had = Targets[a]
               /\ PreDelete(had)
               /\ Old \in had => idx[Old] = "open"
  IN /\ jpc[a] = "inspect"
     /\ IF had = {} THEN Decide(a, IF Written("source") /\ PostDelete THEN "result" ELSE "failed")
        ELSE IF ~sound THEN Decide(a, "failed")
        ELSE /\ To(a, IF Written("source") THEN "recheck" ELSE "snapshot")
             /\ mem' = [mem EXCEPT ![a].had = had]
             /\ UNCHANGED <<aliasVars, snap, made, arch, results, deaths>>

\* _ensure_snapshot: an existing snapshot of that name is taken up.
EnsureSnapshot(a) ==
  /\ jpc[a] = "snapshot"
  /\ \/ snap["source"].state # "absent" /\ Decide(a, "await")
     \/ snap["source"].state = "absent" /\ \E i \in Targets[a] : idx[i] # "open"
          /\ Decide(a, "failed")
     \/ snap["source"].state = "absent" /\ (\A i \in Targets[a] : idx[i] = "open")
          /\ Start("source", Targets[a], FALSE, a) /\ To(a, "await")
          /\ UNCHANGED <<aliasVars, arch, results, mem, deaths>>

\* The snapshot this operation waits for: its set, its metadata, successful.
Mine(s, set, by) ==
  snap[s].state = "SUCCESS" /\ snap[s].set = set /\ ~snap[s].global /\ snap[s].by = by

\* Mutant: the deletion does not wait for the archive receipt.
AwaitNoReceipt(a) ==
  /\ jpc[a] = "await" /\ snap["source"].state # "IN_PROGRESS"
  /\ Decide(a, IF Mine("source", Targets[a], a) THEN "recheck" ELSE "failed")

AwaitSnapshot(a) ==
  /\ jpc[a] = "await" /\ snap["source"].state # "IN_PROGRESS"
  /\ IF Mine("source", Targets[a], a)
       THEN /\ To(a, "archive")
            /\ mem' = [mem EXCEPT ![a].uuid = snap["source"].uuid]
            /\ UNCHANGED <<aliasVars, snap, made, arch, results, deaths>>
       ELSE Decide(a, "failed")

\* Conditional publication of an archive receipt.
Archive(j, s, set, next) ==
  LET receipt == [set |-> set, uuid |-> mem[j].uuid]
  IN IF arch[s] \in {NoReceipt, receipt}
       THEN /\ arch' = [arch EXCEPT ![s] = receipt] /\ To(j, next)
            /\ UNCHANGED <<aliasVars, snap, made, results, mem, deaths>>
       ELSE Decide(j, "failed")

PublishArchive(a) == jpc[a] = "archive" /\ Archive(a, "source", Targets[a], "recheck")

\* Mutant: the state inspected before the snapshot is trusted.
TrustInspection(a) == TRUE

\* The final check: the same targets exist, the alias has not moved.
StillDeletable(a) ==
  /\ Targets[a] \cap Existing = mem[a].had
  /\ PreDelete(mem[a].had)
  /\ Old \in mem[a].had => idx[Old] = "open"

Recheck(a) ==
  /\ jpc[a] = "recheck"
  /\ IF StillDeletable(a)
       THEN /\ To(a, "delete")
            /\ mem' = [mem EXCEPT ![a].todo = mem[a].had]
            /\ UNCHANGED <<aliasVars, snap, made, arch, results, deaths>>
       ELSE Decide(a, "failed")

DeleteIndex(a) ==
  /\ jpc[a] = "delete"
  /\ \/ mem[a].todo = {} /\ Decide(a, "settled")
     \/ \E i \in mem[a].todo :
          IF Deletable(i)
            THEN /\ DropIndex(i)
                 /\ mem' = [mem EXCEPT ![a].todo = @ \ {i}]
                 /\ UNCHANGED <<snap, made, arch, results, jpc, deaths>>
            ELSE Decide(a, "failed")

CheckDeleted(a) ==
  jpc[a] = "settled" /\ Decide(a, IF PostDelete THEN "result" ELSE "failed")

\* The result receipt of any operation.
PublishResult(j) ==
  /\ jpc[j] = "result"
  /\ results' = results \cup {j} /\ To(j, "done")
  /\ UNCHANGED <<aliasVars, snap, made, arch, mem, deaths>>

-----------------------------------------------------------------------------
(* restore-drill                                                             *)

InspectDrill(d) ==
  /\ jpc[d] = "start"
  /\ IF /\ Authorised /\ SnapOK("source") /\ AliasActiveOnly
        /\ Existing \in {{Active}, {Active, Old}}
       THEN Decide(d, IF Old \in Existing THEN "restored" ELSE "restore")
       ELSE Decide(d, "failed")

RestoreDrill(d) ==
  /\ jpc[d] = "restore"
  /\ IF Restorable("source")
       THEN /\ RestoreOld /\ To(d, "restored")
            /\ mem' = [mem EXCEPT ![d].ok = TRUE]
            /\ UNCHANGED <<snap, made, arch, results, deaths>>
       ELSE Decide(d, "failed")

\* Alias and index set after the restore.  A receipt of an earlier restore
\* stands for an index that is still there; it conflicts with a new one.
VerifyDrill(d) ==
  /\ jpc[d] = "restored" /\ idx[Old] # "restoring"
  /\ IF idx[Old] = "open" /\ AliasActiveOnly /\ Existing = {Active, Old}
       THEN Decide(d, IF d \notin results THEN "result"
                      ELSE IF mem[d].ok THEN "failed" ELSE "done")
       ELSE Decide(d, "failed")

-----------------------------------------------------------------------------
(* compact-snapshot                                                          *)

OpenCompaction(c) ==
  /\ jpc[c] = "start"
  /\ IF \/ ~Authorised \/ arch["source"].set = {Old} \/ ~PostDelete
        \/ c \in results /\ ~(snap["source"].state = "absent" /\ SnapOK("replacement"))
        \/ Written("replacement") /\ ~SnapOK("replacement")
        \/ snap["source"].state = "absent" /\ ~Written("replacement")
        \/ snap["source"].state # "absent" /\ ~SnapOK("source")
       THEN Decide(c, "failed")
       ELSE Decide(c, IF c \in results THEN "done"
                      ELSE IF Written("replacement") THEN "retire" ELSE "clone")

\* Mutant: a snapshot of the target name is an error.
CloneOnce(c) ==
  /\ jpc[c] = "clone"
  /\ IF SnapOK("source") /\ snap["replacement"].state = "absent"
       THEN /\ \E safe \in CloneIsSafe : Start("replacement", {Old}, ~safe, "clone")
            /\ To(c, "cloned")
            /\ UNCHANGED <<aliasVars, arch, results, mem, deaths>>
       ELSE Decide(c, "failed")

\* _ensure_snapshot_clone: a snapshot of the target name is taken up.
Clone(c) ==
  /\ jpc[c] = "clone"
  /\ \/ ~SnapOK("source") /\ Decide(c, "failed")
     \/ SnapOK("source") /\ snap["replacement"].state # "absent" /\ Decide(c, "cloned")
     \/ /\ SnapOK("source") /\ snap["replacement"].state = "absent"
        /\ \E safe \in CloneIsSafe : Start("replacement", {Old}, ~safe, "clone")
        /\ To(c, "cloned")
        /\ UNCHANGED <<aliasVars, arch, results, mem, deaths>>

Keep(c, phase) ==
  /\ To(c, phase)
  /\ mem' = [mem EXCEPT ![c].uuid = snap["replacement"].uuid, ![c].ok = TRUE]
  /\ UNCHANGED <<aliasVars, snap, made, arch, results, deaths>>

\* Mutant: cluster state in the clone goes unnoticed.
AwaitAnyClone(c) ==
  /\ jpc[c] = "cloned" /\ snap["replacement"].state # "IN_PROGRESS"
  /\ IF snap["replacement"].state # "SUCCESS" THEN Decide(c, "failed") ELSE Keep(c, "replace")

AwaitClone(c) ==
  LET r == snap["replacement"]
  IN /\ jpc[c] = "cloned" /\ r.state # "IN_PROGRESS"
     /\ IF r.state # "SUCCESS" THEN Decide(c, "failed")
        ELSE IF r.global THEN Decide(c, "unsafe") ELSE Keep(c, "replace")

\* A clone with cluster state is deleted and made anew from a restored index.
DropClone(c) ==
  LET r == snap["replacement"]
  IN /\ jpc[c] = "unsafe"
     /\ IF r.state = "SUCCESS" /\ r.global
          THEN /\ snap' = [snap EXCEPT !["replacement"] = NoSnap] /\ To(c, "fallback")
               /\ UNCHANGED <<aliasVars, made, arch, results, mem, deaths>>
          ELSE Decide(c, "failed")

RestoreFallback(c) ==
  /\ jpc[c] = "fallback"
  /\ IF AliasActiveOnly /\ Restorable("source")
       THEN RestoreOld /\ To(c, "refill") /\ UNCHANGED <<snap, made, arch, results, mem, deaths>>
       ELSE Decide(c, "failed")

\* The try block: wait, compare, snapshot, wait.  Whatever is raised in it
\* ends in the finally block.
Resnapshot(c) ==
  /\ jpc[c] = "refill" /\ idx[Old] # "restoring"
  /\ \/ (~AliasActiveOnly \/ idx[Old] = "absent") /\ Decide(c, "finally")
     \/ /\ AliasActiveOnly /\ idx[Old] = "open"
        /\ IF snap["replacement"].state = "absent"
             THEN /\ Start("replacement", {Old}, FALSE, c) /\ To(c, "resnapped")
                  /\ UNCHANGED <<aliasVars, arch, results, mem, deaths>>
             ELSE Decide(c, "resnapped")

AwaitResnapshot(c) ==
  /\ jpc[c] = "resnapped" /\ snap["replacement"].state # "IN_PROGRESS"
  /\ IF Mine("replacement", {Old}, c) THEN Keep(c, "finally") ELSE Decide(c, "finally")

\* A wait that exceeds its deadline.
TimesOut(c) ==
  /\ jpc[c] \in {"refill", "resnapped"} /\ deaths < MaxDeaths
  /\ deaths' = deaths + 1 /\ To(c, "finally")
  /\ UNCHANGED <<aliasVars, snap, made, arch, results, mem>>

\* Mutant: the restored index is left behind when the try block failed.
FinallyOnSuccess(c) ==
  /\ jpc[c] = "finally"
  /\ Decide(c, IF mem[c].ok /\ AliasActiveOnly /\ Old \in Existing THEN "drop" ELSE "failed")

Finally(c) ==
  /\ jpc[c] = "finally"
  /\ Decide(c, IF Old \notin Existing THEN "cleaned"
               ELSE IF AliasActiveOnly THEN "drop" ELSE "failed")

DropRestored(c) ==
  /\ jpc[c] = "drop"
  /\ IF Deletable(Old)
       THEN DropIndex(Old) /\ To(c, "cleaned")
            /\ UNCHANGED <<snap, made, arch, results, mem, deaths>>
       ELSE Decide(c, "failed")

CheckCleaned(c) ==
  jpc[c] = "cleaned" /\ Decide(c, IF PostDelete /\ mem[c].ok THEN "replace" ELSE "failed")

PublishReplacement(c) == jpc[c] = "replace" /\ Archive(c, "replacement", {Old}, "retire")

\* Only behind a verified replacement is the source snapshot deleted; one that
\* is being restored cannot be.
Retire(c) ==
  /\ jpc[c] = "retire"
  /\ IF ~SnapOK("replacement") THEN Decide(c, "failed")
     ELSE IF snap["source"].state = "absent" THEN Decide(c, "validate")
     ELSE IF SnapOK("source") /\ idx[Old] # "restoring"
       THEN /\ snap' = [snap EXCEPT !["source"] = NoSnap] /\ To(c, "validate")
            /\ UNCHANGED <<aliasVars, made, arch, results, mem, deaths>>
       ELSE Decide(c, "failed")

ValidateCompaction(c) ==
  /\ jpc[c] = "validate"
  /\ Decide(c, IF snap["source"].state = "absent" /\ SnapOK("replacement") /\ PostDelete
                 THEN "result" ELSE "failed")

-----------------------------------------------------------------------------
ArchiveDelete(a) ==
  \/ Discover(a) \/ Inspect(a) \/ EnsureSnapshot(a) \/ AwaitSnapshot(a)
  \/ PublishArchive(a) \/ Recheck(a) \/ DeleteIndex(a) \/ CheckDeleted(a) \/ PublishResult(a)

RestoreDrillStep(d) ==
  InspectDrill(d) \/ RestoreDrill(d) \/ VerifyDrill(d) \/ PublishResult(d)

Compact(c) ==
  \/ OpenCompaction(c) \/ Clone(c) \/ AwaitClone(c) \/ DropClone(c)
  \/ RestoreFallback(c) \/ Resnapshot(c) \/ AwaitResnapshot(c) \/ TimesOut(c)
  \/ Finally(c) \/ DropRestored(c) \/ CheckCleaned(c) \/ PublishReplacement(c) \/ Retire(c)
  \/ ValidateCompaction(c) \/ PublishResult(c)

Launch(j) == ListJobs(j) \/ CreateJob(j) \/ Resubmit(j)

Deleting == \E j \in Job : jpc[j] \in {"delete", "drop"}

Promotion(p) ==
  /\ Promote(p) /\ UNCHANGED gcVars
  /\ QuietDelete /\ Deleting => UNCHANGED alias

Next ==
  \/ \E p \in Promoter : Promotion(p)
  \/ \E j \in Job : Launch(j) \/ Dies(j)
  \/ \E a \in Archiver : ArchiveDelete(a)
  \/ \E d \in Drill : RestoreDrillStep(d)
  \/ \E c \in Compactor : Compact(c)
  \/ \E s \in Snapshot : SnapshotEnds(s)
  \/ RestoreEnds

Spec == Init /\ [][Next]_vars
=============================================================================
