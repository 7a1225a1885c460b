-------------------------- MODULE GoldIndexGcProps --------------------------
EXTENDS GoldIndexGc

Pinned(s) == Written(s) /\ SnapOK(s)

(* archive-delete deletes behind a published receipt of a successful         *)
(* snapshot, compact-snapshot retires a snapshot behind the receipt of its   *)
(* replacement: whatever dies, a deleted previous index is always covered by *)
(* a receipt whose snapshot is intact, and the other archived indices are    *)
(* until the replacement stands.                                             *)
DeletedIsArchived ==
  \A i \in Index \ Existing :
    \/ Pinned("source") /\ i \in arch["source"].set
    \/ Pinned("replacement") /\ (i = Old => i \in arch["replacement"].set)

(* A receipt is what restores and retries trust: the snapshot with its UUID  *)
(* stays successful, the source's until a replacement is pinned.             *)
ReceiptPinsSnapshot ==
  /\ Written("replacement") => SnapOK("replacement")
  /\ Written("source") => SnapOK("source") \/ Pinned("replacement")

(* Both: what is deleted can be restored, and what retries trust is there.    *)
ArchiveHolds == DeletedIsArchived /\ ReceiptPinsSnapshot

(* "Active index is never archived or deleted" (test_active_index_is_never_  *)
(* archived_or_deleted): no deletion takes the index that serves readers.    *)
ServingIndexSurvives == alias # {}

(* "Alias-free restore and fresh snapshot"                                   *)
(* (_ensure_previous_only_snapshot_via_restore): when the fallback fails, its *)
(* finally block has removed the restored index, unless the alias moved or   *)
(* OpenSearch refuses the deletion under a snapshot it is still taking.      *)
FallbackCleansUp ==
  [][\A c \in Compactor :
       jpc[c] \in {"finally", "drop", "cleaned"} /\ jpc'[c] = "failed" =>
         Old \notin Existing \/ ~AliasActiveOnly \/ InProgress(Old)]_vars

-----------------------------------------------------------------------------
(* Progress: a compaction that is submitted until it succeeds gets there,    *)
(* when archive-delete is submitted again to remove an index that a killed   *)
(* compaction left behind.  One launcher lists Jobs at a time, snapshots     *)
(* succeed, deaths are finitely many and a promotion that is run again does   *)
(* not die at the same step for ever.                                        *)
Fairness ==
  /\ \A p \in Promoter :
       /\ WF_vars(Promotion(p))
       /\ SF_vars(ReadAliasIndices(p) /\ UNCHANGED gcVars)
       /\ SF_vars(UpdateAliases(p) /\ UNCHANGED gcVars)
       /\ SF_vars(CheckActivated(p) /\ UNCHANGED gcVars)
       /\ SF_vars(Record(p) /\ UNCHANGED gcVars)
  /\ \A j \in Job : /\ SF_vars(ListJobs(j)) /\ WF_vars(CreateJob(j))
                    /\ WF_vars((j \in Reusing \/ jpc[j] # "done") /\ Resubmit(j))
  /\ \A a \in Archiver : WF_vars(ArchiveDelete(a))
  /\ \A c \in Compactor : WF_vars(Compact(c))
  /\ \A s \in Snapshot : WF_vars(SnapshotEnds(s))
  /\ WF_vars(RestoreEnds)

LiveSpec == Spec /\ Fairness

CompactionCompletes == <>(Compactor \subseteq results)
=============================================================================
