---------------------------- MODULE GoldIndexBuild ----------------------------
(* The builder of one Research index: every invocation derives one build ID    *)
(* from a release and a configuration, hence one concrete index, one set of    *)
(* partition receipts and one manifest.  It writes the whole release, or       *)
(* copies the index that is served and applies the affected entities.  It is   *)
(* run again after it raised or was killed, and resumes from its receipts.     *)
EXTENDS Integers, FiniteSets, Functions

CONSTANTS
  Runs,       \* invocations of the builder
  Keys,       \* entities
  BaseKeys,   \* those of the base index
  PartOf,     \* entity -> its partition
  ResultUri,  \* run -> where its result goes
  Affected    \* the manifests of affected entities: what to upsert, what to delete

ASSUME BuildConstants ==
  /\ IsFiniteSet(Keys) /\ BaseKeys \subseteq Keys /\ DOMAIN PartOf = Keys
  /\ \A a \in Affected : a.upserts \subseteq Keys /\ a.deletes \subseteq Keys

VARIABLES
  affected,  \* the manifest of this release
  index,     \* the concrete index
  serving,   \* where the read alias is: "base", "target" or "other"
  receipts,  \* partition receipts in the object store
  manifest,  \* the build manifest that is stored, or None
  results,   \* runs whose result object is stored
  bld        \* the invocations

buildVars == <<affected, index, serving, receipts, manifest, results, bld>>

None == [none |-> TRUE]
Upserts == affected.upserts
Deletes == affected.deletes
TargetKeys == (BaseKeys \cup Upserts) \ Deletes

\* A document has the text of the base or of the target release, and names one.
BaseDoc == [text |-> "old", plan |-> "base"]
TargetDoc(k) == [text |-> IF k \in Upserts THEN "new" ELSE "old", plan |-> "target"]
Release == [k \in TargetKeys |-> TargetDoc(k)]

Absent == [exists |-> FALSE, mapped |-> FALSE, docs |-> <<>>]
Empty == [exists |-> TRUE, mapped |-> TRUE, docs |-> <<>>]

\* A document that is written replaces the one of its key.
Over(new, old) ==
  [k \in DOMAIN new \cup DOMAIN old |-> IF k \in DOMAIN new THEN new[k] ELSE old[k]]

\* A write to an index that is gone creates it, without the mapping.
Indexed(docs) == [index EXCEPT !.exists = TRUE, !.docs = Over(docs, @)]
Without(K) == [index EXCEPT !.exists = TRUE, !.docs = Restrict(@, DOMAIN @ \ K)]

Parts == Range(PartOf)
Receipt(op, p) == <<op, p>>
Baseline == Receipt("BASELINE", 0)
PartsOf(op) == {Receipt(op, p) : p \in Parts}

Idle == [pc |-> "idle", mode |-> "FULL", created |-> FALSE, op |-> "FULL",
         todo |-> {}, wrote |-> {}, failed |-> FALSE]

BuildInit ==
  /\ affected \in Affected
  /\ index = Absent /\ serving = "base" /\ receipts = {}
  /\ manifest = None /\ results = {}
  /\ bld = [r \in Runs |-> Idle]

Ended == {"done", "failed", "dead"}
Underway(r) == bld[r].pc \notin Ended \cup {"idle"}
\* A run that has ended knows nothing; one that raised, who created the index.
Goto(r, pc) ==
  bld' = [bld EXCEPT ![r] =
    IF pc \in Ended THEN [Idle EXCEPT !.pc = pc]
    ELSE IF pc = "cleanup" THEN [Idle EXCEPT !.pc = pc, !.created = bld[r].created]
    ELSE [@ EXCEPT !.pc = pc]]

-----------------------------------------------------------------------------
(* The index and, for an incremental build, its baseline                      *)

\* validate_gold_affected_entity_manifest: what is affected is that of the release.
AffectedFits == affected.plan = "target"

\* The release, its policy and the affected manifest are read and compared.
Begin(r, mode) ==
  /\ bld[r].pc = "idle"
  /\ IF mode = "INCREMENTAL" => AffectedFits
     THEN bld' = [bld EXCEPT ![r] = [Idle EXCEPT !.pc = "ensure", !.mode = mode]]
     ELSE Goto(r, "failed")
  /\ UNCHANGED <<affected, index, serving, receipts, manifest, results>>

\* What comes first in the index: all partitions, or the copy of the base.
Loads(r, created) ==
  bld' = [bld EXCEPT ![r] =
    IF @.mode = "FULL" THEN [@ EXCEPT !.created = created, !.pc = "bulk", !.todo = PartsOf("FULL")]
    ELSE [@ EXCEPT !.created = created, !.pc = "baseline"]]
Upserting(r) ==
  bld' = [bld EXCEPT ![r] = [@ EXCEPT !.pc = "bulk", !.op = "UPSERT", !.todo = PartsOf("UPSERT")]]

\* ensure_gold_index: an index that is there is adopted when it has the mapping.
Ensure(r) ==
  /\ bld[r].pc = "ensure"
  /\ IF index.exists
     THEN /\ IF index.mapped THEN Loads(r, FALSE) ELSE Goto(r, "cleanup")
          /\ UNCHANGED index
     ELSE /\ index' = Empty
          /\ Loads(r, TRUE) \/ Goto(r, "cleanup")   \* the answer may be lost
  /\ UNCHANGED <<affected, serving, receipts, manifest, results>>

\* A receipt stands for work only in an index that this run has not created.
Reusable(r, receipt) == receipt \in receipts /\ ~bld[r].created

\* ensure_incremental_gold_baseline, up to the copy.
CheckBaseline(r) ==
  /\ bld[r].pc = "baseline"
  /\ IF serving # "other" /\ Reusable(r, Baseline) THEN Upserting(r)
     ELSE Goto(r, IF serving = "base" THEN "reindex" ELSE "cleanup")
  /\ UNCHANGED <<affected, index, serving, receipts, manifest, results>>

\* _validate_by_query_response: as many documents were matched, and as many of
\* them written or left as they are, as the base index has.
Fulfilled(matched, written) ==
  Cardinality(matched) = Cardinality(BaseKeys) /\ Cardinality(written) = Cardinality(BaseKeys)

\* _await_opensearch_task: the answer of the task counts, or there is an error, or
\* none by the deadline.
Await(r, answer, next) == (answer /\ Goto(r, next)) \/ Goto(r, "cleanup")

\* The copy may stop half way.
Reindex(r) ==
  /\ bld[r].pc = "reindex"
  /\ \E K \in SUBSET BaseKeys :
       /\ index' = Indexed([k \in K |-> BaseDoc])
       /\ Await(r, Fulfilled(BaseKeys, K), "update")
  /\ UNCHANGED <<affected, serving, receipts, manifest, results>>

OfBase == {k \in DOMAIN index.docs : index.docs[k].plan = "base"}

\* validate_gold_index_contents: the mapping, the number of documents, and the
\* number of those that name the release.
ContentsValid(count) ==
  /\ index.exists /\ index.mapped
  /\ Cardinality(DOMAIN index.docs) = count
  /\ OfBase = {}

\* update_by_query renames the release in the documents of the base; the index
\* is validated and the baseline's receipt published.
Rename(r) ==
  /\ bld[r].pc = "update"
  /\ \E K \in SUBSET OfBase :
       /\ index' = Indexed([k \in K |-> [index.docs[k] EXCEPT !.plan = "target"]])
       /\ Await(r, Fulfilled(OfBase, K), "seal")
  /\ UNCHANGED <<affected, serving, receipts, manifest, results>>

Seal(r) ==
  /\ bld[r].pc = "seal"
  /\ IF ContentsValid(Cardinality(BaseKeys))
     THEN receipts' = receipts \cup {Baseline} /\ Upserting(r)
     ELSE Goto(r, "cleanup") /\ UNCHANGED receipts
  /\ UNCHANGED <<affected, index, serving, manifest, results>>

-----------------------------------------------------------------------------
(* The partitions, in any order; DELETE comes after UPSERT                     *)

KeysOf(op, p) ==
  {k \in CASE op = "FULL" -> TargetKeys [] op = "UPSERT" -> Upserts [] op = "DELETE" -> Deletes :
     PartOf[k] = p}

WrittenWhole(r, part) == [bld[r] EXCEPT !.wrote = @ \cup {part}]
Settled(r, part) == [bld[r] EXCEPT !.todo = @ \ {part}, !.wrote = @ \ {part}]

Skip(r, part) ==
  /\ bld[r].pc = "bulk" /\ part \in bld[r].todo \ bld[r].wrote
  /\ Reusable(r, part)
  /\ bld' = [bld EXCEPT ![r] = Settled(r, part)]
  /\ UNCHANGED <<affected, index, serving, receipts, manifest, results>>

\* gold_bulk_partition: every action may be refused; a partition with errors
\* has no receipt, and the run goes on to the others.  Or the task raises.
Write(r, part) ==
  /\ bld[r].pc = "bulk" /\ part \in bld[r].todo \ bld[r].wrote
  /\ ~Reusable(r, part)
  /\ \E K \in SUBSET KeysOf(part[1], part[2]) :
       /\ index' = IF part[1] = "DELETE" THEN Without(K) ELSE Indexed([k \in K |-> TargetDoc(k)])
       /\ \/ Goto(r, "cleanup")
          \/ bld' = [bld EXCEPT ![r] =
               IF K = KeysOf(part[1], part[2]) THEN WrittenWhole(r, part)
               ELSE [Settled(r, part) EXCEPT !.failed = TRUE]]
  /\ UNCHANGED <<affected, serving, receipts, manifest, results>>

\* The receipt is put, or the one that is there is found equal.
Publish(r, part) ==
  /\ bld[r].pc = "bulk" /\ part \in bld[r].wrote
  /\ receipts' = receipts \cup {part}
  /\ bld' = [bld EXCEPT ![r] = Settled(r, part)]
  /\ UNCHANGED <<affected, index, serving, manifest, results>>

\* _index_gold_spark_partition: what a receipt stands for is not written again; a
\* partition that was written whole gets its receipt.
IndexPartition(r, part) == Skip(r, part) \/ Write(r, part) \/ Publish(r, part)

\* Every affected entity is in the index or is not.
AffectedApplied == Upserts \subseteq DOMAIN index.docs /\ Deletes \cap DOMAIN index.docs = {}

\* What has been written agrees with the release in numbers.
Reconciled(r) ==
  /\ ~bld[r].failed
  /\ ContentsValid(Cardinality(TargetKeys))
  /\ bld[r].mode = "INCREMENTAL" => AffectedApplied

\* All partitions are settled: on to the deletions, or to the reconciliation.
Collect(r) ==
  /\ bld[r].pc = "bulk" /\ bld[r].todo = {}
  /\ IF bld[r].op = "UPSERT"
     THEN bld' = [bld EXCEPT ![r] = [@ EXCEPT !.op = "DELETE", !.todo = PartsOf("DELETE")]]
     ELSE Goto(r, IF Reconciled(r) THEN "manifest" ELSE "cleanup")
  /\ UNCHANGED <<affected, index, serving, receipts, manifest, results>>

\* GoldIndexBuildManifest: the entities, and what was affected if the build was
\* incremental.  It says when the run ended.
BuildManifest(r) ==
  [by |-> r, documents |-> Cardinality(TargetKeys),
   affected |-> IF bld[r].mode = "INCREMENTAL" THEN affected ELSE None]

\* The manifest of another run is a conflict.
PublishManifest(r) ==
  /\ bld[r].pc = "manifest"
  /\ IF manifest = None
     THEN manifest' = BuildManifest(r) /\ (Goto(r, "recheck") \/ Goto(r, "cleanup"))
     ELSE Goto(r, "cleanup") /\ UNCHANGED manifest
  /\ UNCHANGED <<affected, index, serving, receipts, results>>

\* The contents again, and for an incremental build the alias.
Recheck(r) ==
  /\ bld[r].pc = "recheck"
  /\ Goto(r, IF /\ ContentsValid(Cardinality(TargetKeys))
                /\ bld[r].mode = "INCREMENTAL" => serving # "other"
             THEN "result" ELSE "cleanup")
  /\ UNCHANGED <<affected, index, serving, receipts, manifest, results>>

\* The result object comes after the block that cleans up.
PublishResult(r) ==
  /\ bld[r].pc = "result"
  /\ \/ /\ \A q \in results : ResultUri[q] # ResultUri[r]
        /\ results' = results \cup {r} /\ (Goto(r, "done") \/ Goto(r, "failed"))
     \/ Goto(r, "failed") /\ UNCHANGED results
  /\ UNCHANGED <<affected, index, serving, receipts, manifest>>

-----------------------------------------------------------------------------
(* The end of a run that fails                                                *)

Guarded == {"ensure", "baseline", "reindex", "update", "seal", "bulk", "manifest", "recheck"}

\* Any call may raise.
Raises(r) ==
  /\ bld[r].pc \in Guarded
  /\ Goto(r, "cleanup")
  /\ UNCHANGED <<affected, index, serving, receipts, manifest, results>>

\* Mutant: the index is deleted whoever created it.
CleanUpAny(r) ==
  /\ bld[r].pc = "cleanup"
  /\ Goto(r, IF serving # "target" /\ index.exists THEN "delete" ELSE "failed")
  /\ UNCHANGED <<affected, index, serving, receipts, manifest, results>>

\* cleanup_failed_gold_index: only an index that this run created, and that is
\* not served, is deleted.
CleanUp(r) ==
  /\ bld[r].pc = "cleanup"
  /\ Goto(r, IF bld[r].created /\ serving # "target" /\ index.exists
             THEN "delete" ELSE "failed")
  /\ UNCHANGED <<affected, index, serving, receipts, manifest, results>>

DeleteIndex(r) ==
  /\ bld[r].pc = "delete"
  /\ index' \in {index, Absent}
  /\ Goto(r, "failed")
  /\ UNCHANGED <<affected, serving, receipts, manifest, results>>

\* The pod is gone, without the clean-up.
Killed(r) ==
  /\ Underway(r)
  /\ Goto(r, "dead")
  /\ UNCHANGED <<affected, index, serving, receipts, manifest, results>>

\* What a run does by itself until it ends.
Builds(r) ==
  \/ Ensure(r) \/ CheckBaseline(r) \/ Reindex(r) \/ Rename(r) \/ Seal(r) \/ Collect(r)
  \/ PublishManifest(r) \/ Recheck(r) \/ PublishResult(r) \/ CleanUp(r) \/ DeleteIndex(r)
  \/ \E part \in bld[r].todo : IndexPartition(r, part)

BuildStep == \E r \in Runs : Builds(r) \/ Raises(r) \/ Killed(r)
=============================================================================
