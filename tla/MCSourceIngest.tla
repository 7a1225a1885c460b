--------------------------- MODULE MCSourceIngest ---------------------------
(* Source-assertion runs.  One cast of submitters takes part in a behaviour: *)
(* an exact duplicate submission to a catalog that refuses stale appends,    *)
(* two runs side by side, or a run submitted again after its submitter       *)
(* stopped, while another run is ingested; or two Source Silver jobs that map *)
(* what they land, the second of which survives.                            *)
EXTENDS CommunityIngestProps, SourceSilver

MCRunOf == [w \in Writers |-> IF w = "c" THEN "r2" ELSE "r1"]
MCMode == [r \in Runs |-> "source"]
MCTableOrder == <<"record", "field">>
MCKeys == [r \in Runs |->
  [t \in {"record", "field"} |-> IF t = "record" THEN {"k1"} ELSE {r}]]

VARIABLE cast

castVars == <<vars, cast, silverVars>>

\* Two record sets, the first of two partitions and two groups; they share the
\* content of a shard.  A key or a shard may be there twice.
Shard(uri, keys) == [uri |-> uri, keys |-> keys]
Captured(third, fourth) ==
  [A |-> <<<<Shard(1, <<"k1">>), Shard(2, <<"k2", "k3">>)>>, <<third>>>>,
   B |-> <<<<fourth>>>>]
SilverContents ==
  {Captured(Shard(3, <<"k4">>), Shard(4, <<"k4">>)),
   Captured(Shard(3, <<"k1">>), Shard(4, <<"k4">>)),
   Captured(Shard(1, <<"k1">>), Shard(4, <<"k4", "k4">>))}

\* A single batch, a plan of both, a plan that misnames the second.
Batch(expect, set) == [expect |-> expect, set |-> set]
Single == <<Batch("A", "A")>>
Bundle == <<Batch("A", "A"), Batch("B", "B")>>
Misnamed == <<Batch("A", "A"), Batch("C", "B")>>

Built(mapper, policy) == [mapper |-> mapper, policy |-> policy]
SilverPlans == <<{Single, Bundle}, {Bundle, Misnamed}>>
SilverUpgrades ==
  {<<Built("m1", "p1"), Built("m2", "p1")>>, <<Built("m1", "p1"), Built("m1", "p2")>>}

\* What the proofs about the jobs assume.
ASSUME MappingConstants == SilverConstants

Playing ==
  CASE cast = "duplicate" -> {"a", "b"} [] cast = "mixed" -> {"a", "c"}
    [] cast = "resume" -> Writers [] cast = "mapping" -> {}

\* An append whose base has moved.
Stale(w) ==
  \/ wr[w].pc \in {"mland", "land"} /\ tbl[Target(w)].head # wr[w].base
  \/ wr[w].pc = "publish" /\ Len(markers) # wr[w].base

Step(w) == /\ Advance(w) \/ Crash(w)
           /\ cast = "duplicate" /\ Stale(w) => UNCHANGED <<tbl, markers>>

\* The resubmission starts once the first submitter stopped; its own driver
\* survives and its MERGEs do not raise, so that what remains to be shown is that
\* every partial state it can inherit is resumable.
Resume ==
  /\ cast = "resume"
  /\ wr["b"].pc = "idle" => wr["a"].pc \in Stopped
  /\ Advance("b")
  /\ wr'["b"].pc \notin {"err", "merr", "verify_err"}
  /\ UNCHANGED <<cast, silverVars>>

Others(w) == Step(w) /\ UNCHANGED <<cast, silverVars>>

\* The second mapping job is not killed and its store answers.
Mapping(A) == cast = "mapping" /\ A /\ UNCHANGED <<vars, cast>>
Maps == Mapping(Submit(2) \/ Survives(2))

MCNext ==
  \/ Resume
  \/ Maps
  \/ Mapping(Submit(1) \/ Fails(1) \/ Works(1) \/ QuietDeploy)
  \/ \E w \in Playing \ (IF cast = "resume" THEN {"b"} ELSE {}) : Others(w)

\* The other casts map nothing.
NoMapping ==
  /\ content = Captured(Shard(3, <<"k4">>), Shard(4, <<"k4">>))
  /\ images = <<Built("m1", "p1"), Built("m2", "p1")>>

MCInit ==
  /\ Init /\ SilverInit
  /\ cast \in {"duplicate", "mixed", "resume", "mapping"}
  /\ cast # "mapping" => NoMapping

\* Fairness: in a resubmission, submitted drivers run until they return or die.
MCSpec ==
  /\ MCInit
  /\ [][MCNext]_castVars
  /\ WF_castVars(Resume \/ Maps)
  /\ \A w \in {"a", "c"} : WF_castVars(cast = "resume" /\ Others(w))

\* An exact resubmission of a source run commits it, whatever prefix of tables
\* an earlier submitter left behind (_prepare_dataframes and _stage_data_table
\* keep complete tables).  A Source Silver job commits its sound batches, whatever
\* shards, receipts and tables earlier jobs left (_resolve_checkpoint_group).
ResumedRunCommits ==
  <>(/\ cast = "resume" => NaturalId("r1") \in Committed
     /\ cast = "mapping" => ~AllSound \/ PolicyChanged \/ AllCommitted)

\* Both submissions of one run while stale appends land: the catalog as it is.
DuplicateNext == \E w \in {"a", "b"} : (Advance(w) \/ Crash(w)) /\ UNCHANGED <<cast, silverVars>>
DuplicateInit == Init /\ SilverInit /\ NoMapping /\ cast = "duplicate"
DuplicateSpec == DuplicateInit /\ [][DuplicateNext]_castVars
=============================================================================
