------------------------------ MODULE MCCapture ------------------------------
(* One connector for each behaviour: a Wikidata dump, the partitioned IMDb    *)
(* capture, an Europeana window, the exact lookups of EIDR, the snapshots and *)
(* deltas of TVmaze, or the full-media backfill of a Wikidata dump.           *)
EXTENDS Integers, Sequences, FiniteSets

CONSTANTS
  Syncs, Editions, Ranges, RangeAttempts, WeakValidator,  \* WikidataSync
  Partitions, Shards, Workers,                            \* ConnectorPartitions
  LastSet, Pages, Listings, MaxPages, MaxRecords,         \* EuropeanaCapture
  ShardRecords, Revisions,
  LastCapture,                                            \* both
  Assertions, ShardOf, PageSize, Late, Lookups, Research, \* EidrBackfill
  BatchSize, MaxIds, MaxBatches, Attempts,
  Shows, ShowsOnPage, MaxUpdates, MaxIndexPages,          \* TvmazeCapture
  ApiAttempts, MaxShowChanges, Commands,
  Dumps, Seeds, Runs, Images, MaxClosure,                 \* WikidataBackfill
  TargetBytes, MaxBytes, ShardsPerPartition, PartitionsPerEpoch, MaxEpochs

\* A sync, a capture and a shard can be counted; record_shard_bytes, max_updates
\* and max_pages are positive, and a page of the show index covers some identifiers.  A response
\* leads to no page or forward or back to a page, never to the first one; a page has a
\* list of records.  The assertions of an epoch are finitely many, an identifier and its
\* shard are numbers; the workflow's lookup is one of the commands, and a lookup's
\* batch_size, max_ids and max_batches are positive.
ASSUME CaptureConstants ==
  /\ Editions \in Nat \ {0} /\ Ranges \in Nat \ {0}
  /\ LastCapture \in Nat /\ Partitions \in Nat /\ Shards \in Nat
  /\ Pages \in Nat \ {0} /\ MaxPages \in Nat \ {0} /\ MaxRecords \in Nat /\ Revisions \in Nat
  /\ ShardRecords \in Nat \ {0}
  /\ Shows \in Nat /\ ShowsOnPage \in Nat \ {0} /\ MaxUpdates \in Nat \ {0}
  /\ MaxIndexPages \in Nat \ {0}
  /\ IsFiniteSet(Assertions) /\ Research \in Lookups
  /\ \A a \in Assertions : a.id \in Nat /\ ShardOf[a.id] \in Nat
  /\ BatchSize \in Nat \ {0} /\ MaxIds \in Nat \ {0} /\ MaxBatches \in Nat \ {0}
  /\ \A l \in Listings :
       /\ l.after \in [1..Pages -> 0..Pages \ {1}]
       /\ l.records \in [1..Pages -> Seq([id : Nat, deleted : BOOLEAN])]

VARIABLES
  connector,
  up, sums, dest, stage, open, sy, lost,
  objects, cap, task,
  listing, revision, oaiObjects, harvest, handed,
  store, disc, apart, look, registry, wf,
  updated, changes, cmd, ran, told, feeds,
  dump, staged, things, run

wikidata == <<up, sums, dest, stage, open, sy, lost>>
imdb == <<objects, cap, task>>
europeana == <<listing, revision, oaiObjects, harvest, handed>>
eidr == <<store, disc, apart, look, registry, wf>>
tvmaze == <<updated, changes, cmd, ran, told, feeds>>
backfill == <<dump, staged, things, run>>

W == INSTANCE WikidataSync
P == INSTANCE ConnectorPartitions
E == INSTANCE EuropeanaCapture WITH objects <- oaiObjects, cap <- harvest
X == INSTANCE EidrBackfill
T == INSTANCE TvmazeCapture
B == INSTANCE WikidataBackfill

\* A listing that goes forward, and three that hand out a token again; one that
\* is empty; pages that repeat a record, cross max_records or have a deleted one.
Listing(next, records) ==
  [after |-> next, records |-> [p \in DOMAIN records |->
     [n \in DOMAIN records[p] |-> [id |-> IF records[p][n] < 0 THEN -records[p][n] ELSE records[p][n], deleted |-> records[p][n] < 0]]]]
MCListings ==
  {Listing(<<2, 3, 0>>, <<<<1, 2>>, <<3>>, <<4>>>>),
   Listing(<<2, 3, 2>>, <<<<1>>, <<>>, <<2>>>>), Listing(<<2, 3, 3>>, <<<<1>>, <<2>>, <<3>>>>),
   Listing(<<2, 2, 0>>, <<<<>>, <<>>, <<>>>>),
   Listing(<<0, 0, 0>>, <<<<>>, <<>>, <<>>>>),
   Listing(<<2, 3, 0>>, <<<<1>>, <<2, 1>>, <<2>>>>), Listing(<<2, 3, 0>>, <<<<1, 2>>, <<3, 4>>, <<5>>>>),
   Listing(<<2, 3, 0>>, <<<<1, 1>>, <<>>, <<>>>>), Listing(<<2, 0, 0>>, <<<<1>>, <<-2>>, <<>>>>)}

\* Three identifiers in scope, and one that only another source asserts.
MCAssertions ==
  {[id |-> i, scoped |-> i # 4, active |-> TRUE] : i \in 1..4}
  \cup {[id |-> 5, scoped |-> TRUE, active |-> FALSE]}
MCShardOf == <<2, 1, 1, 1, 1>>

\* A film with parents of parents and credits; one whose items are all in the last
\* of three shards, which may be too large; a chain of parents that is too long; no item.
Line(id, types, subs, rels, size) ==
  [id |-> id, item |-> id # 0, types |-> types, subs |-> subs, size |-> size,
   rels |-> {[prop |-> rel[1], to |-> rel[2]] : rel \in rels}]
MCSeeds == {<<11, "MOVIE">>, <<12, "PERSON">>, <<13, "TV_SERIES">>}
Saga ==
  <<Line(7, {}, {11}, {}, 1), Line(0, {}, {}, {}, 1),
    Line(1, {7}, {}, {<<"parent", 2>>, <<"organization", 4>>, <<"person", 4>>}, 2),
    Line(2, {}, {}, {<<"parent", 3>>}, 1), Line(3, {}, {}, {<<"organization", 5>>}, 1),
    Line(4, {}, {}, {}, 1), Line(5, {12}, {}, {}, 1)>>
Skewed(size) ==
  <<Line(2, {11}, {}, {<<"parent", 5>>}, 2),
    Line(5, {13, 12}, {}, {<<"person", 8>>}, 2), Line(8, {}, {}, {}, size)>>
Deep == [n \in 1..4 |-> Line(n, IF n = 1 THEN {11} ELSE {}, {}, {<<"parent", n + 1>>}, 1)]
NoItem == <<Line(0, {}, {}, {}, 1)>>
MCDumps == {Saga, Skewed(1), Skewed(2), Deep, NoItem}

MCInit ==
  /\ connector \in {"wikidata", "imdb", "europeana", "eidr", "tvmaze", "backfill"}
  /\ W!Init /\ P!Init /\ E!Init /\ X!EidrInit /\ T!TvmazeInit /\ B!BackfillInit
  /\ connector # "backfill" => dump.lines = NoItem /\ dump.official
  /\ connector # "tvmaze" => updated = [s \in 1..Shows |-> 0]
  /\ connector # "europeana" => listing = Listing(<<0, 0, 0>>, <<<<>>, <<>>, <<>>>>)
  /\ connector # "eidr" => apart

\* Commands in different processes run one after the other; one that comes after
\* another goes on from a watermark.
OneByOne ==
  \A l, m \in Lookups :
    /\ apart => l = m \/ {look'[l].pc, look'[m].pc} \cap X!Stopped # {}
    /\ look[m].pc \in {"done", "failed"} /\ look[l].pc = "idle" =>
         look'[l].pc = "idle" \/ look'[l].from.version # 0

Wikidata == connector = "wikidata" /\ W!Next /\ UNCHANGED <<imdb, europeana, eidr, tvmaze, backfill>>
Imdb == connector = "imdb" /\ P!Next /\ UNCHANGED <<wikidata, europeana, eidr, tvmaze, backfill>>
Europeana == connector = "europeana" /\ E!Next /\ UNCHANGED <<wikidata, imdb, eidr, tvmaze, backfill>>
Eidr == connector = "eidr" /\ X!EidrNext /\ OneByOne /\ UNCHANGED <<wikidata, imdb, europeana, tvmaze, backfill>>
Tvmaze == connector = "tvmaze" /\ T!TvmazeNext /\ UNCHANGED <<wikidata, imdb, europeana, eidr, backfill>>

Backfill ==
  connector = "backfill" /\ B!BackfillNext /\ UNCHANGED <<wikidata, imdb, europeana, eidr, tvmaze>>

MCNext == (Wikidata \/ Imdb \/ Europeana \/ Eidr \/ Tvmaze \/ Backfill) /\ UNCHANGED connector

\* Of the connector that runs: the fairness that its module states.
MCSpec ==
  /\ MCInit
  /\ [][MCNext]_<<connector, wikidata, imdb, europeana, eidr, tvmaze, backfill>>
  /\ WF_wikidata(connector = "wikidata" /\ W!Syncing)
  /\ WF_imdb(connector = "imdb" /\ P!Capturing)
  /\ WF_europeana(connector = "europeana" /\ E!Harvesting)
  /\ WF_eidr(connector = "eidr" /\ X!Looking)
  /\ WF_tvmaze(connector = "tvmaze" /\ T!Running)
  /\ WF_backfill(connector = "backfill" /\ B!Backfilling)

\* sync_official_dump publishes nothing but the official dump.
PublishedIsOfficial == W!PublishedIsOfficial
\* Concurrent syncs return one object version, repeated and concurrent captures
\* of one edition one record set, and backfills of one build one commit.
ResultsAgree == W!ResultsAgree /\ P!CapturesAgree /\ B!BackfillsAgree
\* A sync leaves no upload and no staging object behind.
SyncsCleanUp == W!SyncsCleanUp
\* publish_connector_partition: a checkpoint names every shard of its dataset;
\* finalize_connector_partitions publishes the whole batch; the summary of an
\* EIDR research has one Source Silver run for each capture of its lookup; a
\* TVmaze snapshot lacks no show that was there throughout; a backfill's commit
\* names the whole full-media scope, and its staging marker whole data.
RecordSetIsWhole ==
  /\ P!CheckpointsCover /\ P!RecordSetIsWhole /\ X!SummaryIsWhole /\ T!SnapshotIsWhole
  /\ E!ReceiptsAreBacked /\ B!CommitIsWhole /\ B!MarkerIsHonest
\* Resumed Europeana captures form a chain from the window's start; the EIDR
\* watermarks cover the identifiers before them, and the windows of a TVmaze
\* update index its updates, without a gap.
ChainHasNoGap == E!ChainHasNoGap /\ X!LookupsAreWhole /\ T!WindowsAbut
\* A listing that repeats tokens is not followed around, and the receipt's slot
\* rejects a divergent replay of a page.
PagesCommittedOnce == E!PagesCommittedOnce
\* Every command ends: a sync although ranges keep failing, a partitioned capture
\* although its workers do, a harvest, a lookup whatever the registry answers, a
\* backfill.  A command starts once, so that each has ended when none is in the
\* middle for good.
CommandsEnd ==
  <>[](W!SyncsRest /\ P!CapturesRest /\ E!CapturesRest /\ X!LookupsRest /\ T!TvmazeRests /\ B!BackfillsRest)
=============================================================================
