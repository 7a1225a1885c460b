---------------------------- MODULE WikidataBackfill ----------------------------
(* The Wikidata full-media backfill: a run normalizes a published dump, or finds *)
(* it normalized, selects the media entities with their parents and credits, and *)
(* publishes them as a record set of shards, partitions and epochs; the commit   *)
(* comes last.  Runs may be repeated, overlap, use another image, fail at any    *)
(* call or die.                                                                  *)
EXTENDS Integers, FiniteSetsExt, SequencesExt, ImmutableStore

CONSTANTS
  Dumps,     \* contents of the dump: sequences of [id, item, types, subs, rels, size],
             \* the lines; a relation is [prop, to]
  Seeds,     \* pairs <<class, type>> of ENTITY_TYPE_SEEDS
  Runs,      \* bound: 1..Runs
  Images,    \* images that runs may have
  MaxClosure, TargetBytes, MaxBytes,               \* FullMediaBackfillConfig
  ShardsPerPartition, PartitionsPerEpoch, MaxEpochs

VARIABLES
  dump,   \* the dump, whose object version never changes: its lines, whether an
          \* official sync published it, and what is derived from the lines
  staged, \* the shared Parquet of the normalized dump: there?, whole copies, parts of one
  things, \* the object store: the staging marker and what the runs publish
  run     \* run -> state of its driver

backfillVars == <<dump, staged, things, run>>

\* gp: the partition at hand, over all epochs; shards, parts, epochs: references
\* published for the partition, the epoch and the set at hand.
IdleRun == [pc |-> "idle", mode |-> "profile", image |-> "", build |-> <<>>, gp |-> 0,
            shards |-> <<>>, parts |-> <<>>, epochs |-> <<>>, refs |-> <<>>, result |-> <<>>]

--------------------------------------------------------------------------------
(* The selection, a function of the lines                                        *)

\* normalize_dump: lines of items; properties and lexemes are not.
Rows(lines) == SelectSeq(lines, LAMBDA line : line.item)
Normalizable(lines) == Rows(lines) # <<>> /\ \A m, n \in DOMAIN Rows(lines) :
  Rows(lines)[m].id = Rows(lines)[n].id => m = n

\* The rows by their identifiers.
Entities(lines) ==
  [id \in {row.id : row \in ToSet(Rows(lines))} |-> CHOOSE row \in ToSet(Rows(lines)) : row.id = id]

Priority == <<"TV_EPISODE", "TV_SEASON", "TV_SERIES", "MOVIE", "PERSON", "ORGANIZATION">>
Media == {"TV_EPISODE", "TV_SEASON", "TV_SERIES", "MOVIE"}

\* A loop that joins Step(s) to s and may find nothing new in its last round.
Grown(start, Step(_)) ==
  LET g[n \in 0..(MaxClosure - 1)] == IF n = 0 THEN start ELSE LET s == g[n - 1] IN s \cup Step(s)
  IN  g[MaxClosure - 1]

\* classify_entities: the subclasses of the seeds, and the first type of an entity.
Subclasses(rows, closure) ==
  UNION {{<<id, c[2]>> : c \in {c \in closure : c[1] \in rows[id].subs}} : id \in DOMAIN rows}
TypeClosure(rows) == Grown(Seeds, LAMBDA c : Subclasses(rows, c))
EntityType(row, closure) ==
  LET types == {c[2] : c \in {c \in closure : c[1] \in row.types}}
  IN  IF types = {} THEN "UNKNOWN"
      ELSE Priority[Min({n \in DOMAIN Priority : Priority[n] \in types})]

Targets(rows, ids, props) ==
  UNION {{rel.to : rel \in {rel \in rows[id].rels : rel.prop \in props}} : id \in ids} \cap DOMAIN rows

Parents(rows, media) == Grown(media, LAMBDA s : Targets(rows, s, {"parent"}))

\* Mutant: the people of the media and parents, and not their organizations.
PeopleOnly(rows, ids) == Targets(rows, ids, {"person"})

Credits(rows, ids) == Targets(rows, ids, {"person", "organization"})

\* The type of a credit that has none is the hint of its relation, PERSON first.
Hinted(rows, id, by, type) ==
  IF type # "UNKNOWN" THEN type
  ELSE IF id \in Targets(rows, by, {"person"}) THEN "PERSON" ELSE "ORGANIZATION"

\* The layout of build_full_media_backfill.
CeilDiv(n, k) == (n + k - 1) \div k
BytesOf(rows, ids) == MapThenSumSet(LAMBDA id : rows[id].size, ids)
ShardCount(records, bytes) == Min({records, Max({1, CeilDiv(bytes, TargetBytes)})})

ShardOfId(id, count) == id % count
PartitionOf(shard) == shard \div ShardsPerPartition
EpochOf(gp) == gp \div PartitionsPerEpoch

\* select_full_media_entities, given the classes of its types; {} is an exception.
Selected(rows, closure) ==
  LET types == [id \in DOMAIN rows |-> EntityType(rows[id], closure)]
      roots == {id \in DOMAIN rows : types[id] \in Media}
      kept == Parents(rows, roots)
      Type(id) == IF id \in kept THEN types[id] ELSE Hinted(rows, id, kept, types[id])
      Role(id) == IF id \in roots THEN "MEDIA" ELSE IF id \in kept THEN "PARENT" ELSE "CREDIT"
  IN  IF \/ ~(Subclasses(rows, closure) \subseteq closure)
         \/ ~(Targets(rows, kept, {"parent"}) \subseteq kept)
         \/ kept = {}
      THEN {}
      ELSE {[id \in kept \cup Credits(rows, kept) |->
               [type |-> Type(id), role |-> Role(id), size |-> rows[id].size]]}

\* select_full_media_entities: classify_entities, and what it selects with the classes.
Selections(lines) ==
  UNION {Selected(rows, closure) : rows \in {Entities(lines)}, closure \in {TypeClosure(Entities(lines))}}

\* _selection_metrics
Metrics(records) ==
  [role \in {"MEDIA", "PARENT", "CREDIT"} |->
     Cardinality({id \in DOMAIN records : records[id].role = role})]

\* WikidataFullMediaProfile, with the records in place of their batch.
Profile(records) ==
  LET bytes == BytesOf(records, DOMAIN records)
      shards == ShardCount(Cardinality(DOMAIN records), bytes)
      partitions == CeilDiv(shards, ShardsPerPartition)
  IN  [records |-> records, metrics |-> Metrics(records), bytes |-> bytes, shards |-> shards,
       partitions |-> partitions, epochs |-> CeilDiv(partitions, PartitionsPerEpoch)]

MaxSupportedShards == ShardsPerPartition * PartitionsPerEpoch * MaxEpochs

\* build_full_media_backfill
Builds(lines) ==
  {profile \in {Profile(records) : records \in Selections(lines)} :
     profile.shards <= MaxSupportedShards}

\* The scope that the records are to have, for the properties: the least set that
\* has the media and with an item its parents, and the credits of its items.
Least(rows, base, Step(_)) ==
  {id \in DOMAIN rows : \A s \in SUBSET DOMAIN rows : base \subseteq s /\ Step(s) \subseteq s => id \in s}

Scope(lines) ==
  UNION {LET seeds == {seed[1] : seed \in {seed \in Seeds : seed[2] \in Media}}
             Subs(s) == {id \in DOMAIN rows : rows[id].subs \cap (s \cup seeds) # {}}
         IN  UNION {LET media == {id \in DOMAIN rows : rows[id].types \cap (classes \cup seeds) # {}}
                    IN  UNION {kept \cup Targets(rows, kept, {"person", "organization"}) :
                                 kept \in {Least(rows, media, LAMBDA s : Targets(rows, s, {"parent"}))}}
                    : classes \in {Least(rows, {}, Subs)}}
         : rows \in {Entities(lines)}}

BackfillInit ==
  /\ \E lines \in Dumps, official \in BOOLEAN :
       dump = [lines |-> lines, official |-> official,
               builds |-> IF Normalizable(lines) THEN Builds(lines) ELSE {},
               scope |-> IF Normalizable(lines) THEN Scope(lines) ELSE {}]
  /\ staged = [there |-> FALSE, copies |-> 0, torn |-> FALSE]
  /\ things = <<>>
  /\ run = [r \in 1..Runs |-> IdleRun]

--------------------------------------------------------------------------------
(* Keys and bytes.  The digest of a build covers dump, configuration and image:  *)
(* the first two are the same for all runs.                                      *)

MarkerKey == <<"normalized">>
StagingManifest == [rows |-> Len(Rows(dump.lines))]
CommitKey(image) == <<image, "commit">>

\* ObjectRef of what was published: its URI and what is behind it.
Object(key, ref) == [uri |-> key, ref |-> ref]

Ordered(ids) == SetToSortSeq(ids, <)

\* The shards of a partition that have records, by index, and their envelopes.
ShardsOf(build, gp) ==
  Ordered({ShardOfId(id, build.shards) : id \in DOMAIN build.records} \cap
          {s \in 0..(build.shards - 1) : PartitionOf(s) = gp})
Envelopes(build, shard) ==
  LET ids == Ordered({id \in DOMAIN build.records : ShardOfId(id, build.shards) = shard})
  IN  [n \in DOMAIN ids |-> <<ids[n], build.records[ids[n]].type>>]

RecordShard(shard, object) ==
  [index |-> shard, object |-> object, records |-> Len(object.ref.bytes),
   first |-> Head(object.ref.bytes)[1], last |-> Last(object.ref.bytes)[1]]

Total(entries) == MapThenSumSet(LAMBDA n : entries[n].records, DOMAIN entries)

\* ConnectorRecordSetPartitionManifest, and its index in its epoch.
PartitionManifest(gp, shards) ==
  [epoch |-> EpochOf(gp), partition |-> gp % PartitionsPerEpoch, shards |-> shards,
   records |-> Total(shards), first |-> Head(shards).first, last |-> Last(shards).last]

EpochManifest(epoch, parts) ==
  [epoch |-> epoch, partitions |-> [n \in DOMAIN parts |-> parts[n].object],
   records |-> Total(parts), first |-> Head(parts).first, last |-> Last(parts).last]

ShardedRecordSet(epochs) ==
  [epochs |-> [n \in DOMAIN epochs |-> epochs[n].object],
   records |-> Total(epochs), first |-> Head(epochs).first, last |-> Last(epochs).last]

\* An entry for the manifest above: the object and what is summed up of it.
Entry(object) ==
  LET manifest == object.ref.bytes[1]
  IN  [object |-> object, records |-> manifest.records,
       first |-> manifest.first, last |-> manifest.last]

Batch(r) == [image |-> run[r].image, records |-> Cardinality(DOMAIN run[r].build.records)]
Mark(r) == [cursor |-> run[r].image]
Receipt(r) == [cursor |-> run[r].image, batch |-> run[r].refs[1]]

\* WikidataFullMediaBackfillCommit.
Commit(r) ==
  [image |-> run[r].image, batch |-> run[r].refs[1], set |-> run[r].refs[2],
   watermark |-> run[r].refs[3], receipt |-> run[r].refs[4], profile |-> run[r].build]

--------------------------------------------------------------------------------
(* A run                                                                         *)

At(r, pc) == run[r].pc = pc
Becomes(r, state) == run' = [run EXCEPT ![r] = state]
Leaves(r) == Becomes(r, [IdleRun EXCEPT !.pc = "failed"])
Returns(r, result) ==
  Becomes(r, [IdleRun EXCEPT !.pc = "done", !.mode = run[r].mode, !.image = run[r].image,
                             !.result = <<result>>])

Publishing(r, key, bytes, Next(_)) ==
  /\ \E o \in PublishOutcomes(things, key, bytes, 1) :
       /\ things' = o.objects
       /\ IF Failed(o.ref) THEN Leaves(r) ELSE Becomes(r, Next(Object(key, o.ref)))
  /\ UNCHANGED <<dump, staged>>

\* _validate_mode: a dry run is a profile; a backfill must be confirmed.
Modes(asked, dry, confirmed) ==
  IF asked = "profile" THEN {"profile"}
  ELSE {mode \in {"backfill"} : confirmed /\ ~dry}

StartRun(r) ==
  /\ At(r, "idle")
  /\ \A q \in 1..(r - 1) : ~At(q, "idle")
  /\ \E asked \in {"profile", "backfill"}, dry, confirmed \in BOOLEAN, image \in Images :
       \E mode \in Modes(asked, dry, confirmed) :
         Becomes(r, [IdleRun EXCEPT !.pc = "dump", !.mode = mode, !.image = image])
  /\ UNCHANGED <<dump, staged, things>>

\* An exception of any call, which the driver does not handle, or its death.
RunDies(r) ==
  /\ run[r].pc \notin {"idle", "done", "failed"}
  /\ Leaves(r)
  /\ UNCHANGED <<dump, staged, things>>

\* dump_reference: the dump is verified, and was published by an official sync.
VerifyDump(r) ==
  /\ At(r, "dump")
  /\ IF ~dump.official THEN Leaves(r)
     ELSE Becomes(r, [run[r] EXCEPT !.pc = IF run[r].mode = "backfill" THEN "existing" ELSE "normalize"])
  /\ UNCHANGED <<dump, staged, things>>

\* load_existing_full_media_commit; what it names is verified.
LoadCommit(r) ==
  /\ At(r, "existing")
  /\ IF CommitKey(run[r].image) \in DOMAIN things
     THEN Returns(r, things[CommitKey(run[r].image)].bytes[1])
     ELSE Becomes(r, [run[r] EXCEPT !.pc = "normalize"])
  /\ UNCHANGED <<dump, staged, things>>

\* load_or_build_normalized_staging: a marker stands for the data if these have
\* its row count; without one the dump is normalized.
ReadMarker(r) ==
  /\ At(r, "normalize")
  /\ IF MarkerKey \in DOMAIN things
     THEN IF staged.copies = 1 /\ ~staged.torn
          THEN Becomes(r, [run[r] EXCEPT !.pc = "select"]) ELSE Leaves(r)
     ELSE IF Normalizable(dump.lines) THEN Becomes(r, [run[r] EXCEPT !.pc = "target"]) ELSE Leaves(r)
  /\ UNCHANGED <<dump, staged, things>>

\* write_normalized_staging, mode errorifexists: the check, and the write, whose
\* part files have names of their own; it may leave some of them.
CheckTarget(r) ==
  /\ At(r, "target")
  /\ IF staged.there THEN Leaves(r) ELSE Becomes(r, [run[r] EXCEPT !.pc = "write"])
  /\ UNCHANGED <<dump, staged, things>>

WriteStaging(r) ==
  /\ At(r, "write")
  /\ \/ staged' = [staged EXCEPT !.there = TRUE, !.copies = @ + 1]
        /\ Becomes(r, [run[r] EXCEPT !.pc = "marker"])
     \/ staged' = [staged EXCEPT !.there = TRUE, !.torn = TRUE] /\ Leaves(r)
  /\ UNCHANGED <<dump, things>>

PublishMarker(r) ==
  /\ At(r, "marker")
  /\ Publishing(r, MarkerKey, <<StagingManifest>>, LAMBDA object : [run[r] EXCEPT !.pc = "select"])

\* The build; a profile ends here.  A backfill also stages the shards, under a
\* name of its own, and verifies the dump again.
BuildBackfill(r) ==
  /\ At(r, "select")
  /\ IF dump.builds = {} THEN Leaves(r)
     ELSE \E build \in dump.builds :
            IF run[r].mode = "profile" THEN Returns(r, build)
            ELSE Becomes(r, [run[r] EXCEPT !.pc = "shards", !.build = build])
  /\ UNCHANGED <<dump, staged, things>>

--------------------------------------------------------------------------------
(* publish_full_media_backfill                                                   *)

Due(r) == ShardsOf(run[r].build, run[r].gp)

\* The loops go on: the next partition, or the end of an epoch.
Advanced(state) ==
  LET gp == state.gp + 1
      ends == gp = state.build.partitions \/ gp % PartitionsPerEpoch = 0
  IN  [state EXCEPT !.gp = gp, !.shards = <<>>, !.pc = IF ends THEN "epoch" ELSE "shards"]

\* _inspect_shard; that the staged part is what Spark summed up is not in doubt.
Inspected(build, lines) ==
  BytesOf(build.records, {lines[n][1] : n \in DOMAIN lines}) <= MaxBytes

PublishShard(r) ==
  /\ At(r, "shards") /\ Len(run[r].shards) < Len(Due(r))
  /\ LET shard == Due(r)[Len(run[r].shards) + 1]
         lines == Envelopes(run[r].build, shard)
         key == <<run[r].image, "shard", EpochOf(run[r].gp), run[r].gp, shard, lines>>
     IN  IF ~Inspected(run[r].build, lines)
         THEN Leaves(r) /\ UNCHANGED <<dump, staged, things>>
         ELSE Publishing(r, key, lines, LAMBDA object :
                [run[r] EXCEPT !.shards = Append(@, RecordShard(shard, object))])

\* A partition without records has no manifest.
SkipPartition(r) ==
  /\ At(r, "shards") /\ Due(r) = <<>>
  /\ Becomes(r, Advanced(run[r]))
  /\ UNCHANGED <<dump, staged, things>>

PublishPartition(r) ==
  /\ At(r, "shards") /\ Due(r) # <<>> /\ Len(run[r].shards) = Len(Due(r))
  /\ Publishing(r, <<run[r].image, "partition", run[r].gp>>,
                <<PartitionManifest(run[r].gp, run[r].shards)>>,
                LAMBDA object : Advanced([run[r] EXCEPT !.parts = Append(@, Entry(object))]))

AfterEpoch(state) ==
  [state EXCEPT !.parts = <<>>, !.pc = IF state.gp < state.build.partitions THEN "shards" ELSE "batch"]

SkipEpoch(r) ==
  /\ At(r, "epoch") /\ run[r].parts = <<>>
  /\ Becomes(r, AfterEpoch(run[r]))
  /\ UNCHANGED <<dump, staged, things>>

PublishEpoch(r) ==
  /\ At(r, "epoch") /\ run[r].parts # <<>>
  /\ LET epoch == EpochOf(run[r].gp - 1)
     IN  Publishing(r, <<run[r].image, "epoch", epoch>>, <<EpochManifest(epoch, run[r].parts)>>,
                    LAMBDA object : AfterEpoch([run[r] EXCEPT !.epochs = Append(@, Entry(object))]))

\* The totals must be those of the selection.
TotalsMatch(r) == Total(run[r].epochs) = Cardinality(DOMAIN run[r].build.records)

PublishBatch(r) ==
  /\ At(r, "batch") /\ TotalsMatch(r)
  /\ Publishing(r, <<run[r].image, "batch">>, <<Batch(r)>>,
                LAMBDA object : [run[r] EXCEPT !.pc = "set", !.refs = <<object>>])

PublishSet(r) ==
  /\ At(r, "set")
  /\ Publishing(r, <<run[r].image, "set">>, <<ShardedRecordSet(run[r].epochs)>>,
                LAMBDA object : [run[r] EXCEPT !.pc = "watermark", !.refs = Append(@, object)])

\* publish_capture_window_commit: the cursor of the slot is the build.
PublishMark(r) ==
  /\ At(r, "watermark")
  /\ Publishing(r, <<run[r].image, "watermark">>, <<Mark(r)>>,
                LAMBDA object : [run[r] EXCEPT !.pc = "receipt", !.refs = Append(@, object)])

PublishReceipt(r) ==
  /\ At(r, "receipt")
  /\ Publishing(r, <<run[r].image, "receipt">>, <<Receipt(r)>>,
                LAMBDA object : [run[r] EXCEPT !.pc = "commit", !.refs = Append(@, object)])

PublishCommit(r) ==
  /\ At(r, "commit")
  /\ Publishing(r, CommitKey(run[r].image), <<Commit(r)>>,
                LAMBDA object : [IdleRun EXCEPT !.pc = "done", !.mode = run[r].mode,
                                   !.image = run[r].image, !.result = object.ref.bytes])

--------------------------------------------------------------------------------
Works(r) ==
  \/ VerifyDump(r) \/ LoadCommit(r) \/ ReadMarker(r) \/ CheckTarget(r) \/ WriteStaging(r) \/ PublishMarker(r)
  \/ BuildBackfill(r)
  \/ PublishShard(r) \/ SkipPartition(r) \/ PublishPartition(r) \/ SkipEpoch(r) \/ PublishEpoch(r)
  \/ PublishBatch(r) \/ PublishSet(r) \/ PublishMark(r) \/ PublishReceipt(r) \/ PublishCommit(r)

BackfillNext == \E r \in 1..Runs : StartRun(r) \/ RunDies(r) \/ Works(r)

BackfillSpec == BackfillInit /\ [][BackfillNext]_backfillVars

\* The driver of a run that was started goes on.
Backfilling == \E r \in 1..Runs : Works(r)
BackfillFair == WF_backfillVars(Backfilling)

--------------------------------------------------------------------------------
(* Properties                                                                    *)

Commits == {things[CommitKey(i)].bytes[1] : i \in {i \in Images : CommitKey(i) \in DOMAIN things}}

\* What is behind a reference, if it is still that.
Stored(object) == object.uri \in DOMAIN things /\ things[object.uri] = object.ref
Below(objects) == FlattenSeq([n \in DOMAIN objects |-> objects[n].ref.bytes])

Epochs(commit) == commit.set.ref.bytes[1].epochs
PartitionsBelow(commit) == FlattenSeq([n \in DOMAIN Epochs(commit) |-> Epochs(commit)[n].ref.bytes[1].partitions])
ShardsBelow(commit) ==
  LET parts == PartitionsBelow(commit)
      entries == FlattenSeq([n \in DOMAIN parts |-> parts[n].ref.bytes[1].shards])
  IN  [n \in DOMAIN entries |-> entries[n].object]

\* A commit is there only for an official dump and when all it names is, and the
\* record set below it has each entity of the full-media scope in one envelope: the
\* media, their parents, the parents of those, and the credits of all of them.
CommitIsWhole ==
  \A commit \in Commits :
    LET lines == Below(ShardsBelow(commit))
        named == <<commit.batch, commit.set, commit.watermark, commit.receipt>>
                 \o Epochs(commit) \o PartitionsBelow(commit) \o ShardsBelow(commit)
    IN  /\ dump.official
        /\ \A n \in DOMAIN named : Stored(named[n])
        /\ {lines[n][1] : n \in DOMAIN lines} = dump.scope
        /\ Len(lines) = Cardinality(dump.scope)

\* The marker of the staging stands for data that were written whole.
MarkerIsHonest == MarkerKey \in DOMAIN things => staged.copies > 0

\* Runs of one build return one commit, the stored one, and a profile of the
\* same dump says what is committed.
BackfillsAgree ==
  \A r \in 1..Runs : At(r, "done") =>
    IF run[r].mode = "backfill"
    THEN /\ CommitKey(run[r].image) \in DOMAIN things
         /\ things[CommitKey(run[r].image)].bytes = run[r].result
    ELSE \A commit \in Commits : commit.profile = run[r].result[1]

BackfillsRest == \A r \in 1..Runs : run[r].pc \in {"idle", "done", "failed"}
================================================================================
