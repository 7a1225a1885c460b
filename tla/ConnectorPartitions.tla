------------------------- MODULE ConnectorPartitions -------------------------
(* The partitioned capture of IMDb: the raw files, the batch manifest, then   *)
(* one task per dataset that publishes its record shards and last its         *)
(* checkpoint, in a pool of worker processes; last the record set.  A capture *)
(* is repeated after a failure, also while processes of the failed one still  *)
(* run, and resumes from the checkpoints it finds.                            *)
EXTENDS Integers, FiniteSets, SequencesExt, ImmutableStore

CONSTANTS
  LastCapture, \* bound: invocations with one acquired_at and one configuration,
               \* numbered in the order in which they start
  Partitions,  \* number of datasets
  Shards,      \* number of record shards of a dataset
  Workers      \* dataset_parallelism

VARIABLES
  objects,  \* the object store
  cap,      \* the captures
  task      \* the task of each dataset of each capture

vars == <<objects, cap, task>>

Captures == 1..LastCapture
Datasets == 1..Partitions

\* completed: what load_connector_partition found, by dataset.
IdleCapture == [pc |-> "idle", edition |-> 0, batch |-> NoRef, next |-> 1,
                completed |-> [p \in Datasets |-> NoRef], result |-> NoRef]
NoTask == [pc |-> "none", shards |-> <<>>, checkpoint |-> NoRef]

Init ==
  /\ objects = <<>>
  /\ cap = [c \in Captures |-> IdleCapture]
  /\ task = [c \in Captures |-> [p \in Datasets |-> NoTask]]

\* Keys: a batch is named by its identity, which holds the raw reference.
RawKey(edition) == <<"raw", edition>>
BatchKey(batch) == <<"batch", batch>>
ShardKey(batch, p, n) == <<"shard", batch, p, n>>
CheckpointKey(batch, p) == <<"checkpoint", batch, p>>
SetKey(batch) == <<"record set", batch>>

ShardBytes(edition, p, n) == <<edition, p, n>>

\* What a capture knew is gone when it ends or dies; a worker that is running
\* still knows the batch and its own task.
Ends(c, pc, result) ==
  /\ cap' = [cap EXCEPT ![c] = [@ EXCEPT !.pc = pc, !.next = 1, !.result = result,
                                         !.completed = IdleCapture.completed]]
  /\ task' = [task EXCEPT ![c] =
               [p \in Datasets |-> IF @[p].pc = "running" THEN @[p] ELSE NoTask]]
Fails(c) == Ends(c, "failed", NoRef)
Continues(c, pc) == cap' = [cap EXCEPT ![c].pc = pc] /\ UNCHANGED task

\* The files are read, and uploaded under their digest.  Their editions are
\* numbered too: a later capture has the files of an earlier one or newer ones.
PrepareBatch(c, edition) ==
  /\ cap[c].pc = "idle"
  /\ \A d \in 1..(c - 1) : cap[d].pc # "idle" /\ cap[d].edition <= edition
  /\ \E o \in PublishOutcomes(objects, RawKey(edition), <<edition>>, c) :
       /\ objects' = o.objects
       /\ cap' = [cap EXCEPT ![c] = [@ EXCEPT !.edition = edition, !.batch = o.ref,
                                             !.pc = IF Failed(o.ref) THEN "failed" ELSE "batch"]]
  /\ UNCHANGED task

PublishBatch(c) ==
  /\ cap[c].pc = "batch"
  /\ \E o \in PublishOutcomes(objects, BatchKey(cap[c].batch), <<cap[c].batch>>, c) :
       /\ objects' = o.objects
       /\ IF Failed(o.ref) THEN Fails(c) ELSE Continues(c, "load")

StoredAt(key, ref) == key \in DOMAIN objects /\ objects[key] = ref

\* Every shard that a checkpoint names is read again.
Verified(batch, p, ref) ==
  \A n \in DOMAIN ref.bytes : StoredAt(ShardKey(batch, p, n), ref.bytes[n])

\* load_connector_partition, dataset by dataset; at the end the tasks are made
\* of those that have no checkpoint.
LoadPartition(c) ==
  /\ cap[c].pc = "load"
  /\ LET p == cap[c].next
         key == CheckpointKey(cap[c].batch, p)
         found == IF key \in DOMAIN objects THEN objects[key] ELSE NoRef
         completed == [cap[c].completed EXCEPT ![p] = found]
     IN  IF ~Failed(found) /\ ~Verified(cap[c].batch, p, found)
         THEN Fails(c)
         ELSE /\ cap' = [cap EXCEPT ![c].completed = completed, ![c].next = @ + 1,
                                    ![c].pc = IF p = Partitions THEN "pool" ELSE "load"]
              /\ task' = IF p < Partitions THEN task
                         ELSE [task EXCEPT ![c] =
                                 [q \in Datasets |-> [NoTask EXCEPT !.pc =
                                    IF Failed(completed[q]) THEN "waiting" ELSE "none"]]]
  /\ UNCHANGED objects

\* Any call of the capture itself may fail.
Refused(c) == cap[c].pc \in {"load", "final"} /\ Fails(c) /\ UNCHANGED objects

-----------------------------------------------------------------------------
(* The pool.  A worker that has a task goes on with it when the capture dies. *)

Running(c) == {p \in Datasets : task[c][p].pc = "running"}

StartTask(c, p) ==
  /\ cap[c].pc = "pool" /\ task[c][p].pc = "waiting"
  /\ \A q \in Datasets : task[c][q].pc = "waiting" => p <= q
  /\ Cardinality(Running(c)) < Workers
  /\ task' = [task EXCEPT ![c][p].pc = "running"]
  /\ UNCHANGED <<objects, cap>>

\* Nobody waits for a task whose capture is over.
TaskEnds(c, p, result) ==
  task' = [task EXCEPT ![c][p] = IF cap[c].pc = "pool" THEN result ELSE NoTask]
TaskFails(c, p) == TaskEnds(c, p, [NoTask EXCEPT !.pc = "failed"])
TaskDone(c, p, ref) == TaskEnds(c, p, [NoTask EXCEPT !.pc = "done", !.checkpoint = ref])

\* _publish_envelope_shards, shard by shard.
PublishShard(c, p) ==
  LET n == Len(task[c][p].shards) + 1
      batch == cap[c].batch
  IN  /\ task[c][p].pc = "running" /\ n <= Shards
      /\ \E o \in PublishOutcomes(objects, ShardKey(batch, p, n),
                                  ShardBytes(cap[c].edition, p, n), c) :
           /\ objects' = o.objects
           /\ IF Failed(o.ref) THEN TaskFails(c, p)
              ELSE task' = [task EXCEPT ![c][p].shards = Append(@, o.ref)]
      /\ UNCHANGED cap

\* Mutant: the checkpoint is published before the last shard.
CheckpointEarly(c, p) ==
  /\ task[c][p].pc = "running" /\ Len(task[c][p].shards) >= Shards - 1
  /\ \E o \in PublishOutcomes(objects, CheckpointKey(cap[c].batch, p), task[c][p].shards, c) :
       /\ objects' = o.objects
       /\ IF Failed(o.ref) THEN TaskFails(c, p)
          ELSE TaskDone(c, p, o.ref)
  /\ UNCHANGED cap

PublishCheckpoint(c, p) ==
  /\ task[c][p].pc = "running" /\ Len(task[c][p].shards) = Shards
  /\ \E o \in PublishOutcomes(objects, CheckpointKey(cap[c].batch, p), task[c][p].shards, c) :
       /\ objects' = o.objects
       /\ IF Failed(o.ref) THEN TaskFails(c, p)
          ELSE TaskDone(c, p, o.ref)
  /\ UNCHANGED cap

\* The results are taken in order; the first error cancels what has not begun.
CancelWaiting(c) ==
  /\ cap[c].pc = "pool"
  /\ \E p \in Datasets :
       /\ task[c][p].pc = "failed"
       /\ \A q \in 1..(p - 1) : task[c][q].pc \in {"none", "done"}
  /\ \E p \in Datasets : task[c][p].pc = "waiting"
  /\ task' = [task EXCEPT ![c] = [p \in Datasets |-> IF @[p].pc = "waiting" THEN NoTask ELSE @[p]]]
  /\ UNCHANGED <<objects, cap>>

\* Mutant: a task that failed does not fail the capture.
JoinCareless(c) ==
  /\ cap[c].pc = "pool"
  /\ \A p \in Datasets : task[c][p].pc \notin {"waiting", "running"}
  /\ cap' = [cap EXCEPT ![c].pc = "final"]
  /\ UNCHANGED <<objects, task>>

\* The pool is left when no task is running or waiting; the error is raised then.
Join(c) ==
  /\ cap[c].pc = "pool"
  /\ \A p \in Datasets : task[c][p].pc \notin {"waiting", "running"}
  /\ IF \E p \in Datasets : task[c][p].pc = "failed"
     THEN Fails(c) ELSE Continues(c, "final")
  /\ UNCHANGED objects

Partition(c, p) ==
  IF Failed(cap[c].completed[p]) THEN task[c][p].checkpoint ELSE cap[c].completed[p]

\* The shards of the datasets in their order.
RecordObjects(c) == FlattenSeq([p \in Datasets |-> Partition(c, p).bytes])

\* finalize_connector_partitions.
Finalize(c) ==
  /\ cap[c].pc = "final"
  /\ \E o \in PublishOutcomes(objects, SetKey(cap[c].batch),
                              RecordObjects(c), c) :
       /\ objects' = o.objects
       /\ IF Failed(o.ref) THEN Fails(c) ELSE Ends(c, "done", o.ref)

Ended == {"done", "failed"}

Dies(c) ==
  /\ cap[c].pc \notin Ended \cup {"idle"}
  /\ Fails(c)
  /\ UNCHANGED objects

Work(c) ==
  \/ PublishBatch(c) \/ LoadPartition(c) \/ Refused(c) \/ CancelWaiting(c) \/ Join(c) \/ Finalize(c)
  \/ \E p \in Datasets : StartTask(c, p) \/ PublishShard(c, p) \/ PublishCheckpoint(c, p)

Next ==
  \E c \in Captures : (\E e \in 1..c : PrepareBatch(c, e)) \/ Work(c) \/ Dies(c)

Spec == Init /\ [][Next]_vars

\* As long as a capture or its pool can go on, one of them does.
Capturing == \E c \in Captures : Work(c)
Fair == WF_vars(Capturing)
FairSpec == Spec /\ Fair

-----------------------------------------------------------------------------
(* Properties                                                                *)

\* A checkpoint names every shard of its dataset, and each is stored as it is
\* named: a resumed capture, which does not read the dataset again, loses no
\* record.
CheckpointsCover ==
  \A key \in DOMAIN objects : key[1] = "checkpoint" =>
    /\ Len(objects[key].bytes) = Shards
    /\ \A n \in 1..Shards : StoredAt(ShardKey(key[2], key[3], n), objects[key].bytes[n])

\* A record set is the whole of its batch: every shard of every dataset, in
\* order, of the edition whose raw files the batch declares.
RecordSetIsWhole ==
  \A key \in DOMAIN objects : key[1] = "record set" =>
    /\ BatchKey(key[2]) \in DOMAIN objects
    /\ Len(objects[key].bytes) = Partitions * Shards
    /\ \A p \in Datasets, n \in 1..Shards :
         LET ref == objects[key].bytes[(p - 1) * Shards + n]
         IN  /\ StoredAt(ShardKey(key[2], p, n), ref)
             /\ ref.bytes = ShardBytes(key[2].bytes[1], p, n)

\* Captures of one edition that succeed return one record set, however they
\* shared the work and whoever died.
CapturesAgree ==
  \A c, d \in Captures :
    cap[c].pc = "done" /\ cap[d].pc = "done" /\ cap[c].edition = cap[d].edition =>
      cap[c].result = cap[d].result

\* No capture is in the middle, also when workers fail.
CapturesRest == \A c \in Captures : cap[c].pc \in {"idle"} \cup Ended
=============================================================================
