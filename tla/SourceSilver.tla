----------------------------- MODULE SourceSilver -----------------------------
(* The Source Silver job (community_cli.py): for each batch of its plan the      *)
(* record shards are staged under their checksum, mapped in groups whose outputs *)
(* are checkpointed behind a receipt (source_silver_checkpoint.py), and landed   *)
(* as one run.  Jobs of one plan may overlap, a later one goes on from the       *)
(* receipts it finds, and the image with mappers and registry may be upgraded    *)
(* between them.  Landing is as CommunityIngest has it, a table in one step.     *)
EXTENDS Integers, SequencesExt, ImmutableStore

CONSTANTS
  Contents,    \* set -> partitions of shards, in several variants
  Jobs,        \* drivers, numbered from 1
  Plans,       \* job -> plans it may have, sequences of [expect, set]
  Upgrades,    \* images before and after an upgrade: pairs of [mapper, policy]
  GroupSize,
  Workers      \* shards that are staged at a time

VARIABLES
  content,     \* what was captured, one of Contents
  images,      \* one of Upgrades
  deployed,    \* the image that new jobs run, 1 or 2
  store,       \* staged shards and receipts
  outputs,     \* attempt -> table -> rows
  landed,      \* run -> table -> rows
  marks,       \* committed runs
  job          \* job -> [pc, image, plan, n, reuse, staged, receipts, table]

silverVars == <<content, images, deployed, store, outputs, landed, marks, job>>

ShardType == [uri : Nat, keys : Seq(STRING)]

\* Plans are of captured record sets, and a group has a shard.
SilverConstants ==
  /\ GroupSize \in Nat \ {0}
  /\ \A c \in Contents : \A set \in DOMAIN c : c[set] \in Seq(Seq(ShardType))
  /\ \A c \in Contents, j \in Jobs : \A plan \in Plans[j] :
       plan \in Seq([expect : STRING, set : DOMAIN c]) \ {<<>>}

\* A row of the mapped tables remembers its mapper.
DataTables == <<"record", "field">>
RowsOf(table, mapper, shards) ==
  LET keys == FlattenSeq([n \in DOMAIN shards |-> shards[n].keys])
  IN  IF table = "record" THEN keys ELSE [n \in DOMAIN keys |-> <<mapper, keys[n]>>]

\* _resolve_sharded_record_set
Shards(set) == FlattenSeq(content[set])
Resolvable(set) == IsInjective([n \in DOMAIN Shards(set) |-> Shards(set)[n].uri])

\* The policy a batch was captured under is the first image's (_validate_inputs).
Image(j) == images[job[j].image]
Admitted(j) == Image(j).policy = images[1].policy

Entry(j) == job[j].plan[job[j].n]
Set(j) == Entry(j).set

-----------------------------------------------------------------------------
(* Identities.                                                                  *)
ShardKey(shard) == <<"shard", shard.keys>>

\* Mutant: the identity does not change with the mapper.
CheckpointOfSet(j) == <<Set(j), images[1].mapper>>

\* build_source_silver_checkpoint_identity; the image in it is the connector's.
Checkpoint(j) == <<Set(j), Image(j).mapper>>

Groups(j) == (Len(Shards(Set(j))) + GroupSize - 1) \div GroupSize
GroupShards(j, g) ==
  SubSeq(Shards(Set(j)), (g - 1) * GroupSize + 1,
         IF g * GroupSize < Len(Shards(Set(j))) THEN g * GroupSize ELSE Len(Shards(Set(j))))
ReceiptKey(j, g) == <<"receipt", Checkpoint(j), g>>
Group(j) == Len(job[j].receipts) + 1

\* A fresh attempt for each materialization; the receipt names it and its rows.
Attempt(j) == <<ReceiptKey(j, Group(j)), j>>

\* _build_run: kind, record set, counts and the captured configuration.
Frame(j, table) ==
  FlattenSeq([g \in DOMAIN job[j].receipts |-> outputs[job[j].receipts[g]][table]])
Run(j) == <<Set(j), [n \in DOMAIN DataTables |-> Len(Frame(j, DataTables[n]))]>>

-----------------------------------------------------------------------------
IdleJob ==
  [pc |-> "idle", image |-> 0, plan |-> <<>>, n |-> 1, reuse |-> FALSE, staged |-> {},
   receipts |-> <<>>, table |-> 1]

SilverInit ==
  /\ content \in Contents /\ images \in Upgrades /\ deployed = 1
  /\ store = <<>> /\ outputs = <<>> /\ landed = <<>> /\ marks = {}
  /\ job = [j \in Jobs |-> IdleJob]

At(j, pc) == job[j].pc = pc
Becomes(j, state) == job' = [job EXCEPT ![j] = state]
Goes(j, pc) == Becomes(j, [job[j] EXCEPT !.pc = pc])

\* A job that raises, is killed, or is done leaves no driver state.
Leaves(j, pc) == Becomes(j, [IdleJob EXCEPT !.pc = pc])
JobOnly == UNCHANGED <<content, images, deployed, store, outputs, landed, marks>>
Ended == {"done", "failed"}

\* The job is submitted: it runs the image that is deployed.
Submit(j) ==
  /\ At(j, "idle")
  /\ \E plan \in Plans[j] :
       Becomes(j, [IdleJob EXCEPT !.pc = "open", !.image = deployed, !.plan = plan])
  /\ JobOnly

\* An exception leaves the job: a read or a check has failed.
Fails(j) == job[j].pc \notin {"idle"} \cup Ended /\ Leaves(j, "failed") /\ JobOnly

\* The record set is resolved and verified.  A plan of one batch may come with a
\* grant, valid when the staging begins, to take what is staged without reading it.
Open(j) ==
  /\ At(j, "open") /\ Resolvable(Set(j))
  /\ \E reuse \in {FALSE, Len(job[j].plan) = 1} :
       Becomes(j, [job[j] EXCEPT !.pc = "stage", !.reuse = reuse])
  /\ JobOnly

\* materialize_one, by a pool of Workers: shards are taken in their order.
Waiting(j) == DOMAIN Shards(Set(j)) \ job[j].staged
InPool(j, s) == s \in Waiting(j) /\ Cardinality({x \in Waiting(j) : x < s}) < Workers
Staged(j, s) == Becomes(j, [job[j] EXCEPT !.staged = @ \cup {s}])

StageShard(j, s) ==
  /\ ~job[j].reuse /\ InPool(j, s)
  /\ \E o \in PublishOutcomes(store, ShardKey(Shards(Set(j))[s]), Shards(Set(j))[s].keys, 1) :
       /\ store' = o.objects
       /\ IF Failed(o.ref) THEN Leaves(j, "failed") ELSE Staged(j, s)
  /\ UNCHANGED <<content, images, deployed, outputs, landed, marks>>

ReuseShard(j, s) ==
  /\ job[j].reuse /\ InPool(j, s)
  /\ ShardKey(Shards(Set(j))[s]) \in DOMAIN store
  /\ Staged(j, s) /\ JobOnly

\* build_source_silver_dataframes: the inputs are bound and validated.
BindShards(j) ==
  /\ At(j, "stage") /\ Waiting(j) = {} /\ Admitted(j)
  /\ Becomes(j, [job[j] EXCEPT !.pc = "group", !.staged = {}]) /\ JobOnly

\* Every group in turn: a receipt whose outputs are what it says stands for it.
HasOutputs(attempt) ==
  attempt \in DOMAIN outputs /\ DOMAIN outputs[attempt] = ToSet(DataTables)
Resolved(j, attempt) ==
  Becomes(j, [job[j] EXCEPT !.pc = "group", !.receipts = Append(@, attempt)])

Checkpointed(j) == ReceiptKey(j, Group(j)) \in DOMAIN store
Winner(j) == store[ReceiptKey(j, Group(j))].bytes

ReuseGroup(j) ==
  /\ At(j, "group") /\ Group(j) <= Groups(j)
  /\ Checkpointed(j) /\ HasOutputs(Winner(j)) /\ Resolved(j, Winner(j))
  /\ JobOnly

\* _materialize_checkpoint_group: no output without a staged shard, and no group
\* with two envelopes of one key.
MapGroup(j) ==
  /\ At(j, "group") /\ Group(j) <= Groups(j) /\ ~Checkpointed(j)
  /\ \A n \in DOMAIN GroupShards(j, Group(j)) :
       ShardKey(GroupShards(j, Group(j))[n]) \in DOMAIN store
  /\ IsInjective(RowsOf("record", 0, GroupShards(j, Group(j))))
  /\ Goes(j, "map") /\ JobOnly

\* A function with one more entry.
With(f, key, value) == [k \in DOMAIN f \cup {key} |-> IF k = key THEN value ELSE f[k]]

\* The table that the attempt writes next.
Written(j) == IF Attempt(j) \in DOMAIN outputs THEN outputs[Attempt(j)] ELSE <<>>
NextOutput(j) == Cardinality(DOMAIN Written(j)) + 1

WriteTable(j) ==
  /\ At(j, "map") /\ NextOutput(j) <= Len(DataTables)
  /\ LET table == DataTables[NextOutput(j)]
         rows == RowsOf(table, Image(j).mapper, GroupShards(j, Group(j)))
     IN  outputs' = With(outputs, Attempt(j), With(Written(j), table, rows))
  /\ UNCHANGED <<content, images, deployed, store, landed, marks, job>>

\* The receipt comes last; its loser takes the winner's when both say the same.
SameRows(a, b) == outputs[a] = outputs[b]

PublishReceipt(j) ==
  /\ At(j, "map") /\ NextOutput(j) > Len(DataTables)
  /\ \E o \in PublishOutcomes(store, ReceiptKey(j, Group(j)), Attempt(j), j) :
       /\ store' = o.objects
       /\ IF Failed(o.ref) THEN Leaves(j, "failed") ELSE Resolved(j, Attempt(j))
  /\ UNCHANGED <<content, images, deployed, outputs, landed, marks>>

TakeWinner(j) ==
  /\ At(j, "map") /\ NextOutput(j) > Len(DataTables) /\ Checkpointed(j) /\ Winner(j) # Attempt(j)
  /\ HasOutputs(Winner(j)) /\ SameRows(Winner(j), Attempt(j)) /\ Resolved(j, Winner(j))
  /\ JobOnly

\* Mutant: keys are compared within the groups only.
AllMappedAsIs(j) ==
  /\ At(j, "group") /\ Group(j) > Groups(j)
  /\ Goes(j, "land") /\ JobOnly

\* The groups together have every record once.
AllMapped(j) ==
  /\ At(j, "group") /\ Group(j) > Groups(j)
  /\ IsInjective(Frame(j, "record"))
  /\ Goes(j, "land") /\ JobOnly

\* stage_and_commit, as CommunityIngest has it: a complete table is kept.
LandedTables(run) == IF run \in DOMAIN landed THEN landed[run] ELSE <<>>

LandOutput(j) ==
  /\ At(j, "land") /\ job[j].table <= Len(DataTables)
  /\ LET table == DataTables[job[j].table]
     IN  landed' = IF Run(j) \in marks \/ table \in DOMAIN LandedTables(Run(j)) THEN landed
                   ELSE With(landed, Run(j), With(LandedTables(Run(j)), table, Frame(j, table)))
  /\ Becomes(j, [job[j] EXCEPT !.table = @ + 1])
  /\ UNCHANGED <<content, images, deployed, store, outputs, marks>>

\* The marker; then the plan's identity is compared, and the next batch begins.
CommitBatch(j) ==
  /\ At(j, "land") /\ job[j].table > Len(DataTables)
  /\ marks' = marks \cup {Run(j)}
  /\ IF Len(job[j].plan) > 1 /\ Entry(j).expect # Set(j) THEN Leaves(j, "failed")
     ELSE IF job[j].n = Len(job[j].plan) THEN Leaves(j, "done")
     ELSE Becomes(j, [IdleJob EXCEPT !.pc = "open", !.image = job[j].image,
                                     !.plan = job[j].plan, !.n = job[j].n + 1])
  /\ UNCHANGED <<content, images, deployed, store, outputs, landed>>

\* New images are deployed while no job runs and no run has landed in part.
QuietDeploy ==
  /\ deployed = 1 /\ DOMAIN landed = marks
  /\ \A j \in Jobs : job[j].pc \in {"idle"} \cup Ended
  /\ deployed' = 2
  /\ UNCHANGED <<content, images, store, outputs, landed, marks, job>>

Works(j) ==
  \/ Open(j) \/ (At(j, "stage") /\ \E s \in Waiting(j) : StageShard(j, s) \/ ReuseShard(j, s))
  \/ BindShards(j) \/ ReuseGroup(j) \/ MapGroup(j) \/ WriteTable(j)
  \/ PublishReceipt(j) \/ TakeWinner(j) \/ AllMapped(j) \/ LandOutput(j) \/ CommitBatch(j)

SilverNext == QuietDeploy \/ \E j \in Jobs : Submit(j) \/ Fails(j) \/ Works(j)

SilverSpec == SilverInit /\ [][SilverNext]_silverVars

\* A step of a driver that survives and whose store answers.
Survives(j) == Works(j) /\ (job'[j].pc = "failed" => marks' # marks)

-----------------------------------------------------------------------------
(* A committed run has every record of its record set once, mapped by one        *)
(* mapper: whatever checkpoints of other jobs and images it was resumed from     *)
(* (build_source_silver_checkpoint_frames).                                     *)
CommittedIsRecordSet ==
  \A run \in marks :
    LET shards == Shards(run[1])
    IN  /\ landed[run]["record"] = RowsOf("record", 0, shards)
        /\ IsInjective(landed[run]["record"])
        /\ \E n \in 1..2 : landed[run]["field"] = RowsOf("field", images[n].mapper, shards)

(* A receipt names outputs that are complete and are its group, mapped by the    *)
(* mapper of its identity (_resolve_checkpoint_group).                          *)
CheckpointsAreWhole ==
  \A key \in {k \in DOMAIN store : k[1] = "receipt"} :
    LET shards == Shards(key[2][1])
        group == SubSeq(shards, (key[3] - 1) * GroupSize + 1,
                        IF key[3] * GroupSize < Len(shards) THEN key[3] * GroupSize ELSE Len(shards))
    IN  HasOutputs(store[key].bytes) /\
        \A n \in DOMAIN DataTables :
          outputs[store[key].bytes][DataTables[n]] = RowsOf(DataTables[n], key[2][2], group)

\* What a driver can commit of what was captured, unless its registry has a newer
\* policy; that its plan misnames a batch is noticed only then (run, 849).
AllSound ==
  \A set \in DOMAIN content :
    Resolvable(set) /\ IsInjective(RowsOf("record", 0, Shards(set)))
AllCommitted == DOMAIN content \subseteq {run[1] : run \in marks}
PolicyChanged == images[deployed].policy # images[1].policy
===============================================================================
