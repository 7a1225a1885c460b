----------------------------- MODULE GoldRelease -----------------------------
(* CommunityGoldTables.stage_and_commit: several Gold drivers stage the rows *)
(* of release plans into shared Iceberg tables and publish one commit last.  *)
(*                                                                           *)
(* A builder is one Spark driver; two of them may build one plan, and each   *)
(* may die between any two catalog calls.  Unlike the Silver writer, a Gold  *)
(* builder never inspects what an earlier attempt of its plan left behind:   *)
(* every non-empty table is merged again, and the owned-snapshot check after *)
(* the last table decides whether the rows may be published.                 *)
EXTENDS OwnedSnapshots

CONSTANTS
  Builders,      \* Gold drivers
  Plans,         \* release_plan_id
  PlanOf,        \* the plan each builder computed
  Keys,          \* Keys[p][t]: primary keys of the rows of plan p in table t
  TableOrder,    \* GOLD_DATA_COLUMNS in declaration order
  Admitted,      \* builders whose quality report satisfies their admission mode
  StaleAppend    \* what a MERGE whose base moved may do: "lands", "raises"

Tables == {TableOrder[i] : i \in DOMAIN TableOrder}

ASSUME GoldReleaseConstants ==
  /\ PlanOf \in [Builders -> Plans]
  /\ Admitted \subseteq Builders
  /\ TableOrder \in Seq(STRING) \ {<<>>}
  /\ StaleAppend \subseteq {"lands", "raises"}
  /\ \A p \in Plans, t \in Tables : IsFiniteSet(Keys[p][t])
  \* row keys digest the plan id, so plans share none
  /\ \A p, q \in Plans, t \in Tables : p # q => Keys[p][t] \cap Keys[q][t] = {}

VARIABLES
  tbl,       \* the Gold data tables
  planRows,  \* community_gold_release_plan: plan ids, in commit order
  commits,   \* community_gold_release_commit: rows, in commit order
  bld        \* the state of each builder

vars == <<tbl, planRows, commits, bld>>

Expected(p, t) == Cardinality(Keys[p][t])

IdleBuilder == [pc |-> "idle", i |-> 1, base |-> 0,
                counts |-> [t \in Tables |-> 0], pin |-> [t \in Tables |-> 0]]

Init ==
  /\ tbl = [t \in Tables |-> EmptyTable]
  /\ planRows = <<>>
  /\ commits = <<>>
  /\ bld = [b \in Builders |-> IdleBuilder]

CommitsOf(p) == {n \in DOMAIN commits : commits[n].plan = p}
PlanRowsOf(p) == {n \in DOMAIN planRows : planRows[n] = p}
Committed == {commits[n].plan : n \in DOMAIN commits}

Goto(b, pc) == bld' = [bld EXCEPT ![b].pc = pc]
ReadOnly == UNCHANGED <<tbl, planRows, commits>>

\* A MERGE whose table moved since its anti-join either fails or lands anyway.
MayLand(b, head) == head # bld[b].base => "lands" \in StaleAppend

\* ACTION Start: the admission checks, create_tables and read_commit.  Counts
\* of a release with the same id agree, so an existing commit is reused once
\* its plan row is verified.
Start(b) ==
  /\ bld[b].pc = "idle"
  /\ LET found == Cardinality(CommitsOf(PlanOf[b]))
     IN  Goto(b, CASE b \notin Admitted \/ found > 1 -> "failed"
                   [] b \in Admitted /\ found = 0 -> "plan"
                   [] OTHER -> IF Cardinality(PlanRowsOf(PlanOf[b])) = 1
                               THEN "done" ELSE "failed")
  /\ ReadOnly

\* ACTION ReadBase: the MERGE of the next table, of the plan table or of the
\* commit table evaluates NOT MATCHED on the head it reads.
ReadBase(b) ==
  /\ bld[b].pc \in {"plan", "table", "commit"}
  /\ bld[b].pc = "table" => Expected(PlanOf[b], TableOrder[bld[b].i]) > 0
  /\ bld' = [bld EXCEPT ![b] =
       [@ EXCEPT !.base = CASE bld[b].pc = "plan" -> Len(planRows)
                            [] bld[b].pc = "commit" -> Len(commits)
                            [] OTHER -> tbl[TableOrder[bld[b].i]].head,
                 !.pc = CASE bld[b].pc = "plan" -> "plan_land"
                          [] bld[b].pc = "commit" -> "commit_land"
                          [] OTHER -> "land"]]
  /\ ReadOnly

\* ACTION LandPlan: insert the plan row unless the base held it.
LandPlan(b) ==
  /\ bld[b].pc = "plan_land"
  /\ MayLand(b, Len(planRows))
  /\ planRows' = IF \E n \in 1..bld[b].base : planRows[n] = PlanOf[b]
                 THEN planRows ELSE Append(planRows, PlanOf[b])
  /\ Goto(b, "verify_plan")
  /\ UNCHANGED <<tbl, commits>>

\* ACTION VerifyPlan: exactly one stored plan row.
VerifyPlan(b) ==
  /\ bld[b].pc = "verify_plan"
  /\ Goto(b, IF Cardinality(PlanRowsOf(PlanOf[b])) = 1 THEN "table" ELSE "failed")
  /\ ReadOnly

NextTable(b) ==
  bld' = [bld EXCEPT ![b] =
            [@ EXCEPT !.i = bld[b].i + 1,
                      !.pc = IF bld[b].i = Len(TableOrder) THEN "count" ELSE "table"]]

\* ACTION SkipEmpty: an empty frame is not merged at all.
SkipEmpty(b) ==
  /\ bld[b].pc = "table"
  /\ Expected(PlanOf[b], TableOrder[bld[b].i]) = 0
  /\ NextTable(b)
  /\ ReadOnly

\* Mutant: INSERT instead of MERGE.
InsertAll(b) ==
  /\ bld[b].pc = "land"
  /\ LET t == TableOrder[bld[b].i]
     IN  /\ MayLand(b, tbl[t].head)
         /\ tbl' = [tbl EXCEPT ![t] = AppendKeys(@, PlanOf[b], Keys[PlanOf[b]][t], 0)]
  /\ NextTable(b)
  /\ UNCHANGED <<planRows, commits>>

\* ACTION Land: append the rows whose key the base does not hold.
Land(b) ==
  /\ bld[b].pc = "land"
  /\ LET t == TableOrder[bld[b].i]
         seen == {x.key : x \in RowsAt(tbl[t], bld[b].base)}
     IN  /\ MayLand(b, tbl[t].head)
         /\ tbl' = [tbl EXCEPT ![t] =
              AppendKeys(@, PlanOf[b], Keys[PlanOf[b]][t] \ seen, 0)]
  /\ NextTable(b)
  /\ UNCHANGED <<planRows, commits>>

\* ACTION Raise: a MERGE fails; the exception ends the build, nothing is retried
\* or inspected (a MERGE that landed before its exception is Land, then Crash).
Raise(b) ==
  /\ bld[b].pc \in {"plan_land", "land", "commit_land"}
  /\ Goto(b, "failed")
  /\ ReadOnly

\* ACTION CountTables: the persisted counts of the plan must be the planned ones.
CountTables(b) ==
  /\ bld[b].pc = "count"
  /\ LET p == PlanOf[b]
         actual == [t \in Tables |-> Cardinality(RunRows(tbl[t], p))]
     IN  bld' = [bld EXCEPT ![b] =
           IF \A t \in Tables : actual[t] = Expected(p, t)
           THEN [@ EXCEPT !.pc = "pin", !.counts = actual]
           ELSE [@ EXCEPT !.pc = "failed"]]
  /\ ReadOnly

\* Mutant: the current heads are pinned, whoever committed them.
PinHeads(b) ==
  /\ bld[b].pc = "pin"
  /\ bld' = [bld EXCEPT ![b] =
       [@ EXCEPT !.pc = "commit",
                 !.pin = [t \in Tables |-> IF Expected(PlanOf[b], t) = 0
                                           THEN 0 ELSE tbl[t].head]]]
  /\ ReadOnly

\* Mutant: the owner is verified, the current head is pinned.
PinLatest(b) ==
  /\ bld[b].pc = "pin"
  /\ bld' = [bld EXCEPT ![b] =
       IF \A t \in Tables : Found(tbl[t], PlanOf[b], bld[b].counts[t])
       THEN [@ EXCEPT !.pc = "commit",
                      !.pin = [t \in Tables |-> IF Expected(PlanOf[b], t) = 0
                                                THEN 0 ELSE tbl[t].head]]
       ELSE [@ EXCEPT !.pc = "failed"]]
  /\ ReadOnly

\* ACTION PinSnapshots: _release_snapshot_id of every table.
PinSnapshots(b) ==
  /\ bld[b].pc = "pin"
  /\ LET p == PlanOf[b]
         Owned(t, i) == FoundOwned(tbl[t], p, bld[b].counts[t], i)
     IN  bld' = [bld EXCEPT ![b] =
           IF \A t \in Tables : Found(tbl[t], p, bld[b].counts[t])
           THEN [@ EXCEPT !.pc = "commit",
                          !.pin = [t \in Tables |->
                            CHOOSE i \in Snapshots(tbl[t]) \cup {0} : Owned(t, i)]]
           ELSE [@ EXCEPT !.pc = "failed"]]
  /\ ReadOnly

Mine(b) == [plan |-> PlanOf[b], counts |-> bld[b].counts, pin |-> bld[b].pin]

\* ACTION LandCommit: insert the commit unless the base held one of this plan.
LandCommit(b) ==
  /\ bld[b].pc = "commit_land"
  /\ MayLand(b, Len(commits))
  /\ commits' = IF \E n \in 1..bld[b].base : commits[n].plan = PlanOf[b]
                THEN commits ELSE Append(commits, Mine(b))
  /\ Goto(b, "verify")
  /\ UNCHANGED <<tbl, planRows>>

\* ACTION Verify: the stored commit must be this build's own.
Verify(b) ==
  /\ bld[b].pc = "verify"
  /\ LET found == CommitsOf(PlanOf[b])
     IN  Goto(b, IF Cardinality(found) = 1 /\ \A n \in found : commits[n] = Mine(b)
                 THEN "done" ELSE "failed")
  /\ ReadOnly

Stopped == {"done", "failed", "dead"}

\* ACTION Crash: the driver dies; whatever it wrote stays.
Crash(b) ==
  /\ bld[b].pc \notin Stopped \cup {"idle"}
  /\ Goto(b, "dead")
  /\ ReadOnly

Build(b) ==
  \/ Start(b) \/ ReadBase(b) \/ LandPlan(b) \/ VerifyPlan(b) \/ SkipEmpty(b)
  \/ Land(b) \/ Raise(b) \/ CountTables(b) \/ PinSnapshots(b) \/ LandCommit(b)
  \/ Verify(b)

Next == \E b \in Builders : Build(b) \/ Crash(b)

Spec == Init /\ [][Next]_vars

\* ------------------------------------------------------------------- properties

RowType == [run : Plans, key : UNION {Keys[p][t] : p \in Plans, t \in Tables}, sid : Nat]

\* TypeOK: what stage_and_commit passes between its catalog calls stays in range.
TypeOK ==
  /\ \A t \in Tables :
       /\ tbl[t].head \in 0..Len(tbl[t].snaps)
       /\ Rows(tbl[t]) \subseteq RowType
  /\ planRows \in Seq(Plans)
  /\ commits \in Seq([plan : Plans, counts : [Tables -> Nat], pin : [Tables -> Nat]])
  /\ bld \in [Builders ->
       [pc : {"idle", "plan", "plan_land", "verify_plan", "table", "land", "count",
              "pin", "commit", "commit_land", "verify", "done", "failed", "dead"},
        i : Nat, base : Nat, counts : [Tables -> Nat], pin : [Tables -> Nat]]]

\* A release commit pins, in every Gold table, a snapshot that added exactly the
\* planned rows and nothing else, whatever other drivers of the same plan did
\* (the index builder reads a release through these pins).
CommitPinsExactRows ==
  \A n \in DOMAIN commits : \A t \in Tables :
    LET p == commits[n].plan
        i == commits[n].pin[t]
    IN  IF Expected(p, t) = 0
        THEN i = 0
        ELSE i \in Snapshots(tbl[t]) /\ OwnsExactly(tbl[t], i, p, Expected(p, t))

\* A plan whose rows were merged by two attempts is never published: the second
\* attempt's snapshot makes the owner of the rows ambiguous for good.
MixedAttemptsStayHidden ==
  [][\A p \in Plans :
       (/\ p \notin Committed
        /\ \A b \in Builders : PlanOf[b] = p => bld[b].pc \notin {"commit", "commit_land"}
        /\ \E t \in Tables : Cardinality(ActiveOwned(tbl[t], p)) > 1)
         => p \notin Committed' /\ \A b \in Builders : PlanOf[b] = p => bld'[b].pc # "commit"]_vars

\* The abstract runs of AtomicRuns: a release, identified by its plan and counts.
ReleaseIds == {[plan |-> p, counts |-> [t \in Tables |-> Expected(p, t)]] : p \in Plans}
VisibleReleases ==
  [id \in {r \in ReleaseIds : r.plan \in Committed} |->
     [t \in Tables |-> RunRows(tbl[t], id.plan)]]
Atomic == INSTANCE AtomicRuns WITH
            RunIds <- ReleaseIds, RowTables <- Tables, visible <- VisibleReleases
=============================================================================
