-------------------------- MODULE GoldReleaseProofs --------------------------
(* The Gold drivers: type correctness, the proof that a release commit pins   *)
(* exactly the planned rows, that rows merged by two attempts are never       *)
(* published, and that a release appears in one step, for any number of       *)
(* drivers, plans and tables and whatever a MERGE does whose table moved.     *)
(* The Silver commands and the Golden builds: a publication is closed over    *)
(* the lineage of its runs, never torn, and an incremental release resolves   *)
(* each source once, for any set of runs, publications and operators.         *)
EXTENDS MCGoldRelease, FiniteSetTheorems, WellFoundedInduction, TLAPS

\* ------------------------------------------------------------ type correctness

SnapshotRow == [parent : Nat, run : Plans, journal : {0}, undo : {NoRun},
             rows : SUBSET RowType, anc : SUBSET Nat]
Table == [snaps : Seq(SnapshotRow), head : Nat]

\* Heads exist and parents are older.
WellFormed(T) ==
  /\ T.head \in 0..Len(T.snaps)
  /\ \A i \in Snapshots(T) : T.snaps[i].parent < i

Phases == {"idle", "plan", "plan_land", "verify_plan", "table", "land", "count",
           "pin", "commit", "commit_land", "verify", "done", "failed", "dead"}
Builder == [pc : Phases, i : Nat, base : Nat, counts : [Tables -> Nat], pin : [Tables -> Nat]]
CommitRow == [plan : Plans, counts : [Tables -> Nat], pin : [Tables -> Nat]]

\* Phases in which a driver still has a table at hand.
Early == {"idle", "plan", "plan_land", "verify_plan", "table", "land"}
BuilderOK(rec) == rec \in Builder /\ (rec.pc \in Early => rec.i \in 1..Len(TableOrder))

TypeInv ==
  /\ tbl \in [Tables -> Table] /\ \A t \in Tables : WellFormed(tbl[t])
  /\ planRows \in Seq(Plans)
  /\ commits \in Seq(CommitRow)
  /\ bld \in [Builders -> Builder] /\ \A b \in Builders : BuilderOK(bld[b])

\* Counts of a plan are numbers.
LEMMA ExpectedType == \A p \in Plans, t \in Tables : Expected(p, t) \in Nat
  BY FS_CardinalityType, GoldReleaseConstants DEF Expected

\* A snapshot appended to a table leaves a well-typed, well-formed table; a MERGE
\* changes a table in no other way.
LEMMA AppendKeysType ==
  ASSUME NEW T \in Table, WellFormed(T), NEW p \in Plans, NEW t \in Tables,
         NEW keys \in SUBSET Keys[p][t]
  PROVE  AppendKeys(T, p, keys, 0) \in Table /\ WellFormed(AppendKeys(T, p, keys, 0))
<1> DEFINE sid == Len(T.snaps) + 1
           added == {[run |-> p, key |-> k, sid |-> sid] : k \in keys}
           held == Rows(T) \cup added
           snap == [parent |-> T.head, run |-> p, journal |-> 0, undo |-> NoRun,
                    rows |-> held, anc |-> AncestorsAt(T, T.head) \cup {sid}]
           new == [snaps |-> Append(T.snaps, snap), head |-> sid]
<1>1. AppendKeys(T, p, keys, 0) = new
  BY DEF AppendKeys, Commit
<1>2. T.snaps \in Seq(SnapshotRow) /\ T.head \in Nat /\ Len(T.snaps) \in Nat /\ sid \in Nat
  BY DEF Table
<1>3. T.head # 0 => T.snaps[T.head] \in SnapshotRow
  BY <1>2 DEF WellFormed, Snapshots
<1>4. held \in SUBSET RowType
  <2>1. Rows(T) \in SUBSET RowType
    BY <1>3 DEF Rows, RowsAt, SnapshotRow
  <2>2. added \in SUBSET RowType
    BY <1>2 DEF RowType
  <2> QED BY <2>1, <2>2
<1>5. AncestorsAt(T, T.head) \cup {sid} \in SUBSET Nat
  BY <1>2, <1>3 DEF AncestorsAt, SnapshotRow
<1>6. snap \in SnapshotRow
  BY <1>2, <1>4, <1>5 DEF SnapshotRow
<1>7. snap.parent = T.head /\ T.head < sid
  BY <1>2 DEF WellFormed
<1> HIDE DEF snap, sid, held
<1>8. new \in Table
  BY <1>2, <1>6 DEF Table
<1>9. WellFormed(new)
  <2>1. /\ Len(new.snaps) = Len(T.snaps) + 1
        /\ new.snaps[Len(T.snaps) + 1] = snap
        /\ \A i \in 1..Len(T.snaps) : new.snaps[i] = T.snaps[i]
        /\ DOMAIN new.snaps = 1..(Len(T.snaps) + 1)
    BY <1>2, <1>6
  <2>2. \A i \in 1..Len(T.snaps) : T.snaps[i].parent < i
    BY <1>2 DEF WellFormed, Snapshots
  <2>3. \A i \in DOMAIN new.snaps : new.snaps[i].parent < i
    BY <2>1, <2>2, <1>2, <1>7 DEF sid
  <2>4. new.head = Len(new.snaps)
    BY <2>1 DEF sid
  <2> QED BY <2>3, <2>4, <2>1, <1>2 DEF WellFormed, Snapshots
<1> QED BY <1>1, <1>8, <1>9

\* What _release_snapshot_id verified of a snapshot stays true when another one
\* is appended.
LEMMA OwnsExactlyStable ==
  ASSUME NEW T \in Table, WellFormed(T), NEW p \in Plans, NEW t \in Tables,
         NEW keys \in SUBSET Keys[p][t],
         NEW i \in Snapshots(T), NEW owner, NEW n, OwnsExactly(T, i, owner, n)
  PROVE  LET U == AppendKeys(T, p, keys, 0)
         IN  i \in Snapshots(U) /\ OwnsExactly(U, i, owner, n)
<1> DEFINE U == AppendKeys(T, p, keys, 0)
<1>1. PICK snap : U.snaps = Append(T.snaps, snap)
  BY DEF AppendKeys, Commit
<1>2. T.snaps \in Seq(SnapshotRow) /\ U.snaps \in Seq(SnapshotRow)
  BY AppendKeysType DEF Table
<1> HIDE DEF U
<1>3. \A j \in Snapshots(T) : j \in Snapshots(U) /\ U.snaps[j] = T.snaps[j]
  <2> DEFINE s == T.snaps
  <2>1. s \in Seq(SnapshotRow) /\ U.snaps = Append(s, snap)
    BY <1>1, <1>2
  <2> HIDE DEF s
  <2>2. \A j \in DOMAIN s : j \in DOMAIN Append(s, snap) /\ Append(s, snap)[j] = s[j]
    BY <2>1
  <2> QED BY <2>1, <2>2 DEF Snapshots, s
<1>4. i \in Nat /\ T.snaps[i].parent \in Nat /\ T.snaps[i].parent < i /\ i <= Len(T.snaps)
  <2>1. i \in 1..Len(T.snaps) /\ T.snaps[i] \in SnapshotRow
    BY <1>2 DEF Snapshots
  <2>2. T.snaps[i].parent \in Nat
    BY <2>1 DEF SnapshotRow
  <2>3. T.snaps[i].parent < i
    BY DEF WellFormed
  <2> QED BY <2>1, <2>2, <2>3
<1>5. T.snaps[i].parent # 0 => T.snaps[i].parent \in Snapshots(T)
  BY <1>2, <1>4 DEF Snapshots
<1>6. RowsAt(U, U.snaps[i].parent) = RowsAt(T, T.snaps[i].parent)
  BY <1>3, <1>5 DEF RowsAt
<1>7. RowsAt(U, i) = RowsAt(T, i)
  BY <1>3, <1>4 DEF RowsAt
<1>8. /\ RunRowsAt(U, i, owner) = RunRowsAt(T, i, owner)
      /\ RunRowsAt(U, U.snaps[i].parent, owner) = RunRowsAt(T, T.snaps[i].parent, owner)
      /\ Additions(U, i) = Additions(T, i)
  BY <1>3, <1>6, <1>7 DEF RunRowsAt, Additions
<1>9. OwnsExactly(U, i, owner, n)
  BY <1>8 DEF OwnsExactly
<1> QED BY <1>3, <1>9 DEF U

\* How one step of a driver may change the shared tables.
TableStep(b) ==
  \/ tbl' = tbl
  \/ \E t \in Tables : \E keys \in SUBSET Keys[PlanOf[b]][t] :
       tbl' = [tbl EXCEPT ![t] = AppendKeys(@, PlanOf[b], keys, 0)]
PlanStep(b) == planRows' = planRows \/ planRows' = Append(planRows, PlanOf[b])
CommitStep(b) ==
  \/ commits' = commits
  \/ bld[b].pc = "commit_land" /\ commits' = Append(commits, Mine(b))

\* A driver that only moves on keeps a well-typed record.
LEMMA GotoOK ==
  ASSUME NEW b \in Builders, TypeInv, NEW pc \in Phases, Goto(b, pc),
         pc \in Early => bld[b].i \in 1..Len(TableOrder)
  PROVE  BuilderOK(bld'[b]) /\ bld' = [bld EXCEPT ![b] = bld'[b]]
<1>1. bld \in [Builders -> Builder] /\ bld[b] \in Builder
  BY DEF TypeInv
<1>2. bld' = [bld EXCEPT ![b] = [bld[b] EXCEPT !.pc = pc]]
  BY <1>1 DEF Goto
<1>3. bld'[b] = [bld[b] EXCEPT !.pc = pc]
  BY <1>1, <1>2
<1>4. bld'[b] \in Builder /\ bld'[b].pc = pc /\ bld'[b].i = bld[b].i
  BY <1>1, <1>3 DEF Builder
<1> QED BY <1>1, <1>2, <1>3, <1>4 DEF BuilderOK

\* So does one that turns to the next table.
LEMMA NextTableOK ==
  ASSUME NEW b \in Builders, TypeInv, NextTable(b), bld[b].i \in 1..Len(TableOrder)
  PROVE  /\ BuilderOK(bld'[b]) /\ bld' = [bld EXCEPT ![b] = bld'[b]]
         /\ bld'[b].pc \in {"count", "table"}
<1>1. bld \in [Builders -> Builder] /\ bld[b] \in Builder /\ Len(TableOrder) \in Nat
  BY GoldReleaseConstants DEF TypeInv
<1> DEFINE pc == IF bld[b].i = Len(TableOrder) THEN "count" ELSE "table"
<1>2. bld'[b] = [bld[b] EXCEPT !.i = bld[b].i + 1, !.pc = pc]
  BY <1>1 DEF NextTable
<1>3. bld' = [bld EXCEPT ![b] = bld'[b]]
  BY <1>1 DEF NextTable
<1>4. pc \in {"count", "table"} /\ (pc = "table" => bld[b].i + 1 \in 1..Len(TableOrder))
  BY <1>1
<1> HIDE DEF pc
<1>5. pc \in Phases /\ bld[b].i + 1 \in Nat
  BY <1>1, <1>4 DEF Phases
<1>6. bld'[b] \in Builder /\ bld'[b].pc = pc /\ bld'[b].i = bld[b].i + 1
  BY <1>1, <1>2, <1>5 DEF Builder
<1>7. pc \in Early => pc = "table"
  BY <1>4 DEF Early
<1> QED BY <1>3, <1>4, <1>6, <1>7 DEF BuilderOK

\* Every step of a driver keeps its own record well typed and touches the catalog
\* only by one append to one table, one plan row or one commit.
LEMMA BuildOK ==
  ASSUME NEW b \in Builders, TypeInv, Build(b) \/ Crash(b)
  PROVE  /\ BuilderOK(bld'[b]) /\ bld' = [bld EXCEPT ![b] = bld'[b]]
         /\ TableStep(b) /\ PlanStep(b) /\ CommitStep(b)
<1> DEFINE Kept == BuilderOK(bld'[b]) /\ bld' = [bld EXCEPT ![b] = bld'[b]]
           Quietly == TableStep(b) /\ PlanStep(b) /\ CommitStep(b)
<1>0. /\ bld \in [Builders -> Builder] /\ bld[b] \in Builder /\ PlanOf[b] \in Plans
      /\ bld[b].pc \in Early => bld[b].i \in 1..Len(TableOrder)
  BY GoldReleaseConstants DEF TypeInv, BuilderOK
<1>t. \A n \in 1..Len(TableOrder) : TableOrder[n] \in Tables
  BY GoldReleaseConstants DEF Tables
<1>q. ReadOnly => Quietly
  BY DEF ReadOnly, TableStep, PlanStep, CommitStep
<1>g. ASSUME NEW pc \in Phases, Goto(b, pc), pc \in Early => bld[b].pc \in Early PROVE Kept
  BY <1>0, <1>g, GotoOK
<1>u. ASSUME NEW rec, bld' = [bld EXCEPT ![b] = rec], BuilderOK(rec) PROVE Kept
  <2>1. bld'[b] = rec
    BY <1>0, <1>u
  <2> QED BY <1>u, <2>1
<1>1. CASE Start(b)
  <2>1. \E pc \in {"failed", "plan", "done"} : Goto(b, pc)
    BY <1>1 DEF Start
  <2> QED BY <1>1, <2>1, <1>g, <1>q DEF Start, Phases, Early
<1>2. CASE ReadBase(b)
  <2>1. ASSUME bld[b].pc = "plan" PROVE Kept
    <3> DEFINE rec == [bld[b] EXCEPT !.base = Len(planRows), !.pc = "plan_land"]
    <3>1. bld' = [bld EXCEPT ![b] = rec]
      BY <1>0, <1>2, <2>1 DEF ReadBase
    <3>2. Len(planRows) \in Nat /\ bld[b].i \in 1..Len(TableOrder)
      BY <1>0, <2>1 DEF TypeInv, Early
    <3>3. BuilderOK(rec)
      BY <1>0, <3>2 DEF Builder, BuilderOK, Phases
    <3> QED BY <1>u, <3>1, <3>3
  <2>2. ASSUME bld[b].pc = "commit" PROVE Kept
    <3> DEFINE rec == [bld[b] EXCEPT !.base = Len(commits), !.pc = "commit_land"]
    <3>1. bld' = [bld EXCEPT ![b] = rec]
      BY <1>0, <1>2, <2>2 DEF ReadBase
    <3>2. Len(commits) \in Nat
      BY DEF TypeInv
    <3>3. BuilderOK(rec)
      BY <1>0, <3>2 DEF Builder, BuilderOK, Phases, Early
    <3> QED BY <1>u, <3>1, <3>3
  <2>3. ASSUME bld[b].pc = "table" PROVE Kept
    <3> DEFINE head == tbl[TableOrder[bld[b].i]].head
               rec == [bld[b] EXCEPT !.base = head, !.pc = "land"]
    <3>1. bld' = [bld EXCEPT ![b] = rec]
      BY <1>0, <1>2, <2>3 DEF ReadBase
    <3>2. bld[b].i \in 1..Len(TableOrder) /\ head \in Nat
      BY <1>0, <1>t, <2>3 DEF TypeInv, Table, Early
    <3> HIDE DEF head
    <3>3. BuilderOK(rec)
      BY <1>0, <3>2 DEF Builder, BuilderOK, Phases
    <3> QED BY <1>u, <3>1, <3>3
  <2>4. Kept
    BY <1>2, <2>1, <2>2, <2>3 DEF ReadBase
  <2> QED BY <1>2, <1>q, <2>4 DEF ReadBase
<1>3. CASE LandPlan(b)
  <2>1. Kept
    BY <1>3, <1>g DEF LandPlan, Phases, Early
  <2> QED BY <1>3, <2>1 DEF LandPlan, TableStep, PlanStep, CommitStep
<1>4. CASE VerifyPlan(b)
  <2>1. \E pc \in {"table", "failed"} : Goto(b, pc)
    BY <1>4 DEF VerifyPlan
  <2>2. Kept
    BY <1>4, <2>1, <1>g DEF VerifyPlan, Phases, Early
  <2> QED BY <1>4, <2>2, <1>q DEF VerifyPlan
<1>5. CASE SkipEmpty(b)
  <2>1. Kept
    BY <1>0, <1>5, NextTableOK DEF SkipEmpty, Early
  <2> QED BY <1>5, <2>1, <1>q DEF SkipEmpty
<1>6. CASE Land(b)
  <2>1. bld[b].i \in 1..Len(TableOrder) /\ TableOrder[bld[b].i] \in Tables
    BY <1>0, <1>t, <1>6 DEF Land, Early
  <2>2. Kept
    BY <1>6, <2>1, NextTableOK DEF Land
  <2> DEFINE t == TableOrder[bld[b].i]
             keys == Keys[PlanOf[b]][t] \ {x.key : x \in RowsAt(tbl[t], bld[b].base)}
  <2>3. tbl' = [tbl EXCEPT ![t] = AppendKeys(tbl[t], PlanOf[b], keys, 0)]
    BY <1>6 DEF Land
  <2>4. TableStep(b)
    BY <2>1, <2>3 DEF TableStep
  <2> QED BY <1>6, <2>2, <2>4 DEF Land, PlanStep, CommitStep
<1>7. CASE Raise(b) \/ Crash(b)
  <2>1. \E pc \in {"failed", "dead"} : Goto(b, pc)
    BY <1>7 DEF Raise, Crash
  <2> QED BY <1>7, <2>1, <1>g, <1>q DEF Raise, Crash, Phases, Early
<1>8. CASE CountTables(b)
  <2>1. PICK rec : /\ bld' = [bld EXCEPT ![b] = rec]
                   /\ \/ rec = [bld[b] EXCEPT !.pc = "failed"]
                      \/ \E counts \in [Tables -> Nat] :
                           rec = [bld[b] EXCEPT !.pc = "pin", !.counts = counts]
    <3> DEFINE p == PlanOf[b]
               actual == [t \in Tables |-> Cardinality(RunRows(tbl[t], p))]
    <3>1. CASE \A t \in Tables : actual[t] = Expected(p, t)
      <4>1. actual \in [Tables -> Nat]
        BY <1>0, <3>1, ExpectedType
      <4>2. bld' = [bld EXCEPT ![b] = [bld[b] EXCEPT !.pc = "pin", !.counts = actual]]
        BY <1>0, <1>8, <3>1 DEF CountTables
      <4> QED BY <4>1, <4>2
    <3>2. CASE ~\A t \in Tables : actual[t] = Expected(p, t)
      BY <1>0, <1>8, <3>2 DEF CountTables
    <3> QED BY <3>1, <3>2
  <2>2. rec \in Builder /\ rec.pc \in {"pin", "failed"}
    <3>1. CASE rec = [bld[b] EXCEPT !.pc = "failed"]
      BY <1>0, <3>1 DEF Builder, Phases
    <3>2. CASE \E counts \in [Tables -> Nat] : rec = [bld[b] EXCEPT !.pc = "pin", !.counts = counts]
      BY <1>0, <3>2 DEF Builder, Phases
    <3> QED BY <2>1, <3>1, <3>2
  <2>3. Kept
    BY <1>0, <2>1, <2>2 DEF BuilderOK, Early
  <2> QED BY <1>8, <1>q, <2>3 DEF CountTables
<1>9. CASE PinSnapshots(b)
  <2>1. PICK rec : /\ bld' = [bld EXCEPT ![b] = rec]
                   /\ \/ rec = [bld[b] EXCEPT !.pc = "failed"]
                      \/ \E pin \in [Tables -> Nat] :
                           rec = [bld[b] EXCEPT !.pc = "commit", !.pin = pin]
    <3> DEFINE Owned(t, i) == FoundOwned(tbl[t], PlanOf[b], bld[b].counts[t], i)
               pin == [t \in Tables |-> CHOOSE i \in Snapshots(tbl[t]) \cup {0} : Owned(t, i)]
    <3>1. CASE \A t \in Tables : Found(tbl[t], PlanOf[b], bld[b].counts[t])
      <4>1. \A t \in Tables : Snapshots(tbl[t]) \subseteq Nat
        BY DEF TypeInv, Table, Snapshots
      <4>2. \A t \in Tables : \E i \in Snapshots(tbl[t]) \cup {0} : Owned(t, i)
        BY <3>1 DEF Found
      <4>3. \A t \in Tables : pin[t] \in Nat
        BY <4>1, <4>2
      <4>4. bld' = [bld EXCEPT ![b] = [bld[b] EXCEPT !.pc = "commit", !.pin = pin]]
        BY <1>0, <1>9, <3>1 DEF PinSnapshots
      <4> HIDE DEF pin
      <4>5. pin \in [Tables -> Nat]
        BY <4>3 DEF pin
      <4> QED BY <4>4, <4>5
    <3>2. CASE ~\A t \in Tables : Found(tbl[t], PlanOf[b], bld[b].counts[t])
      BY <1>0, <1>9, <3>2 DEF PinSnapshots
    <3> QED BY <3>1, <3>2
  <2>2. rec \in Builder /\ rec.pc \in {"commit", "failed"}
    <3>1. CASE rec = [bld[b] EXCEPT !.pc = "failed"]
      BY <1>0, <3>1 DEF Builder, Phases
    <3>2. CASE \E pin \in [Tables -> Nat] : rec = [bld[b] EXCEPT !.pc = "commit", !.pin = pin]
      BY <1>0, <3>2 DEF Builder, Phases
    <3> QED BY <2>1, <3>1, <3>2
  <2>3. Kept
    BY <1>0, <2>1, <2>2 DEF BuilderOK, Early
  <2> QED BY <1>9, <1>q, <2>3 DEF PinSnapshots
<1>10. CASE LandCommit(b)
  <2>1. Kept
    BY <1>10, <1>g DEF LandCommit, Phases, Early
  <2> QED BY <1>10, <2>1 DEF LandCommit, TableStep, PlanStep, CommitStep
<1>11. CASE Verify(b)
  <2>1. \E pc \in {"done", "failed"} : Goto(b, pc)
    BY <1>11 DEF Verify
  <2> QED BY <1>11, <2>1, <1>g, <1>q DEF Verify, Phases, Early
<1> QED
  BY <1>1, <1>2, <1>3, <1>4, <1>5, <1>6, <1>7, <1>8, <1>9, <1>10, <1>11 DEF Build

\* What a driver commits is a commit row.
LEMMA MineType == ASSUME TypeInv, NEW b \in Builders PROVE Mine(b) \in CommitRow
<1>1. bld[b] \in Builder /\ PlanOf[b] \in Plans
  BY GoldReleaseConstants DEF TypeInv
<1> QED BY <1>1 DEF Mine, CommitRow, Builder

\* Type correctness is inductive.
LEMMA TypeStep ==
  ASSUME NEW b \in Builders, TypeInv,
         BuilderOK(bld'[b]), bld' = [bld EXCEPT ![b] = bld'[b]],
         TableStep(b), PlanStep(b), CommitStep(b)
  PROVE  TypeInv'
<1>0. PlanOf[b] \in Plans /\ bld \in [Builders -> Builder] /\ bld[b] \in Builder
  BY GoldReleaseConstants DEF TypeInv
<1>1. tbl' \in [Tables -> Table] /\ \A t \in Tables : WellFormed(tbl'[t])
  <2>1. CASE tbl' = tbl
    BY <2>1 DEF TypeInv
  <2>2. ASSUME NEW t \in Tables, NEW keys \in SUBSET Keys[PlanOf[b]][t],
               tbl' = [tbl EXCEPT ![t] = AppendKeys(tbl[t], PlanOf[b], keys, 0)]
        PROVE  tbl' \in [Tables -> Table] /\ \A u \in Tables : WellFormed(tbl'[u])
    <3> DEFINE new == AppendKeys(tbl[t], PlanOf[b], keys, 0)
    <3>1. tbl \in [Tables -> Table] /\ \A u \in Tables : WellFormed(tbl[u])
      BY DEF TypeInv
    <3>2. new \in Table /\ WellFormed(new)
      BY <1>0, <3>1, AppendKeysType
    <3> HIDE DEF new
    <3>3. tbl' = [tbl EXCEPT ![t] = new]
      BY <2>2 DEF new
    <3>4. tbl' \in [Tables -> Table]
      BY <3>1, <3>2, <3>3
    <3>5. \A u \in Tables : tbl'[u] = IF u = t THEN new ELSE tbl[u]
      BY <3>1, <3>3
    <3> QED BY <3>1, <3>2, <3>4, <3>5
  <2> QED BY <2>1, <2>2 DEF TableStep
<1>2. planRows' \in Seq(Plans)
  <2>1. planRows \in Seq(Plans)
    BY DEF TypeInv
  <2>2. Append(planRows, PlanOf[b]) \in Seq(Plans)
    BY <1>0, <2>1
  <2> QED BY <2>1, <2>2 DEF PlanStep
<1>3. commits' \in Seq(CommitRow)
  <2>1. commits \in Seq(CommitRow) /\ Mine(b) \in CommitRow
    BY MineType DEF TypeInv
  <2> QED BY <2>1 DEF CommitStep
<1>4. bld' \in [Builders -> Builder] /\ \A c \in Builders : BuilderOK(bld'[c])
  <2>1. bld' \in [Builders -> Builder]
    BY <1>0 DEF BuilderOK
  <2>2. \A c \in Builders : c # b => bld'[c] = bld[c]
    BY <1>0
  <2>3. \A c \in Builders : BuilderOK(bld'[c])
    BY <2>2 DEF TypeInv
  <2> QED BY <2>1, <2>3
<1> QED BY <1>1, <1>2, <1>3, <1>4 DEF TypeInv

LEMMA InitType == Init => TypeInv
<1> SUFFICES ASSUME Init PROVE TypeInv
  OBVIOUS
<1>1. EmptyTable \in Table /\ WellFormed(EmptyTable)
  BY DEF EmptyTable, Table, WellFormed, Snapshots
<1>2. IdleBuilder \in Builder /\ IdleBuilder.pc = "idle" /\ IdleBuilder.i = 1
  BY DEF IdleBuilder, Builder, Phases
<1>3. 1 \in 1..Len(TableOrder)
  BY GoldReleaseConstants
<1>4. BuilderOK(IdleBuilder)
  BY <1>2, <1>3 DEF BuilderOK
<1> QED BY <1>1, <1>2, <1>4 DEF Init, TypeInv

\* The rows of a well-typed table are those that TypeOK speaks of.
LEMMA TypeInvOK == TypeInv => TypeOK
<1> SUFFICES ASSUME TypeInv PROVE TypeOK
  OBVIOUS
<1>1. ASSUME NEW t \in Tables
      PROVE  tbl[t].head \in 0..Len(tbl[t].snaps) /\ Rows(tbl[t]) \subseteq RowType
  <2>1. tbl[t] \in Table /\ WellFormed(tbl[t])
    BY DEF TypeInv
  <2>2. tbl[t].head # 0 => tbl[t].snaps[tbl[t].head] \in SnapshotRow
    BY <2>1 DEF Table, WellFormed
  <2> QED BY <2>1, <2>2 DEF WellFormed, Rows, RowsAt, SnapshotRow
<1>2. commits \in Seq(CommitRow) /\ bld \in [Builders -> Builder] /\ planRows \in Seq(Plans)
  BY DEF TypeInv
<1> QED BY <1>1, <1>2 DEF TypeOK, CommitRow, Builder, Phases

\* Type correctness of staging and publication of a release.
THEOREM GoldTypeCorrect == Spec => []TypeOK
<1>1. TypeInv /\ [Next]_vars => TypeInv'
  <2> SUFFICES ASSUME TypeInv, [Next]_vars PROVE TypeInv'
    OBVIOUS
  <2>1. CASE \E b \in Builders : Build(b) \/ Crash(b)
    BY <2>1, BuildOK, TypeStep
  <2>2. CASE UNCHANGED vars
    BY <2>2 DEF vars, TypeInv
  <2> QED BY <2>1, <2>2 DEF Next
<1> QED BY <1>1, InitType, TypeInvOK, PTL DEF Spec

\* ------------------------------------------------------- what a commit may pin

Holding == {"commit", "commit_land", "verify"}

\* Which calls lead a driver to its counts, to its pins and on with them.
LEMMA PinStep ==
  ASSUME NEW b \in Builders, TypeInv, Build(b) \/ Crash(b)
  PROVE  /\ bld'[b].pc = "pin" => CountTables(b)
         /\ bld'[b].pc = "commit" => PinSnapshots(b)
         /\ bld'[b].pc \in {"commit_land", "verify"} =>
              bld[b].pc \in Holding /\ bld'[b].pin = bld[b].pin
<1> DEFINE Elsewhere == bld'[b].pc \notin {"pin"} \cup Holding
<1>0. /\ bld \in [Builders -> Builder] /\ bld[b] \in Builder
      /\ bld[b].pc \in Early => bld[b].i \in 1..Len(TableOrder)
  BY DEF TypeInv, BuilderOK
<1>g. ASSUME NEW pc, Goto(b, pc) PROVE bld'[b].pc = pc /\ bld'[b].pin = bld[b].pin
  BY <1>0, <1>g DEF Goto, Builder
<1>1. CASE Start(b)
  <2>1. \E pc \in {"failed", "plan", "done"} : Goto(b, pc)
    BY <1>1 DEF Start
  <2> QED BY <2>1, <1>g DEF Holding
<1>2. CASE ReadBase(b)
  <2>1. bld'[b].pin = bld[b].pin /\ bld'[b].pc \notin {"pin", "commit", "verify"}
    BY <1>0, <1>2 DEF ReadBase, Builder
  <2>2. bld'[b].pc = "commit_land" => bld[b].pc = "commit"
    BY <1>0, <1>2 DEF ReadBase, Builder
  <2> QED BY <2>1, <2>2 DEF Holding
<1>3. CASE LandPlan(b)
  BY <1>3, <1>g DEF LandPlan, Holding
<1>4. CASE VerifyPlan(b)
  <2>1. \E pc \in {"table", "failed"} : Goto(b, pc)
    BY <1>4 DEF VerifyPlan
  <2> QED BY <2>1, <1>g DEF Holding
<1>5. CASE SkipEmpty(b) \/ Land(b)
  <2>1. NextTable(b) /\ bld[b].i \in 1..Len(TableOrder)
    BY <1>0, <1>5 DEF SkipEmpty, Land, Early
  <2> QED BY <2>1, NextTableOK DEF Holding
<1>6. CASE Raise(b) \/ Crash(b)
  <2>1. \E pc \in {"failed", "dead"} : Goto(b, pc)
    BY <1>6 DEF Raise, Crash
  <2> QED BY <2>1, <1>g DEF Holding
<1>7. CASE CountTables(b)
  <2>1. bld'[b].pc \in {"pin", "failed"}
    BY <1>0, <1>7 DEF CountTables, Builder
  <2> QED BY <1>7, <2>1 DEF Holding
<1>8. CASE PinSnapshots(b)
  <2>1. bld'[b].pc \in {"commit", "failed"}
    BY <1>0, <1>8 DEF PinSnapshots, Builder
  <2> QED BY <1>8, <2>1 DEF Holding
<1>9. CASE LandCommit(b)
  BY <1>9, <1>g DEF LandCommit, Holding
<1>10. CASE Verify(b)
  <2>1. \E pc \in {"done", "failed"} : Goto(b, pc)
    BY <1>10 DEF Verify
  <2> QED BY <2>1, <1>g DEF Holding
<1> QED
  BY <1>1, <1>2, <1>3, <1>4, <1>5, <1>6, <1>7, <1>8, <1>9, <1>10 DEF Build

\* The table as CommitPinsExactRows reads it through one pin.
Exact(t, p, i) ==
  IF Expected(p, t) = 0
  THEN i = 0
  ELSE i \in Snapshots(tbl[t]) /\ OwnsExactly(tbl[t], i, p, Expected(p, t))

\* The counts a driver compared, and the pins it holds from then on.
BuildersExact ==
  \A b \in Builders :
    /\ bld[b].pc = "pin" => \A t \in Tables : bld[b].counts[t] = Expected(PlanOf[b], t)
    /\ bld[b].pc \in Holding => \A t \in Tables : Exact(t, PlanOf[b], bld[b].pin[t])

ExactInv == TypeInv /\ CommitPinsExactRows /\ BuildersExact

\* No MERGE of any driver changes what a pin shows.
LEMMA ExactStable ==
  ASSUME TypeInv, NEW b \in Builders, TableStep(b),
         NEW t \in Tables, NEW p \in Plans, NEW i, Exact(t, p, i)
  PROVE  Exact(t, p, i)'
<1>1. CASE tbl' = tbl
  BY <1>1 DEF Exact
<1>2. ASSUME NEW u \in Tables, NEW keys \in SUBSET Keys[PlanOf[b]][u],
             tbl' = [tbl EXCEPT ![u] = AppendKeys(tbl[u], PlanOf[b], keys, 0)]
      PROVE  Exact(t, p, i)'
  <2>1. tbl \in [Tables -> Table] /\ WellFormed(tbl[u]) /\ PlanOf[b] \in Plans
    BY GoldReleaseConstants DEF TypeInv
  <2>2. CASE u # t \/ Expected(p, t) = 0
    <3>1. u # t => tbl'[t] = tbl[t]
      BY <1>2, <2>1
    <3> QED BY <2>2, <3>1 DEF Exact
  <2>3. CASE u = t /\ Expected(p, t) # 0
    <3>1. tbl'[t] = AppendKeys(tbl[t], PlanOf[b], keys, 0)
      BY <1>2, <2>1, <2>3
    <3>2. i \in Snapshots(tbl[t]) /\ OwnsExactly(tbl[t], i, p, Expected(p, t))
      BY <2>3 DEF Exact
    <3>3. i \in Snapshots(tbl'[t]) /\ OwnsExactly(tbl'[t], i, p, Expected(p, t))
      BY <2>1, <2>3, <3>1, <3>2, OwnsExactlyStable
    <3> QED BY <3>3 DEF Exact
  <2> QED BY <2>2, <2>3
<1> QED BY <1>1, <1>2 DEF TableStep

\* What _release_snapshot_id returns for every table is exact.
LEMMA PinsAreExact ==
  ASSUME TypeInv, BuildersExact, NEW b \in Builders, PinSnapshots(b), bld'[b].pc = "commit"
  PROVE  /\ \A t \in Tables : Found(tbl[t], PlanOf[b], bld[b].counts[t])
         /\ \A t \in Tables : Exact(t, PlanOf[b], bld'[b].pin[t])
<1> DEFINE Owned(t, i) == FoundOwned(tbl[t], PlanOf[b], bld[b].counts[t], i)
           pin == [t \in Tables |-> CHOOSE i \in Snapshots(tbl[t]) \cup {0} : Owned(t, i)]
<1>0. bld \in [Builders -> Builder] /\ bld[b] \in Builder
  BY DEF TypeInv
<1>1. \A t \in Tables : Found(tbl[t], PlanOf[b], bld[b].counts[t])
  BY <1>0 DEF PinSnapshots, Builder
<1>2. bld' = [bld EXCEPT ![b] = [bld[b] EXCEPT !.pc = "commit", !.pin = pin]]
  BY <1>0, <1>1 DEF PinSnapshots
<1>3. \A t \in Tables : pin[t] \in Snapshots(tbl[t]) \cup {0} /\ Owned(t, pin[t])
  BY <1>1 DEF Found
<1> HIDE DEF pin
<1>4. bld'[b].pin = pin
  BY <1>0, <1>2 DEF Builder
<1>5. ASSUME NEW t \in Tables PROVE Exact(t, PlanOf[b], pin[t])
  <2>1. bld[b].counts[t] = Expected(PlanOf[b], t)
    BY DEF BuildersExact, PinSnapshots
  <2>2. CASE Expected(PlanOf[b], t) = 0
    BY <1>3, <2>1, <2>2 DEF Exact, FoundOwned
  <2>3. CASE Expected(PlanOf[b], t) # 0
    <3>1. /\ ActiveOwned(tbl[t], PlanOf[b]) = {pin[t]}
          /\ OwnsExactly(tbl[t], pin[t], PlanOf[b], Expected(PlanOf[b], t))
      BY <1>3, <2>1, <2>3 DEF FoundOwned
    <3>2. pin[t] \in Snapshots(tbl[t])
      BY <3>1 DEF ActiveOwned
    <3> QED BY <2>3, <3>1, <3>2 DEF Exact
  <2> QED BY <2>2, <2>3
<1> QED BY <1>1, <1>4, <1>5

\* Every step of a driver keeps commits and held pins exact.
LEMMA ExactStep ==
  ASSUME ExactInv, NEW b \in Builders, Build(b) \/ Crash(b)
  PROVE  CommitPinsExactRows' /\ BuildersExact'
<1>0. /\ TypeInv /\ bld \in [Builders -> Builder] /\ PlanOf \in [Builders -> Plans]
      /\ bld' = [bld EXCEPT ![b] = bld'[b]] /\ TableStep(b) /\ CommitStep(b)
  BY BuildOK, GoldReleaseConstants DEF ExactInv, TypeInv
<1>1. CommitPinsExactRows'
  <2> SUFFICES ASSUME NEW n \in DOMAIN commits', NEW t \in Tables, NEW p, NEW i,
                      commits'[n].plan = p, commits'[n].pin[t] = i
               PROVE  Exact(t, p, i)'
    BY DEF CommitPinsExactRows, Exact
  <2>1. commits \in Seq(CommitRow) /\ Mine(b) \in CommitRow
    <3>1. commits \in Seq(CommitRow)
      BY <1>0 DEF TypeInv
    <3> QED BY <1>0, <3>1, MineType
  <2>2. p \in Plans /\ Exact(t, p, i)
    <3>1. CASE n \in DOMAIN commits /\ commits'[n] = commits[n]
      <4>1. p = commits[n].plan /\ i = commits[n].pin[t] /\ commits[n] \in CommitRow
        BY <2>1, <3>1
      <4>2. p \in Plans
        BY <4>1 DEF CommitRow
      <4>3. Exact(t, commits[n].plan, commits[n].pin[t])
        BY <3>1 DEF ExactInv, CommitPinsExactRows, Exact
      <4> QED BY <4>1, <4>2, <4>3
    <3>2. CASE bld[b].pc = "commit_land" /\ commits'[n] = Mine(b)
      <4>1. p = PlanOf[b] /\ i = bld[b].pin[t]
        BY <3>2 DEF Mine
      <4>2. Exact(t, PlanOf[b], bld[b].pin[t])
        BY <3>2 DEF ExactInv, BuildersExact, Holding
      <4> QED BY <1>0, <4>1, <4>2
    <3>3. \/ n \in DOMAIN commits /\ commits'[n] = commits[n]
          \/ bld[b].pc = "commit_land" /\ commits'[n] = Mine(b)
      BY <1>0, <2>1 DEF CommitStep
    <3> QED BY <3>1, <3>2, <3>3
  <2> QED BY <1>0, <2>2, ExactStable
<1>2. BuildersExact'
  <2> SUFFICES ASSUME NEW c \in Builders
               PROVE  /\ bld'[c].pc = "pin" =>
                           \A t \in Tables : bld'[c].counts[t] = Expected(PlanOf[c], t)
                      /\ bld'[c].pc \in Holding =>
                           \A t \in Tables : \A i :
                             i = bld'[c].pin[t] => Exact(t, PlanOf[c], i)'
    BY DEF BuildersExact, Exact
  <2>1. CASE c # b
    <3>1. bld'[c] = bld[c]
      BY <1>0, <2>1
    <3>2. ASSUME NEW t \in Tables, NEW i, i = bld[c].pin[t], bld[c].pc \in Holding
          PROVE  Exact(t, PlanOf[c], i)'
      <4>1. PlanOf[c] \in Plans /\ Exact(t, PlanOf[c], i)
        BY <1>0, <3>2 DEF ExactInv, BuildersExact
      <4> QED BY <1>0, <4>1, ExactStable
    <3> QED BY <3>1, <3>2 DEF ExactInv, BuildersExact
  <2>2. CASE c = b
    <3>1. ASSUME bld'[b].pc = "pin", NEW t \in Tables
          PROVE  bld'[b].counts[t] = Expected(PlanOf[b], t)
      <4> DEFINE actual == [u \in Tables |-> Cardinality(RunRows(tbl[u], PlanOf[b]))]
      <4>1. CountTables(b)
        BY <1>0, <3>1, PinStep
      <4>2. \A u \in Tables : actual[u] = Expected(PlanOf[b], u)
        BY <1>0, <3>1, <4>1 DEF CountTables, Builder
      <4>3. bld' = [bld EXCEPT ![b] = [bld[b] EXCEPT !.pc = "pin", !.counts = actual]]
        BY <1>0, <4>1, <4>2 DEF CountTables
      <4> HIDE DEF actual
      <4>4. bld'[b].counts = actual
        BY <1>0, <4>3 DEF Builder
      <4> QED BY <4>2, <4>4
    <3>2. ASSUME bld'[b].pc \in Holding, NEW t \in Tables, NEW i, i = bld'[b].pin[t]
          PROVE  Exact(t, PlanOf[b], i)'
      <4>1. CASE bld'[b].pc = "commit"
        <5>1. PinSnapshots(b) /\ BuildersExact
          BY <1>0, <4>1, PinStep DEF ExactInv
        <5>2. Exact(t, PlanOf[b], i)
          BY <1>0, <3>2, <4>1, <5>1, PinsAreExact
        <5> QED BY <1>0, <5>2, ExactStable
      <4>2. CASE bld'[b].pc \in {"commit_land", "verify"}
        <5>1. bld[b].pc \in Holding /\ i = bld[b].pin[t]
          BY <1>0, <3>2, <4>2, PinStep
        <5>2. Exact(t, PlanOf[b], i)
          BY <5>1 DEF ExactInv, BuildersExact
        <5> QED BY <1>0, <5>2, ExactStable
      <4> QED BY <3>2, <4>1, <4>2 DEF Holding
    <3> QED BY <2>2, <3>1, <3>2
  <2> QED BY <2>1, <2>2
<1> QED BY <1>1, <1>2

\* Exactness is inductive: the inductive invariant follows the pins from the moment
\* _release_snapshot_id returns them to the commit row, and no later MERGE of any
\* driver takes away what it verified.
LEMMA ExactInvariant == Spec => []ExactInv
<1>1. Init => ExactInv
  <2> SUFFICES ASSUME Init PROVE ExactInv
    OBVIOUS
  <2>1. TypeInv
    BY InitType
  <2>2. CommitPinsExactRows
    BY DEF Init, CommitPinsExactRows
  <2>3. \A b \in Builders : bld[b].pc = "idle"
    BY DEF Init, IdleBuilder
  <2> QED BY <2>1, <2>2, <2>3 DEF ExactInv, BuildersExact, Holding
<1>2. ExactInv /\ [Next]_vars => ExactInv'
  <2> SUFFICES ASSUME ExactInv, [Next]_vars PROVE ExactInv'
    OBVIOUS
  <2>1. CASE \E b \in Builders : Build(b) \/ Crash(b)
    <3>1. PICK b \in Builders : Build(b) \/ Crash(b)
      BY <2>1
    <3>2. TypeInv'
      BY <3>1, BuildOK, TypeStep DEF ExactInv
    <3> QED BY <3>1, <3>2, ExactStep DEF ExactInv
  <2>2. CASE UNCHANGED vars
    <3>1. TypeInv'
      BY <2>2 DEF vars, ExactInv, TypeInv
    <3>2. CommitPinsExactRows'
      BY <2>2 DEF vars, ExactInv, CommitPinsExactRows
    <3>3. BuildersExact'
      BY <2>2 DEF vars, ExactInv, BuildersExact, Exact
    <3> QED BY <3>1, <3>2, <3>3 DEF ExactInv
  <2> QED BY <2>1, <2>2 DEF Next
<1> QED BY <1>1, <1>2, PTL DEF Spec

\* A release commit pins, in every Gold table, a snapshot that added exactly the
\* planned rows, whatever other drivers of its plan merged and wherever one died.
THEOREM CommitsAreExact == Spec => []CommitPinsExactRows
<1>1. ExactInv => CommitPinsExactRows
  BY DEF ExactInv
<1> QED BY <1>1, ExactInvariant, PTL

\* ------------------------------------------------ what two attempts leave hidden

\* A snapshot that _release_snapshot_id accepts is the only owned one.
LEMMA FoundIsAlone ==
  ASSUME NEW T, NEW r, NEW n, Found(T, r, n)
  PROVE  Cardinality(ActiveOwned(T, r)) \in {0, 1}
<1>1. ActiveOwned(T, r) = {} \/ \E i : ActiveOwned(T, r) = {i}
  BY DEF Found, FoundOwned
<1>2. CASE ActiveOwned(T, r) = {}
  BY <1>2, FS_EmptySet
<1>3. CASE \E i : ActiveOwned(T, r) = {i}
  <2>1. PICK i : ActiveOwned(T, r) = {i}
    BY <1>3
  <2>2. Cardinality({i}) = 1
    BY FS_Singleton
  <2> QED BY <2>1, <2>2
<1> QED BY <1>1, <1>2, <1>3

\* Rows of a plan that two attempts merged stay unpublished: only a driver that
\* found one owned snapshot in every table ever reaches the commit MERGE.
THEOREM MixedStayHidden == Spec => MixedAttemptsStayHidden
<1> DEFINE Hidden(p) ==
      (/\ p \notin Committed
       /\ \A b \in Builders : PlanOf[b] = p => bld[b].pc \notin {"commit", "commit_land"}
       /\ \E t \in Tables : Cardinality(ActiveOwned(tbl[t], p)) > 1)
        => p \notin Committed' /\ \A b \in Builders : PlanOf[b] = p => bld'[b].pc # "commit"
<1>1. ExactInv /\ [Next]_vars => [\A p \in Plans : Hidden(p)]_vars
  <2> SUFFICES ASSUME ExactInv, NEW b \in Builders, Build(b) \/ Crash(b), NEW p \in Plans,
                      p \notin Committed,
                      \A c \in Builders : PlanOf[c] = p => bld[c].pc \notin {"commit", "commit_land"},
                      NEW t \in Tables, Cardinality(ActiveOwned(tbl[t], p)) > 1
               PROVE  /\ p \notin Committed'
                      /\ \A c \in Builders : PlanOf[c] = p => bld'[c].pc # "commit"
    BY DEF Next
  <2>0. /\ TypeInv /\ bld \in [Builders -> Builder] /\ commits \in Seq(CommitRow)
        /\ bld' = [bld EXCEPT ![b] = bld'[b]] /\ CommitStep(b) /\ Mine(b) \in CommitRow
    BY BuildOK, MineType DEF ExactInv, TypeInv
  <2>1. p \notin Committed'
    <3>1. CASE commits' = commits
      BY <3>1 DEF Committed
    <3>2. CASE bld[b].pc = "commit_land" /\ commits' = Append(commits, Mine(b))
      <4>1. Mine(b).plan # p
        BY <3>2 DEF Mine
      <4> DEFINE row == Mine(b)
      <4>2. row \in CommitRow /\ commits' = Append(commits, row)
        BY <2>0, <3>2
      <4> HIDE DEF row
      <4>3. \A n \in DOMAIN commits' : \/ commits'[n] = row
                                       \/ (n \in DOMAIN commits /\ commits'[n] = commits[n])
        BY <2>0, <4>2
      <4> QED BY <4>1, <4>3 DEF Committed, row
    <3> QED BY <2>0, <3>1, <3>2 DEF CommitStep
  <2>2. ASSUME NEW c \in Builders, PlanOf[c] = p, bld'[c].pc = "commit" PROVE FALSE
    <3>1. c = b
      BY <2>0, <2>2
    <3>2. PinSnapshots(b) /\ BuildersExact
      BY <2>0, <2>2, <3>1, PinStep DEF ExactInv
    <3>3. Found(tbl[t], p, bld[b].counts[t])
      BY <2>0, <2>2, <3>1, <3>2, PinsAreExact
    <3>4. Cardinality(ActiveOwned(tbl[t], p)) \in {0, 1}
      BY <3>3, FoundIsAlone
    <3> QED BY <3>4
  <2> QED BY <2>1, <2>2
<1> QED BY <1>1, ExactInvariant, PTL DEF Spec, MixedAttemptsStayHidden

\* ------------------------------------------------------------ lineage

\* One step of the closure over a lineage: what the runs of T extend.
Grown(T) == T \cup G!Identities(UNION {G!ExplicitRuns(u) : u \in G!Extended(T)})
ReachTable(f, S, N) == f = [n \in 0..N |-> IF n = 0 THEN G!Identities(S) ELSE Grown(f[n - 1])]

\* A set of numbers has a least one.
Before == {p \in Nat \X Nat : p[1] < p[2]}

LEMMA LeastNumber ==
  ASSUME NEW S \in SUBSET Nat, S # {}
  PROVE  \E n \in S : \A m \in S : n <= m
<1>1. IsWellFoundedOn(Before, Nat)
  BY NatLessThanWellFounded DEF OpToRel, Before
<1>2. PICK n \in S : \A m \in S : ~(<<m, n>> \in Before)
  BY <1>1, WFMin
<1>3. \A m \in S : ~(m < n)
  BY <1>2 DEF Before
<1> QED BY <1>3

LEMMA ReachExists ==
  ASSUME NEW S, NEW N \in Nat
  PROVE  \E f : ReachTable(f, S, N)
<1> DEFINE bad == {n \in Nat : ~ \E f : ReachTable(f, S, n)}
<1>1. SUFFICES ASSUME bad # {} PROVE FALSE
  OBVIOUS
<1>2. PICK n \in bad : \A m \in bad : n <= m
  BY <1>1, LeastNumber
<1>3. CASE n = 0
  <2> DEFINE f == [k \in 0..0 |-> G!Identities(S)]
  <2>1. f = [k \in 0..0 |-> IF k = 0 THEN G!Identities(S) ELSE Grown(f[k - 1])]
    OBVIOUS
  <2> QED BY <1>2, <1>3, <2>1 DEF ReachTable
<1>4. CASE n # 0
  <2>1. n - 1 \in Nat /\ n - 1 \notin bad /\ n \in Nat
    BY <1>2, <1>4
  <2>2. PICK f : ReachTable(f, S, n - 1)
    BY <2>1
  <2> DEFINE last == Grown(f[n - 1])
             g == [k \in 0..n |-> IF k = n THEN last ELSE f[k]]
  <2>3. \A k \in 0..(n - 1) : f[k] = IF k = 0 THEN G!Identities(S) ELSE Grown(f[k - 1])
    BY <2>1, <2>2 DEF ReachTable
  <2>4. g[n - 1] = f[n - 1] /\ g[n] = Grown(g[n - 1])
    BY <2>1, <1>4
  <2> HIDE DEF last
  <2>5. \A k \in 0..n : g[k] = IF k = 0 THEN G!Identities(S) ELSE Grown(g[k - 1])
    <3> SUFFICES ASSUME NEW k \in 0..n PROVE g[k] = IF k = 0 THEN G!Identities(S) ELSE Grown(g[k - 1])
      OBVIOUS
    <3>1. CASE k = n
      BY <3>1, <2>4, <1>4
    <3>2. CASE k # n
      <4>1. k \in 0..(n - 1) /\ g[k] = f[k] /\ (k # 0 => g[k - 1] = f[k - 1])
        BY <3>2, <2>1
      <4> QED BY <4>1, <2>3
    <3> QED BY <3>1, <3>2
  <2>6. g = [k \in 0..n |-> IF k = 0 THEN G!Identities(S) ELSE Grown(g[k - 1])]
    BY <2>5, Zenon
  <2> QED BY <1>2, <2>6 DEF ReachTable
<1> QED BY <1>3, <1>4

\* The number of steps after which the model stops looking.
Depth == G!Cardinality(Uris)
LEMMA DepthOK == Depth \in Nat /\ Depth >= 1
<1>1. Depth = Cardinality(Uris)
  BY DEF Depth, G!Cardinality, Cardinality
<1>2. Cardinality(Uris) \in Nat /\ Cardinality(Uris) # 0
  BY HistoryAssumption, FS_CardinalityType, FS_EmptySet
<1> QED BY <1>1, <1>2

LEMMA ClosureTable ==
  ASSUME NEW S
  PROVE  \E f : ReachTable(f, S, Depth) /\ G!IdentityClosure(S) = f[Depth]
<1> DEFINE F == CHOOSE f : ReachTable(f, S, Depth)
<1>1. ReachTable(F, S, Depth)
  BY ReachExists, DepthOK
<1>2. G!IdentityClosure(S) = F[Depth]
  BY DEF G!IdentityClosure, ReachTable, Grown, Depth
<1> QED BY <1>1, <1>2

\* A set that holds the runs of S and is closed holds their closure.
LEMMA ReachBound ==
  ASSUME NEW f, NEW S, NEW N \in Nat, ReachTable(f, S, N), NEW B,
         G!Identities(S) \subseteq B, \A T \in SUBSET B : Grown(T) \subseteq B
  PROVE  f[N] \subseteq B
<1> DEFINE bad == {n \in 0..N : ~ (f[n] \subseteq B)}
<1>0. bad \in SUBSET Nat
  OBVIOUS
<1>1. SUFFICES ASSUME bad # {} PROVE FALSE
  OBVIOUS
<1>2. PICK n \in bad : \A m \in bad : n <= m
  <2> HIDE DEF bad
  <2> QED BY <1>0, <1>1, LeastNumber
<1>3. \A k \in 0..N : f[k] = IF k = 0 THEN G!Identities(S) ELSE Grown(f[k - 1])
  BY DEF ReachTable
<1>4. n # 0
  BY <1>2, <1>3
<1>5. n - 1 \in 0..N /\ n - 1 \notin bad
  BY <1>2, <1>4
<1> QED BY <1>2, <1>3, <1>4, <1>5

\* The closure has the runs of S and what they extend.
LEMMA ReachGrows ==
  ASSUME NEW f, NEW S, NEW N \in Nat, N >= 1, ReachTable(f, S, N)
  PROVE  Grown(G!Identities(S)) \subseteq f[N]
<1> DEFINE bad == {n \in 1..N : ~ (Grown(G!Identities(S)) \subseteq f[n])}
<1>0. bad \in SUBSET Nat
  OBVIOUS
<1>1. SUFFICES ASSUME bad # {} PROVE FALSE
  OBVIOUS
<1>2. PICK n \in bad : \A m \in bad : n <= m
  <2> HIDE DEF bad
  <2> QED BY <1>0, <1>1, LeastNumber
<1>3. \A k \in 0..N : f[k] = IF k = 0 THEN G!Identities(S) ELSE Grown(f[k - 1])
  BY DEF ReachTable
<1>4. f[0] = G!Identities(S)
  BY <1>3
<1>5. n # 1
  <2>1. f[1] = Grown(f[0])
    BY <1>3
  <2> QED BY <1>2, <1>4, <2>1
<1>6. n - 1 \in 1..N /\ n - 1 \notin bad /\ n \in 0..N /\ n # 0
  BY <1>2, <1>5
<1>7. f[n] = Grown(f[n - 1])
  BY <1>3, <1>6
<1>8. f[n - 1] \subseteq f[n]
  BY <1>7 DEF Grown
<1> QED BY <1>2, <1>6, <1>8

\* IdentityClosure is the least set with the Identity runs of S that is closed.
LEMMA ClosureLeast ==
  ASSUME NEW S, NEW B, G!Identities(S) \subseteq B,
         \A x \in B : x.kind = "incremental" => G!Identities(G!ExplicitRuns(x.input)) \subseteq B
  PROVE  G!IdentityClosure(S) \subseteq B
<1>1. ASSUME NEW T \in SUBSET B PROVE Grown(T) \subseteq B
  BY <1>1 DEF Grown, G!Extended, G!Identities
<1>2. PICK f : ReachTable(f, S, Depth) /\ G!IdentityClosure(S) = f[Depth]
  BY ClosureTable
<1> QED BY <1>1, <1>2, ReachBound, DepthOK

LEMMA ClosureHolds ==
  ASSUME NEW S
  PROVE  /\ G!Identities(S) \subseteq G!IdentityClosure(S)
         /\ \A x \in G!Identities(S) : x.kind = "incremental" =>
              G!Identities(G!ExplicitRuns(x.input)) \subseteq G!IdentityClosure(S)
<1>1. PICK f : ReachTable(f, S, Depth) /\ G!IdentityClosure(S) = f[Depth]
  BY ClosureTable
<1>2. Grown(G!Identities(S)) \subseteq G!IdentityClosure(S)
  BY <1>1, ReachGrows, DepthOK
<1> QED BY <1>2 DEF Grown, G!Extended, G!Identities

\* ------------------------------------------------------------ epochs
Older(T) == T \cup {man[v].parent : v \in T \ {G!None}}
BackTable(f, u, N) == f = [n \in 0..N |-> IF n = 0 THEN {u} ELSE Older(f[n - 1])]

LEMMA BackExists ==
  ASSUME NEW u, NEW N \in Nat
  PROVE  \E f : BackTable(f, u, N)
<1> DEFINE bad == {n \in Nat : ~ \E f : BackTable(f, u, n)}
<1>1. SUFFICES ASSUME bad # {} PROVE FALSE
  OBVIOUS
<1>2. PICK n \in bad : \A m \in bad : n <= m
  BY <1>1, LeastNumber
<1>3. CASE n = 0
  <2> DEFINE f == [k \in 0..0 |-> {u}]
  <2>1. f = [k \in 0..0 |-> IF k = 0 THEN {u} ELSE Older(f[k - 1])]
    OBVIOUS
  <2> QED BY <1>2, <1>3, <2>1 DEF BackTable
<1>4. CASE n # 0
  <2>1. n - 1 \in Nat /\ n - 1 \notin bad /\ n \in Nat
    BY <1>2, <1>4
  <2>2. PICK f : BackTable(f, u, n - 1)
    BY <2>1
  <2> DEFINE last == Older(f[n - 1])
             g == [k \in 0..n |-> IF k = n THEN last ELSE f[k]]
  <2>3. \A k \in 0..(n - 1) : f[k] = IF k = 0 THEN {u} ELSE Older(f[k - 1])
    BY <2>1, <2>2 DEF BackTable
  <2>4. g[n - 1] = f[n - 1] /\ g[n] = Older(g[n - 1])
    BY <2>1, <1>4
  <2> HIDE DEF last
  <2>5. \A k \in 0..n : g[k] = IF k = 0 THEN {u} ELSE Older(g[k - 1])
    <3> SUFFICES ASSUME NEW k \in 0..n PROVE g[k] = IF k = 0 THEN {u} ELSE Older(g[k - 1])
      OBVIOUS
    <3>1. CASE k = n
      BY <3>1, <2>4, <1>4
    <3>2. CASE k # n
      <4>1. k \in 0..(n - 1) /\ g[k] = f[k] /\ (k # 0 => g[k - 1] = f[k - 1])
        BY <3>2, <2>1
      <4> QED BY <4>1, <2>3
    <3> QED BY <3>1, <3>2
  <2>6. g = [k \in 0..n |-> IF k = 0 THEN {u} ELSE Older(g[k - 1])]
    BY <2>5, Zenon
  <2> QED BY <1>2, <2>6 DEF BackTable
<1> QED BY <1>3, <1>4

LEMMA ChainTable ==
  ASSUME NEW u
  PROVE  \E f : BackTable(f, u, Depth) /\ G!EpochChain(u) = f[Depth] \ {G!None}
<1> DEFINE F == CHOOSE f : BackTable(f, u, Depth)
<1>1. BackTable(F, u, Depth)
  BY BackExists, DepthOK
<1>2. G!EpochChain(u) = F[Depth] \ {G!None}
  BY DEF G!EpochChain, BackTable, Older, Depth
<1> QED BY <1>1, <1>2

\* The chain of an epoch stays in a set that has the parents of its members.
LEMMA ChainLeast ==
  ASSUME NEW u, NEW B, u \in B, \A v \in B \ {G!None} : man[v].parent \in B
  PROVE  G!EpochChain(u) \subseteq B \ {G!None}
<1>1. PICK f : BackTable(f, u, Depth) /\ G!EpochChain(u) = f[Depth] \ {G!None}
  BY ChainTable
<1> DEFINE bad == {n \in 0..Depth : ~ (f[n] \subseteq B)}
<1>0. bad \in SUBSET Nat
  BY DepthOK
<1>2. SUFFICES ASSUME bad # {} PROVE FALSE
  BY <1>1, DepthOK
<1>3. PICK n \in bad : \A m \in bad : n <= m
  <2> HIDE DEF bad
  <2> QED BY <1>0, <1>2, LeastNumber
<1>4. \A k \in 0..Depth : f[k] = IF k = 0 THEN {u} ELSE Older(f[k - 1])
  BY <1>1 DEF BackTable
<1>5. n # 0
  BY <1>3, <1>4
<1>6. n - 1 \in 0..Depth /\ n - 1 \notin bad
  BY <1>3, <1>5, DepthOK
<1>7. Older(f[n - 1]) \subseteq B
  BY <1>6 DEF Older
<1> QED BY <1>3, <1>4, <1>5, <1>7

\* ------------------------------------------------------------ lineage invariant

\* R has the Identity runs of every manifest that one of its runs extends.
Closes(R) == \A x \in R : x.kind = "incremental" => G!Identities(man[x.input].runs) \subseteq R

\* An incremental run was computed from a published, closed manifest of committed
\* runs, and resolves what was unresolved there.
Grounded(x) ==
  x.kind = "incremental" =>
    /\ x.input \in Uris /\ man[x.input].kind # G!None
    /\ man[x.input].gen = x.gen
    /\ Closes(man[x.input].runs)
    /\ man[x.input].runs \subseteq marks
    /\ x.srcs = G!Unprocessed(man[x.input].runs)

\* Published manifests.
ManifestOK(u) ==
  man[u].kind # G!None =>
    /\ man[u].kind \in {"snapshot", "epoch"}
    /\ man[u].runs \subseteq marks
    /\ \A x \in man[u].runs : x.kind # "source" => x.gen = man[u].gen
    /\ man[u].kind = "epoch" \/ u \notin Legacy => Closes(man[u].runs)
    /\ man[u].kind = "epoch" => man[u].delta \subseteq man[u].runs
    /\ man[u].kind = "epoch" /\ man[u].parent # G!None =>
         /\ man[u].parent \in Uris /\ man[man[u].parent].kind = "epoch"
         /\ man[man[u].parent].runs \subseteq man[u].runs

Reads == {"commits", "runs", "data", "publish"}
Writes == {"stage", "land", "commit"}
CommandPhases == Reads \cup Writes \cup {"idle", "done"}

\* A set of committed runs that has, with a run, the manifest it extends.
Whole(R) == \A x \in R : x.kind = "incremental" => man[x.input].runs \subseteq R

Fields == {"pc", "op", "uri", "gen", "req", "parent", "run", "heads", "out"}
HeadNames == {"commits", "runs", "data"}
Shape(c) == DOMAIN c = Fields /\ DOMAIN c.heads = HeadNames

\* What a command has read and what it is about to write.
CommandOK(c) ==
  /\ Shape(c) /\ c.pc \in CommandPhases
  /\ c.out # "torn"
  /\ c.pc \in {"runs", "data", "publish"} =>
       c.heads.commits \subseteq marks /\ Whole(c.heads.commits)
  /\ c.pc \in {"data", "publish"} => c.heads.commits \subseteq c.heads.runs
  /\ c.pc = "publish" => c.heads.commits \subseteq c.heads.data
  /\ c.pc \in Reads =>
       /\ c.op \in {"snapshot", "epoch"} /\ (c.op = "snapshot" => c.parent = G!None)
       /\ c.parent # G!None => c.parent \in Uris /\ man[c.parent].kind = "epoch"
  /\ c.pc \in Writes => c.run.kind \in {"full", "incremental"} /\ Grounded(c.run)
  /\ c.pc \in {"land", "commit"} => c.run \in runs
  /\ c.pc = "commit" => c.run \in rows

TablesOK ==
  /\ marks \subseteq rows /\ rows \subseteq runs /\ IsFiniteSet(marks)
  /\ man = [u \in Uris |-> man[u]] /\ cmd = [a \in Actors |-> cmd[a]]
  /\ \A u \in Uris : man[u] = G!NoManifest \/ man[u].kind # G!None

LineageInv ==
  /\ TablesOK
  /\ \A u \in Uris : ManifestOK(u)
  /\ \A x \in marks : Grounded(x)
  /\ \A a \in Actors : CommandOK(cmd[a])

\* The explicit runs of an epoch are runs of its manifest.
LEMMA ExplicitBound ==
  ASSUME LineageInv, NEW u \in Uris, man[u].kind # G!None
  PROVE  G!ExplicitRuns(u) \subseteq man[u].runs
<1>1. CASE man[u].kind = "snapshot"
  BY <1>1 DEF G!ExplicitRuns
<1>2. CASE man[u].kind = "epoch"
  <2> DEFINE B == {v \in Uris : man[v].kind = "epoch" /\ man[v].runs \subseteq man[u].runs}
                    \cup {G!None}
  <2>1. u \in B
    BY <1>2
  <2>2. \A v \in B \ {G!None} : man[v].parent \in B
    BY DEF LineageInv, ManifestOK, G!None
  <2> HIDE DEF B
  <2>3. G!EpochChain(u) \subseteq B \ {G!None}
    BY <2>1, <2>2, ChainLeast
  <2>4. \A v \in G!EpochChain(u) : man[v].delta \subseteq man[u].runs
    BY <2>3 DEF B, LineageInv, ManifestOK, G!None
  <2> QED BY <1>2, <2>4 DEF G!ExplicitRuns
<1> QED BY <1>1, <1>2 DEF LineageInv, ManifestOK

\* An enumerable epoch lists its runs.
LEMMA EnumerableWhole ==
  ASSUME LineageInv, NEW u \in Uris, man[u].kind # G!None, G!Enumerable(u)
  PROVE  G!ExplicitRuns(u) = man[u].runs
<1>1. CASE man[u].kind = "snapshot"
  BY <1>1 DEF G!ExplicitRuns
<1>2. CASE man[u].kind # "snapshot"
  <2>1. G!Cardinality(G!ExplicitRuns(u)) = G!Cardinality(man[u].runs)
    BY <1>2 DEF G!Enumerable
  <2>2. \A S : G!Cardinality(S) = Cardinality(S)
    BY DEF G!Cardinality, Cardinality
  <2>3. G!ExplicitRuns(u) \subseteq man[u].runs
    BY ExplicitBound
  <2>4. IsFiniteSet(man[u].runs)
    BY FS_Subset DEF LineageInv, TablesOK, ManifestOK
  <2>5. Cardinality(G!ExplicitRuns(u)) = Cardinality(man[u].runs)
    BY <2>1, <2>2
  <2> QED BY <2>3, <2>4, <2>5, FS_Subset
<1> QED BY <1>1, <1>2

\* Inside a closed manifest of committed runs nothing is extended that is not there.
LEMMA ClosesExplicit ==
  ASSUME LineageInv, NEW R, R \subseteq marks, Closes(R), NEW x \in R, x.kind = "incremental"
  PROVE  G!Identities(G!ExplicitRuns(x.input)) \subseteq R
<1>1. Grounded(x)
  BY DEF LineageInv
<1>2. G!ExplicitRuns(x.input) \subseteq man[x.input].runs
  BY <1>1, ExplicitBound DEF Grounded
<1>3. G!Identities(man[x.input].runs) \subseteq R
  BY DEF Closes
<1> QED BY <1>2, <1>3 DEF G!Identities

\* A closed manifest holds its closure.
LEMMA ClosesWhole ==
  ASSUME LineageInv, NEW R, R \subseteq marks, Closes(R)
  PROVE  G!IdentityClosure(R) \subseteq R
<1>1. G!Identities(R) \subseteq R
  BY DEF G!Identities
<1> QED BY <1>1, ClosesExplicit, ClosureLeast

\* The closure of committed runs whose manifests can be enumerated: the runs and
\* the Identity runs of those manifests, and nothing more.
Extends(S) == UNION {G!Identities(man[u].runs) : u \in G!Extended(S)}
LEMMA ClosureOfRequest ==
  ASSUME LineageInv, NEW S, S \subseteq marks,
         \A u \in G!Extended(S) : G!Enumerable(u)
  PROVE  /\ G!IdentityClosure(S) = G!Identities(S) \cup Extends(S)
         /\ Closes(S \cup G!IdentityClosure(S))
<1> DEFINE B == G!Identities(S) \cup Extends(S)
<1>0. \A x \in marks : Grounded(x)
  BY DEF LineageInv
<1>1. ASSUME NEW x \in S, x.kind = "incremental"
      PROVE  /\ x.input \in G!Extended(S) /\ x.input \in Uris
             /\ G!ExplicitRuns(x.input) = man[x.input].runs
             /\ man[x.input].runs \subseteq marks /\ Closes(man[x.input].runs)
             /\ x \in G!Identities(S)
  <2>1. x.input \in G!Extended(S) /\ x \in G!Identities(S)
    BY <1>1 DEF G!Extended, G!Identities
  <2>2. Grounded(x)
    BY <1>0, <1>1
  <2> QED BY <1>1, <2>1, <2>2, EnumerableWhole DEF Grounded
<1>2. \A y \in Extends(S) : \E x \in S : x.kind = "incremental" /\ y \in G!Identities(man[x.input].runs)
  BY DEF Extends, G!Extended
<1>3. \A x \in S : x.kind = "incremental" => G!Identities(man[x.input].runs) \subseteq B
  BY <1>1 DEF Extends
<1>4. Closes(B)
  <2> SUFFICES ASSUME NEW y \in B, y.kind = "incremental"
               PROVE  G!Identities(man[y.input].runs) \subseteq B
    BY DEF Closes
  <2>1. CASE y \in G!Identities(S)
    BY <2>1, <1>3 DEF G!Identities
  <2>2. CASE y \in Extends(S)
    <3>1. PICK x \in S : x.kind = "incremental" /\ y \in G!Identities(man[x.input].runs)
      BY <2>2, <1>2
    <3>2. G!Identities(man[y.input].runs) \subseteq man[x.input].runs
      BY <3>1, <1>1 DEF Closes, G!Identities
    <3>3. G!Identities(man[y.input].runs) \subseteq G!Identities(man[x.input].runs)
      BY <3>2 DEF G!Identities
    <3> QED BY <3>1, <3>3, <1>3
  <2> QED BY <2>1, <2>2
<1>5. B \subseteq marks
  BY <1>1, <1>2 DEF G!Identities
<1>6. G!IdentityClosure(S) \subseteq B
  <2> HIDE DEF B
  <2>1. G!Identities(S) \subseteq B
    BY DEF B
  <2> QED BY <2>1, <1>4, <1>5, ClosesExplicit, ClosureLeast
<1>7. B \subseteq G!IdentityClosure(S)
  <2>1. G!Identities(S) \subseteq G!IdentityClosure(S)
    BY ClosureHolds
  <2>2. ASSUME NEW y \in Extends(S) PROVE y \in G!IdentityClosure(S)
    <3>1. PICK x \in S : x.kind = "incremental" /\ y \in G!Identities(man[x.input].runs)
      BY <2>2, <1>2
    <3> QED BY <3>1, <1>1, ClosureHolds
  <2> QED BY <2>1, <2>2
<1>8. G!IdentityClosure(S) = B
  BY <1>6, <1>7
<1>9. Closes(S \cup B)
  <2> SUFFICES ASSUME NEW y \in S \cup B, y.kind = "incremental"
               PROVE  G!Identities(man[y.input].runs) \subseteq S \cup B
    BY DEF Closes
  <2> QED BY <1>3, <1>4 DEF Closes
<1> QED BY <1>8, <1>9

\* Tables only grow and what is published stays.
Kept ==
  /\ marks \subseteq marks' /\ rows \subseteq rows' /\ runs \subseteq runs'
  /\ \A u \in Uris : man[u].kind # G!None => man'[u] = man[u]

LEMMA ClosesKept ==
  ASSUME LineageInv, Kept, NEW R, R \subseteq marks, Closes(R)
  PROVE  Closes(R)'
<1>1. \A x \in R : x.kind = "incremental" => man'[x.input] = man[x.input]
  BY DEF LineageInv, Grounded, Kept
<1> QED BY <1>1 DEF Closes, G!Identities

LEMMA GroundedKept ==
  ASSUME LineageInv, Kept, NEW x, Grounded(x)
  PROVE  Grounded(x)'
<1>1. SUFFICES ASSUME x.kind = "incremental" PROVE Grounded(x)'
  BY DEF Grounded
<1>2. /\ x.input \in Uris /\ man[x.input].kind # G!None /\ man'[x.input] = man[x.input]
      /\ man[x.input].gen = x.gen /\ man[x.input].runs \subseteq marks
      /\ x.srcs = G!Unprocessed(man[x.input].runs) /\ Closes(man[x.input].runs)
  BY <1>1 DEF Grounded, Kept
<1>3. PICK R : R = man[x.input].runs
  OBVIOUS
<1>4. Closes(R)' /\ R = man'[x.input].runs
  BY <1>2, <1>3, ClosesKept
<1>5. Closes(man[x.input].runs)'
  BY <1>4 DEF Closes
<1>6. (x.srcs = G!Unprocessed(man[x.input].runs))'
  BY <1>2 DEF G!Unprocessed, G!SourcesOf, G!Resolved, G!Identities
<1>7. man'[x.input].kind # G!None /\ man'[x.input].gen = x.gen /\ man'[x.input].runs \subseteq marks'
  BY <1>2 DEF Kept
<1> QED BY <1>2, <1>5, <1>6, <1>7 DEF Grounded, G!None

LEMMA ManifestKept ==
  ASSUME LineageInv, Kept, NEW u \in Uris, man[u].kind # G!None
  PROVE  ManifestOK(u)'
<1>1. man'[u] = man[u] /\ ManifestOK(u)
  BY DEF Kept, LineageInv
<1>2. PICK R : R = man[u].runs
  OBVIOUS
<1>3. R \subseteq marks /\ R \subseteq marks'
  BY <1>1, <1>2 DEF ManifestOK, Kept
<1>4. man[u].kind = "epoch" \/ u \notin Legacy => Closes(R)'
  BY <1>1, <1>2, <1>3, ClosesKept DEF ManifestOK
<1>5. (man[u].kind = "epoch" \/ u \notin Legacy => Closes(man[u].runs))'
  BY <1>1, <1>2, <1>4 DEF Closes, Legacy
<1>6. (man[u].kind = "epoch" /\ man[u].parent # G!None =>
         /\ man[u].parent \in Uris /\ man[man[u].parent].kind = "epoch"
         /\ man[man[u].parent].runs \subseteq man[u].runs)'
  BY <1>1 DEF ManifestOK, Kept, G!None
<1>7. man[u].runs \subseteq marks'
  BY <1>2, <1>3
<1>8. (man[u].kind = "epoch" => man[u].delta \subseteq man[u].runs)'
  BY <1>1 DEF ManifestOK
<1>9. (\A x \in man[u].runs : x.kind # "source" => x.gen = man[u].gen)' /\ man[u].kind \in {"snapshot", "epoch"}
  BY <1>1 DEF ManifestOK
<1> QED BY <1>1, <1>5, <1>6, <1>7, <1>8, <1>9 DEF ManifestOK, G!None

LEMMA CommandKept ==
  ASSUME LineageInv, Kept, NEW c, CommandOK(c)
  PROVE  CommandOK(c)'
<1>1. c.pc \in {"runs", "data", "publish"} => Whole(c.heads.commits)'
  <2> SUFFICES ASSUME c.pc \in {"runs", "data", "publish"},
                      NEW x \in c.heads.commits, x.kind = "incremental"
               PROVE  man'[x.input].runs \subseteq c.heads.commits
    BY DEF Whole
  <2>1. x \in marks /\ man[x.input].runs \subseteq c.heads.commits
    BY DEF CommandOK, Whole
  <2>2. man'[x.input] = man[x.input]
    BY <2>1 DEF LineageInv, Grounded, Kept
  <2> QED BY <2>1, <2>2
<1>2. c.pc \in Writes => Grounded(c.run)'
  BY GroundedKept DEF CommandOK
<1>3. c.parent \in Uris /\ man[c.parent].kind = "epoch" => man'[c.parent].kind = "epoch"
  BY DEF Kept, G!None
<1>4. c.pc \in Reads => (c.parent # G!None => c.parent \in Uris /\ man'[c.parent].kind = "epoch")
  BY <1>3 DEF CommandOK
<1>5. Shape(c)'
  BY DEF CommandOK, Shape
<1> QED BY <1>1, <1>2, <1>4, <1>5 DEF CommandOK, Kept

\* A step of one command: what is left to show is the command's own state.
LEMMA TurnKept ==
  ASSUME LineageInv, Kept, TablesOK', NEW a \in Actors, NEW c, cmd' = [cmd EXCEPT ![a] = c],
         CommandOK(c)', \A x \in marks' : Grounded(x)',
         \A u \in Uris : man[u].kind = G!None => ManifestOK(u)'
  PROVE  LineageInv'
<1>1. \A u \in Uris : ManifestOK(u)'
  BY ManifestKept
<1>2. \A b \in Actors : CommandOK(cmd[b])'
  <2> SUFFICES ASSUME NEW b \in Actors PROVE CommandOK(cmd[b])'
    OBVIOUS
  <2>1. CASE b = a
    <3>1. cmd'[b] = c
      BY <2>1 DEF LineageInv, TablesOK
    <3>2. \A e : CommandOK(e)' /\ cmd'[b] = e => CommandOK(cmd[b])'
      OBVIOUS
    <3> QED BY <3>1, <3>2
  <2>2. CASE b # a
    <3>1. cmd'[b] = cmd[b] /\ CommandOK(cmd[b])
      BY <2>2 DEF LineageInv, TablesOK
    <3>2. PICK e : e = cmd[b]
      OBVIOUS
    <3>3. CommandOK(e)'
      BY <3>1, <3>2, CommandKept
    <3>4. \A d : CommandOK(d)' /\ cmd'[b] = d => CommandOK(cmd[b])'
      OBVIOUS
    <3> QED BY <3>1, <3>2, <3>3, <3>4
  <2> QED BY <2>1, <2>2
<1> QED BY <1>1, <1>2 DEF LineageInv

\* What a publication without a parent selects: its request and the lineage, which
\* is the Identity runs of the manifests that the request's runs extend.
LEMMA SelectedWhole ==
  ASSUME LineageInv, NEW a \in Actors, cmd[a].pc = "publish", G!Publishable(a),
         cmd[a].parent = G!None, cmd[a].req # {}
  PROVE  /\ G!Selected(a) = cmd[a].req \cup G!IdentityClosure(cmd[a].req)
         /\ G!IdentityClosure(cmd[a].req) = G!Identities(cmd[a].req) \cup Extends(cmd[a].req)
         /\ cmd[a].req \subseteq marks
         /\ Closes(G!Selected(a))
<1> DEFINE S == cmd[a].req
<1>1. G!Added(a) = G!Lineage(S)
  BY DEF G!Added
<1>2. S \cup G!Lineage(S) = S \cup G!IdentityClosure(S)
  BY DEF G!Lineage
<1>3. G!Selected(a) = S \cup G!IdentityClosure(S)
  BY <1>1, <1>2 DEF G!Selected
<1>4. S \subseteq marks
  <2>1. S \subseteq cmd[a].heads["commits"]
    BY <1>3 DEF G!Publishable, G!Pinned, G!NoHeads
  <2> QED BY <2>1 DEF LineageInv, CommandOK
<1>5. \A u \in G!Extended(S) : G!Enumerable(u)
  <2>1. G!LineageReadable(S, cmd[a].gen)
    BY DEF G!Publishable
  <2> QED BY <2>1 DEF G!LineageReadable, G!Extended
<1>6. /\ G!IdentityClosure(S) = G!Identities(S) \cup Extends(S)
      /\ Closes(S \cup G!IdentityClosure(S))
  <2> HIDE DEF S
  <2> QED BY <1>4, <1>5, ClosureOfRequest
<1> QED BY <1>3, <1>4, <1>6

\* What there is of a generation at two heads is closed.
LEMMA AvailableCloses ==
  ASSUME LineageInv, NEW c, CommandOK(c), c.pc = "publish", NEW g
  PROVE  Closes(G!Available(c.heads, g))
<1> SUFFICES ASSUME NEW x \in G!Available(c.heads, g), x.kind = "incremental"
             PROVE  G!Identities(man[x.input].runs) \subseteq G!Available(c.heads, g)
  BY DEF Closes
<1>1. x \in c.heads.commits /\ x \in marks /\ x.gen = g
  BY DEF G!Available, G!OfGeneration, G!SourcesOf, G!IdentityRows, G!Identities, CommandOK
<1>2. man[x.input].runs \subseteq c.heads.commits /\ c.heads.commits \subseteq c.heads.runs
  BY <1>1 DEF CommandOK, Whole
<1>3. x.input \in Uris /\ man[x.input].kind # G!None /\ man[x.input].gen = g
  BY <1>1 DEF LineageInv, Grounded
<1>4. \A y \in man[x.input].runs : y.kind # "source" => y.gen = g
  BY <1>3 DEF LineageInv, ManifestOK
<1> QED BY <1>2, <1>4 DEF G!Available, G!OfGeneration, G!IdentityRows, G!Identities

LEMMA ProposalOK ==
  ASSUME LineageInv, NEW a \in Actors, cmd[a].pc = "publish", G!Publishable(a)
  PROVE  /\ G!Selected(a) \subseteq marks /\ Closes(G!Selected(a))
         /\ \A x \in G!Selected(a) : x.kind # "source" => x.gen = cmd[a].gen
         /\ cmd[a].op = "epoch" => cmd[a].req \cup G!Added(a) \subseteq G!Selected(a)
         /\ cmd[a].parent # G!None =>
              man[cmd[a].parent].runs \subseteq G!Selected(a) /\ cmd[a].op = "epoch"
<1>0. CommandOK(cmd[a])
  BY DEF LineageInv
<1>1. G!Selected(a) \subseteq marks
  <2>1. G!Selected(a) \subseteq cmd[a].heads["commits"]
    BY DEF G!Publishable, G!Pinned, G!NoHeads
  <2> QED BY <2>1, <1>0 DEF CommandOK
<1>2. \A x \in G!Selected(a) : x.kind # "source" => x.gen = cmd[a].gen
  BY DEF G!Publishable, G!OfGeneration, G!SourcesOf, G!IdentityRows, G!Identities
<1>3. PICK c : c = cmd[a]
  OBVIOUS
<1>4. Closes(G!Available(cmd[a].heads, cmd[a].gen))
  BY <1>0, <1>3, AvailableCloses
<1>5. cmd[a].op \in {"snapshot", "epoch"} /\ (cmd[a].op = "snapshot" => cmd[a].parent = G!None)
  BY <1>0 DEF CommandOK, Reads
<1>6. CASE cmd[a].parent # G!None
  <2>1. G!Selected(a) = G!Available(cmd[a].heads, cmd[a].gen) /\ G!Added(a) = {}
    BY <1>5, <1>6 DEF G!Selected, G!Added
  <2>2. /\ man[cmd[a].parent].runs \subseteq G!Selected(a)
        /\ cmd[a].req \subseteq G!Selected(a)
    BY <1>6 DEF G!Publishable, G!DeltaIsExact
  <2> QED BY <1>1, <1>2, <1>4, <1>5, <1>6, <2>1, <2>2
<1>7. CASE cmd[a].parent = G!None /\ cmd[a].req # {}
  <2>1. Closes(G!Selected(a)) /\ G!Selected(a) = cmd[a].req \cup G!IdentityClosure(cmd[a].req)
    BY <1>7, SelectedWhole
  <2>2. G!Added(a) \subseteq G!IdentityClosure(cmd[a].req)
    BY DEF G!Added, G!Lineage
  <2> QED BY <1>1, <1>2, <1>7, <2>1, <2>2
<1>8. CASE cmd[a].parent = G!None /\ cmd[a].req = {}
  <2>1. G!IdentityClosure(cmd[a].req) \subseteq {}
    <3>1. G!Identities({}) \subseteq {}
      BY DEF G!Identities
    <3> QED BY <1>8, <3>1, ClosureLeast
  <2>2. G!Added(a) = {}
    BY <2>1 DEF G!Added, G!Lineage
  <2>3. Closes({})
    BY DEF Closes
  <2>4. G!Selected(a) \in {{}, G!Available(cmd[a].heads, cmd[a].gen)}
    BY <1>8, <2>2 DEF G!Selected
  <2> QED BY <1>1, <1>2, <1>4, <1>8, <2>2, <2>3, <2>4
<1> QED BY <1>6, <1>7, <1>8

\* ------------------------------------------------------------ lineage steps

LEMMA IngestStep ==
  ASSUME LineageInv, NEW s, G!Ingest(s)
  PROVE  LineageInv'
<1> DEFINE y == G!SourceRun(s)
<1>0. y.kind = "source"
  BY DEF G!SourceRun
<1>1. /\ UNCHANGED <<man, cmd>>
      /\ marks' = marks \/ (y \in rows /\ marks' = marks \cup {y})
      /\ rows' = rows \/ (y \in runs /\ rows' = rows \cup {y})
      /\ runs' = runs \/ runs' = runs \cup {y}
      /\ marks' \subseteq rows' /\ rows' \subseteq runs'
  BY DEF G!Ingest, LineageInv, TablesOK
<1> HIDE DEF y
<1>2. Kept
  BY <1>1 DEF Kept
<1>3. IsFiniteSet(marks')
  BY <1>1, FS_AddElement DEF LineageInv, TablesOK
<1>4. TablesOK'
  BY <1>1, <1>3 DEF LineageInv, TablesOK
<1>5. \A u \in Uris : ManifestOK(u)'
  <2>1. ASSUME NEW u \in Uris, man[u].kind = G!None PROVE ManifestOK(u)'
    BY <2>1, <1>1 DEF ManifestOK
  <2> QED BY <2>1, <1>2, ManifestKept
<1>6. \A x \in marks' : Grounded(x)'
  <2>1. Grounded(y)'
    BY <1>0 DEF Grounded
  <2> QED BY <2>1, <1>1, <1>2, GroundedKept DEF LineageInv
<1>7. \A b \in Actors : CommandOK(cmd[b])'
  <2> SUFFICES ASSUME NEW b \in Actors PROVE CommandOK(cmd[b])'
    OBVIOUS
  <2>1. PICK e : e = cmd[b]
    OBVIOUS
  <2>2. CommandOK(e)'
    BY <1>2, <2>1, CommandKept DEF LineageInv
  <2>3. \A d : CommandOK(d)' /\ cmd'[b] = d => CommandOK(cmd[b])'
    OBVIOUS
  <2> QED BY <1>1, <2>1, <2>2, <2>3
<1> QED BY <1>4, <1>5, <1>6, <1>7 DEF LineageInv

\* A command that writes no table and publishes nothing.
LEMMA QuietTurn ==
  ASSUME LineageInv, NEW a \in Actors, NEW c, cmd' = [cmd EXCEPT ![a] = c],
         UNCHANGED <<runs, rows, marks, man>>, CommandOK(c)
  PROVE  LineageInv'
<1>1. Kept
  BY DEF Kept
<1>2. TablesOK'
  BY DEF LineageInv, TablesOK
<1>3. CommandOK(c)'
  BY <1>1, CommandKept
<1>4. \A x \in marks' : Grounded(x)'
  BY <1>1, GroundedKept DEF LineageInv
<1>5. \A u \in Uris : man[u].kind = G!None => ManifestOK(u)'
  BY DEF ManifestOK
<1> QED BY <1>1, <1>2, <1>3, <1>4, <1>5, TurnKept

LEMMA IdleIs ==
  /\ DOMAIN G!Idle = Fields /\ DOMAIN G!Idle.heads = HeadNames
  /\ G!Idle.out = G!None /\ G!Idle.parent = G!None /\ G!Idle.pc = "idle"
BY DEF G!Idle, Fields, G!NoHeads, HeadNames

\* A command that ends.
EndedAs(c, run, out) ==
  Shape(c) /\ c.pc = "done" /\ c.run = run /\ c.out = out
LEMMA EndIs ==
  ASSUME NEW a, NEW out, G!End(a, out)
  PROVE  \E c : cmd' = [cmd EXCEPT ![a] = c] /\ EndedAs(c, cmd[a].run, out)
<1> DEFINE c == [G!Idle EXCEPT !.pc = "done", !.run = cmd[a].run, !.out = out]
<1>1. cmd' = [cmd EXCEPT ![a] = c]
  BY DEF G!End, G!Turn
<1>2. EndedAs(c, cmd[a].run, out)
  BY IdleIs DEF EndedAs, Shape, Fields
<1> QED BY <1>1, <1>2

LEMMA EndedOK ==
  ASSUME NEW c, NEW run, NEW out, EndedAs(c, run, out), out # "torn"
  PROVE  CommandOK(c) /\ CommandOK(c)'
BY DEF CommandOK, EndedAs, Shape, CommandPhases, Reads, Writes

LEMMA BeginStep ==
  ASSUME LineageInv, NEW a \in Actors,
         (\E u, g, req, initialize : G!BeginSnapshot(a, u, g, req, initialize))
         \/ (\E u, g, req : G!BeginEpoch(a, u, g, req, G!None))
         \/ (\E p \in Uris : \E u, g, req : G!BeginEpoch(a, u, g, req, p))
  PROVE  LineageInv'
<1> DEFINE new(op, u, g, req, p) ==
      [G!Idle EXCEPT !.pc = "commits", !.op = op, !.uri = u, !.gen = g, !.req = req, !.parent = p]
<1>1. PICK c : /\ cmd' = [cmd EXCEPT ![a] = c] /\ UNCHANGED <<runs, rows, marks, man>>
               /\ Shape(c) /\ c.pc = "commits" /\ c.op \in {"snapshot", "epoch"} /\ c.out = G!None
               /\ c.parent # G!None =>
                    c.parent \in Uris /\ c.op = "epoch" /\ man[c.parent].kind = "epoch"
  <2>1. ASSUME NEW u, NEW g, NEW req, NEW i, G!BeginSnapshot(a, u, g, req, i)
        PROVE  \E c : /\ cmd' = [cmd EXCEPT ![a] = c] /\ UNCHANGED <<runs, rows, marks, man>>
                      /\ Shape(c) /\ c.pc = "commits" /\ c.op = "snapshot" /\ c.out = G!None
                      /\ c.parent = G!None
    <3> DEFINE c == [G!Idle EXCEPT !.pc = G!HeadOrder[1], !.op = "snapshot", !.uri = u, !.gen = g, !.req = req]
    <3>1. cmd' = [cmd EXCEPT ![a] = c] /\ UNCHANGED <<runs, rows, marks, man>>
      BY <2>1 DEF G!BeginSnapshot, G!Turn, G!Tables
    <3>2. Shape(c) /\ c.pc = "commits" /\ c.op = "snapshot" /\ c.out = G!None /\ c.parent = G!None
      BY IdleIs DEF Shape, Fields, G!HeadOrder
    <3> QED BY <3>1, <3>2
  <2>2. ASSUME NEW u, NEW g, NEW req, NEW p, G!BeginEpoch(a, u, g, req, p)
        PROVE  \E c : /\ cmd' = [cmd EXCEPT ![a] = c] /\ UNCHANGED <<runs, rows, marks, man>>
                      /\ Shape(c) /\ c.pc = "commits" /\ c.op = "epoch" /\ c.out = G!None
                      /\ c.parent = p /\ (p # G!None => man[p].kind = "epoch")
    <3> DEFINE c == [G!Idle EXCEPT !.pc = G!HeadOrder[1], !.op = "epoch", !.uri = u, !.gen = g, !.req = req,
                                   !.parent = p]
    <3>1. /\ cmd' = [cmd EXCEPT ![a] = c] /\ UNCHANGED <<runs, rows, marks, man>>
          /\ p # G!None => man[p].kind = "epoch"
      BY <2>2 DEF G!BeginEpoch, G!Turn, G!Tables
    <3>2. Shape(c) /\ c.pc = "commits" /\ c.op = "epoch" /\ c.out = G!None /\ c.parent = p
      BY IdleIs DEF Shape, Fields, G!HeadOrder
    <3> QED BY <3>1, <3>2
  <2> QED BY <2>1, <2>2
<1>2. CommandOK(c)
  BY <1>1 DEF CommandOK, CommandPhases, Reads, Writes, G!None
<1> QED BY <1>1, <1>2, QuietTurn

\* One head is read: the commits before the runs before the data.
LEMMA ReadHeadIs ==
  ASSUME LineageInv, NEW a \in Actors, G!ReadHead(a)
  PROVE  \E c : /\ cmd' = [cmd EXCEPT ![a] = c] /\ UNCHANGED <<runs, rows, marks, man>>
                /\ Shape(c) /\ c.op = cmd[a].op /\ c.uri = cmd[a].uri /\ c.gen = cmd[a].gen
                /\ c.req = cmd[a].req /\ c.parent = cmd[a].parent /\ c.run = cmd[a].run
                /\ c.out = cmd[a].out
                /\ \/ /\ cmd[a].pc = "commits" /\ c.pc = "runs" /\ c.heads.commits = marks
                   \/ /\ cmd[a].pc = "runs" /\ c.pc = "data"
                      /\ c.heads.commits = cmd[a].heads.commits /\ c.heads.runs = runs
                   \/ /\ cmd[a].pc = "data" /\ c.pc = "publish"
                      /\ c.heads.commits = cmd[a].heads.commits /\ c.heads.runs = cmd[a].heads.runs
                      /\ c.heads.data = rows
<1>1. Shape(cmd[a]) /\ cmd[a].pc \in HeadNames
  BY DEF LineageInv, CommandOK, G!ReadHead, G!NoHeads, HeadNames
<1> DEFINE i == CHOOSE k \in 1..3 : G!HeadOrder[k] = cmd[a].pc
           c == [cmd[a] EXCEPT !.heads[cmd[a].pc] = G!Heads[cmd[a].pc],
                               !.pc = IF i = 3 THEN "publish" ELSE G!HeadOrder[i + 1]]
<1>2. cmd' = [cmd EXCEPT ![a] = c] /\ UNCHANGED <<runs, rows, marks, man>>
  BY DEF G!ReadHead, G!Turn, G!Tables
<1>3. i \in 1..3 /\ G!HeadOrder[i] = cmd[a].pc
  BY <1>1 DEF HeadNames, G!HeadOrder
<1> DEFINE next == IF i = 3 THEN "publish" ELSE G!HeadOrder[i + 1]
<1> HIDE DEF i
<1>5. (cmd[a].pc = "commits" /\ next = "runs") \/ (cmd[a].pc = "runs" /\ next = "data")
      \/ (cmd[a].pc = "data" /\ next = "publish")
  BY <1>3 DEF G!HeadOrder
<1> HIDE DEF next
<1>6. PICK h : h = G!Heads[cmd[a].pc]
  OBVIOUS
<1>7. /\ cmd[a].pc = "commits" => h = marks
      /\ cmd[a].pc = "runs" => h = runs
      /\ cmd[a].pc = "data" => h = rows
  BY <1>6 DEF G!Heads
<1>8. c = [cmd[a] EXCEPT !.heads = [cmd[a].heads EXCEPT ![cmd[a].pc] = h], !.pc = next]
  BY <1>1, <1>6 DEF Shape, Fields, next
<1>9. PICK heads : heads = [cmd[a].heads EXCEPT ![cmd[a].pc] = h]
  OBVIOUS
<1>10. /\ DOMAIN heads = HeadNames /\ heads[cmd[a].pc] = h
       /\ \A t \in HeadNames : t # cmd[a].pc => heads[t] = cmd[a].heads[t]
  BY <1>1, <1>9 DEF Shape
<1>11. PICK d : d = [cmd[a] EXCEPT !.heads = heads, !.pc = next]
  OBVIOUS
<1>12. /\ DOMAIN d = Fields /\ d.heads = heads /\ d.pc = next
       /\ d.op = cmd[a].op /\ d.uri = cmd[a].uri /\ d.gen = cmd[a].gen /\ d.req = cmd[a].req
       /\ d.parent = cmd[a].parent /\ d.run = cmd[a].run /\ d.out = cmd[a].out
  BY <1>1, <1>11 DEF Shape, Fields
<1>13. cmd' = [cmd EXCEPT ![a] = d]
  BY <1>2, <1>8, <1>9, <1>11
<1>14. /\ Shape(d) /\ heads["commits"] = d.heads.commits /\ heads["runs"] = d.heads.runs
       /\ heads["data"] = d.heads.data
  BY <1>10, <1>12 DEF Shape
<1>15. /\ cmd[a].pc = "commits" => d.heads.commits = marks
       /\ cmd[a].pc = "runs" => d.heads.commits = cmd[a].heads.commits /\ d.heads.runs = runs
       /\ cmd[a].pc = "data" => /\ d.heads.commits = cmd[a].heads.commits
                                /\ d.heads.runs = cmd[a].heads.runs /\ d.heads.data = rows
  BY <1>7, <1>10, <1>14 DEF HeadNames
<1> HIDE DEF c
<1>16. UNCHANGED <<runs, rows, marks, man>>
  BY <1>2
<1> QED BY <1>5, <1>12, <1>13, <1>14, <1>15, <1>16

LEMMA ReadHeadStep ==
  ASSUME LineageInv, NEW a \in Actors, G!ReadHead(a)
  PROVE  LineageInv'
<1>0. CommandOK(cmd[a]) /\ marks \subseteq runs /\ marks \subseteq rows /\ Whole(marks)
  BY DEF LineageInv, TablesOK, Whole, Grounded
<1>1. PICK c : /\ cmd' = [cmd EXCEPT ![a] = c] /\ UNCHANGED <<runs, rows, marks, man>>
               /\ Shape(c) /\ c.op = cmd[a].op /\ c.parent = cmd[a].parent /\ c.out = cmd[a].out
               /\ \/ /\ cmd[a].pc = "commits" /\ c.pc = "runs" /\ c.heads.commits = marks
                  \/ /\ cmd[a].pc = "runs" /\ c.pc = "data"
                     /\ c.heads.commits = cmd[a].heads.commits /\ c.heads.runs = runs
                  \/ /\ cmd[a].pc = "data" /\ c.pc = "publish"
                     /\ c.heads.commits = cmd[a].heads.commits /\ c.heads.runs = cmd[a].heads.runs
                     /\ c.heads.data = rows
  BY ReadHeadIs
<1>2. cmd[a].pc \in Reads /\ c.pc \in Reads \ {"commits"} /\ c.pc \notin Writes /\ c.pc \in CommandPhases
  BY <1>1 DEF Reads, Writes, CommandPhases
<1>3. /\ c.op \in {"snapshot", "epoch"} /\ (c.op = "snapshot" => c.parent = G!None)
      /\ c.parent # G!None => c.parent \in Uris /\ man[c.parent].kind = "epoch"
      /\ c.out # "torn"
  BY <1>0, <1>1, <1>2 DEF CommandOK
<1>4. c.heads.commits \subseteq marks /\ Whole(c.heads.commits)
  BY <1>0, <1>1 DEF CommandOK
<1>5. /\ c.pc \in {"data", "publish"} => c.heads.commits \subseteq c.heads.runs
      /\ c.pc = "publish" => c.heads.commits \subseteq c.heads.data
  BY <1>0, <1>1, <1>4 DEF CommandOK
<1>6. CommandOK(c)
  BY <1>1, <1>2, <1>3, <1>4, <1>5 DEF CommandOK, Writes
<1> QED BY <1>1, <1>6, QuietTurn

\* A publication that does not take place was not torn by the order of its reads.
LEMMA NotTorn ==
  ASSUME LineageInv, NEW a \in Actors, cmd[a].pc = "publish",
         G!Selected(a) \subseteq cmd[a].heads.commits
  PROVE  G!Pinned(a)
<1>1. cmd[a].heads.commits \subseteq cmd[a].heads.runs /\ cmd[a].heads.commits \subseteq cmd[a].heads.data
  BY DEF LineageInv, CommandOK
<1> QED BY <1>1 DEF G!Pinned, G!NoHeads

\* What a publication leaves at its URI.
LEMMA PublishIs ==
  ASSUME LineageInv, NEW a \in Actors, G!Publish(a)
  PROVE  /\ cmd[a].pc = "publish" /\ UNCHANGED <<runs, rows, marks>>
         /\ \/ /\ G!Publishable(a) /\ man[cmd[a].uri] \in {G!NoManifest, G!Proposed(a)}
               /\ man' = [man EXCEPT ![cmd[a].uri] = G!Proposed(a)]
               /\ \E c : cmd' = [cmd EXCEPT ![a] = c] /\ EndedAs(c, cmd[a].run, "ok")
            \/ /\ man' = man
               /\ \E c : cmd' = [cmd EXCEPT ![a] = c] /\ EndedAs(c, cmd[a].run, "refused")
<1>1. cmd[a].pc = "publish" /\ UNCHANGED <<runs, rows, marks>>
  BY DEF G!Publish, G!Tables
<1>2. CASE G!Publishable(a) /\ man[cmd[a].uri] \in {G!NoManifest, G!Proposed(a)}
  <2>1. man' = [man EXCEPT ![cmd[a].uri] = G!Proposed(a)] /\ G!End(a, "ok")
    BY <1>2 DEF G!Publish
  <2> QED BY <1>1, <1>2, <2>1, EndIs
<1>3. CASE ~(G!Publishable(a) /\ man[cmd[a].uri] \in {G!NoManifest, G!Proposed(a)})
  <2>1. /\ man' = man
        /\ G!End(a, IF G!Selected(a) \subseteq cmd[a].heads.commits /\ ~G!Pinned(a)
                    THEN "torn" ELSE "refused")
    BY <1>3 DEF G!Publish
  <2>2. ~(G!Selected(a) \subseteq cmd[a].heads.commits /\ ~G!Pinned(a))
    BY <1>1, NotTorn
  <2>3. G!End(a, "refused")
    BY <2>1, <2>2
  <2> QED BY <1>1, <2>1, <2>3, EndIs
<1> QED BY <1>2, <1>3

LEMMA PublishStep ==
  ASSUME LineageInv, NEW a \in Actors, G!Publish(a)
  PROVE  LineageInv'
<1>0. cmd[a].pc = "publish" /\ UNCHANGED <<runs, rows, marks>> /\ CommandOK(cmd[a])
  BY PublishIs DEF LineageInv
<1>1. CASE man' = man /\ \E c : cmd' = [cmd EXCEPT ![a] = c] /\ EndedAs(c, cmd[a].run, "refused")
  BY <1>0, <1>1, EndedOK, QuietTurn
<1>2. CASE /\ G!Publishable(a) /\ man[cmd[a].uri] \in {G!NoManifest, G!Proposed(a)}
           /\ man' = [man EXCEPT ![cmd[a].uri] = G!Proposed(a)]
           /\ \E c : cmd' = [cmd EXCEPT ![a] = c] /\ EndedAs(c, cmd[a].run, "ok")
  <2>1. PICK c : cmd' = [cmd EXCEPT ![a] = c] /\ EndedAs(c, cmd[a].run, "ok")
    BY <1>2
  <2>2. CommandOK(c)'
    BY <2>1, EndedOK
  <2>3. cmd[a].op \in {"snapshot", "epoch"}
        /\ (cmd[a].parent # G!None => cmd[a].parent \in Uris /\ man[cmd[a].parent].kind = "epoch")
    BY <1>0 DEF CommandOK, Reads
  <2>4. PICK S : S = G!Selected(a)
    OBVIOUS
  <2>5. PICK p : p = G!Proposed(a)
    OBVIOUS
  <2>6. /\ p.kind = cmd[a].op /\ p.gen = cmd[a].gen /\ p.runs = S /\ p.parent = cmd[a].parent
        /\ cmd[a].op = "epoch" => p.delta = cmd[a].req \cup G!Added(a)
    BY <2>4, <2>5 DEF G!Proposed
  <2>7. S \subseteq marks /\ Closes(S) /\ (\A x \in S : x.kind # "source" => x.gen = p.gen)
        /\ (p.kind = "epoch" => p.delta \subseteq S)
        /\ (p.parent # G!None => man[p.parent].runs \subseteq S)
    BY <1>0, <1>2, <2>4, <2>6, ProposalOK
  <2>8. p.kind # G!None /\ man' = [man EXCEPT ![cmd[a].uri] = p]
        /\ man[cmd[a].uri] \in {G!NoManifest, p} /\ G!NoManifest.kind = G!None
    BY <1>2, <2>3, <2>5, <2>6 DEF G!None, G!NoManifest
  <2>9. man' = [u \in Uris |-> IF u = cmd[a].uri THEN p ELSE man[u]]
    BY <2>8 DEF LineageInv, TablesOK
  <2>10. Kept
    BY <1>0, <2>8, <2>9 DEF Kept
  <2>11. TablesOK'
    BY <1>0, <2>1, <2>8, <2>9 DEF LineageInv, TablesOK, G!None, G!NoManifest
  <2>12. \A x \in marks' : Grounded(x)'
    BY <1>0, <2>10, GroundedKept DEF LineageInv
  <2>13. Closes(S)'
    BY <2>7, <2>10, ClosesKept
  <2>14. ASSUME NEW u \in Uris, man[u].kind = G!None PROVE ManifestOK(u)'
    <3>1. CASE u # cmd[a].uri
      BY <2>9, <2>14, <3>1 DEF ManifestOK
    <3>2. CASE u = cmd[a].uri
      <4>1. man'[u] = p
        BY <2>9, <3>2
      <4>2. Closes(man[u].runs)'
        BY <2>6, <2>13, <4>1 DEF Closes
      <4>3. p.parent # G!None => man'[p.parent] = man[p.parent]
        BY <2>3, <2>6, <2>10 DEF Kept, G!None
      <4>4. (man[u].kind = "epoch" /\ man[u].parent # G!None =>
               /\ man[u].parent \in Uris /\ man[man[u].parent].kind = "epoch"
               /\ man[man[u].parent].runs \subseteq man[u].runs)'
        BY <2>3, <2>6, <2>7, <4>1, <4>3 DEF G!None
      <4>5. (/\ man[u].kind \in {"snapshot", "epoch"} /\ man[u].runs \subseteq marks
             /\ \A x \in man[u].runs : x.kind # "source" => x.gen = man[u].gen
             /\ man[u].kind = "epoch" => man[u].delta \subseteq man[u].runs)'
        BY <1>0, <2>3, <2>6, <2>7, <4>1
      <4> QED BY <4>2, <4>4, <4>5 DEF ManifestOK
    <3> QED BY <3>1, <3>2
  <2> QED BY <2>1, <2>2, <2>10, <2>11, <2>12, <2>14, TurnKept
<1> QED BY <1>1, <1>2, PublishIs

\* A manifest that resolve-identity takes in incremental mode is closed.
LEMMA ResolvableGrounded ==
  ASSUME LineageInv, NEW u \in Uris, NEW g, NEW S, G!Resolvable(u, g, "incremental", S),
         NEW x, x.input = u, x.gen = g, x.srcs = S
  PROVE  Grounded(x)
<1>1. /\ man[u].kind # G!None /\ man[u].gen = g /\ S = G!Unprocessed(man[u].runs)
      /\ man[u].kind = "snapshot" => G!Closed(man[u].runs, g)
  BY DEF G!Resolvable
<1>2. man[u].runs \subseteq marks /\ man[u].kind \in {"snapshot", "epoch"}
      /\ (man[u].kind = "epoch" => Closes(man[u].runs))
  BY <1>1 DEF LineageInv, ManifestOK
<1>3. PICK R : R = man[u].runs
  OBVIOUS
<1>4. ASSUME G!Closed(R, g) PROVE Closes(R)
  <2>1. G!IdentityClosure(R) \subseteq R
    BY <1>4 DEF G!Closed, G!Lineage
  <2>2. ASSUME NEW y \in R, y.kind = "incremental" PROVE G!Identities(man[y.input].runs) \subseteq R
    <3>1. y \in G!Identities(R)
      BY <2>2 DEF G!Identities
    <3>2. G!Identities(G!ExplicitRuns(y.input)) \subseteq R
      BY <2>1, <2>2, <3>1, ClosureHolds
    <3>3. Grounded(y)
      BY <1>2, <1>3 DEF LineageInv
    <3>4. y.input \in G!Extended(R \cup G!Lineage(R))
      BY <2>2 DEF G!Extended
    <3>5. G!Enumerable(y.input)
      BY <1>4, <3>4 DEF G!Closed, G!LineageReadable
    <3>6. G!ExplicitRuns(y.input) = man[y.input].runs
      BY <2>2, <3>3, <3>5, EnumerableWhole DEF Grounded
    <3> QED BY <3>2, <3>6
  <2> QED BY <2>2 DEF Closes
<1> QED BY <1>1, <1>2, <1>3, <1>4 DEF Grounded

LEMMA BeginResolveIs ==
  ASSUME NEW a, NEW u, NEW g, NEW mode, NEW S, NEW p, G!BeginResolve(a, u, g, mode, S, p)
  PROVE  /\ UNCHANGED <<runs, rows, marks, man>> /\ G!Resolvable(u, g, mode, S)
         /\ \E c : /\ cmd' = [cmd EXCEPT ![a] = c] /\ Shape(c) /\ c.pc = "stage" /\ c.uri = u
                   /\ c.run = G!IdentityRun(mode, a, g, u, S, p) /\ c.out = G!None
<1> DEFINE x == G!IdentityRun(mode, a, g, u, S, p)
           c == [G!Idle EXCEPT !.pc = "stage", !.op = "resolve", !.uri = u, !.gen = g, !.run = x]
<1>1. cmd' = [cmd EXCEPT ![a] = c] /\ UNCHANGED <<runs, rows, marks, man>> /\ G!Resolvable(u, g, mode, S)
  BY DEF G!BeginResolve, G!Turn, G!Tables
<1> HIDE DEF x
<1>2. Shape(c) /\ c.pc = "stage" /\ c.uri = u /\ c.run = x /\ c.out = G!None
  BY IdleIs DEF Shape, Fields
<1> QED BY <1>1, <1>2 DEF x

LEMMA BeginResolveStep ==
  ASSUME LineageInv, NEW a \in Actors, NEW u \in Uris, NEW g, NEW mode \in {"full", "incremental"},
         NEW S, NEW p, G!BeginResolve(a, u, g, mode, S, p)
  PROVE  LineageInv'
<1>1. PICK x : x = G!IdentityRun(mode, a, g, u, S, p)
  OBVIOUS
<1>2. x.kind = mode /\ x.input = u /\ x.gen = g /\ x.srcs = S
  BY <1>1 DEF G!IdentityRun
<1>3. /\ UNCHANGED <<runs, rows, marks, man>> /\ G!Resolvable(u, g, mode, S)
      /\ \E c : /\ cmd' = [cmd EXCEPT ![a] = c] /\ Shape(c) /\ c.pc = "stage" /\ c.uri = u
                /\ c.run = x /\ c.out = G!None
  BY <1>1, BeginResolveIs
<1>4. Grounded(x)
  <2>1. CASE mode = "incremental"
    BY <1>2, <1>3, <2>1, ResolvableGrounded
  <2>2. CASE mode = "full"
    BY <1>2, <2>2 DEF Grounded
  <2> QED BY <2>1, <2>2
<1>5. PICK c : /\ cmd' = [cmd EXCEPT ![a] = c] /\ Shape(c) /\ c.pc = "stage"
               /\ c.run = x /\ c.out = G!None
  BY <1>3
<1>6. CommandOK(c)
  BY <1>2, <1>4, <1>5 DEF CommandOK, CommandPhases, Reads, Writes, G!None
<1> QED BY <1>3, <1>5, <1>6, QuietTurn

\* The run's manifest is written, or the command ends.
LEMMA StageIs ==
  ASSUME LineageInv, NEW a \in Actors, G!Stage(a)
  PROVE  /\ cmd[a].pc = "stage" /\ UNCHANGED <<rows, marks, man>>
         /\ \/ /\ runs' = runs /\ cmd[a].run \in marks
               /\ \E c : cmd' = [cmd EXCEPT ![a] = c] /\ EndedAs(c, cmd[a].run, "ok")
            \/ /\ runs' = runs
               /\ \E c : cmd' = [cmd EXCEPT ![a] = c] /\ EndedAs(c, cmd[a].run, "refused")
            \/ /\ runs' = runs \cup {cmd[a].run}
               /\ cmd' = [cmd EXCEPT ![a] = [cmd[a] EXCEPT !.pc = "land"]]
<1> DEFINE admitted == /\ cmd[a].run \notin rows
                       /\ cmd[a].run.kind = "full" => G!IdentityRows(rows, cmd[a].run.gen) = {}
                       /\ cmd[a].run.kind = "incremental" =>
                            G!IdentityRows(rows, cmd[a].run.gen)
                              = G!IdentityRows(man[cmd[a].uri].heads.data, cmd[a].run.gen)
<1>1. /\ cmd[a].pc = "stage" /\ UNCHANGED man
      /\ \/ cmd[a].run \in marks /\ G!End(a, "ok") /\ UNCHANGED G!Tables
         \/ G!End(a, "refused") /\ UNCHANGED G!Tables
         \/ /\ runs' = runs \cup {cmd[a].run}
            /\ G!Turn(a, [cmd[a] EXCEPT !.pc = "land"])
            /\ UNCHANGED <<rows, marks>>
  BY DEF G!Stage
<1>2. CASE cmd[a].run \in marks /\ G!End(a, "ok") /\ UNCHANGED G!Tables
  BY <1>1, <1>2, EndIs DEF G!Tables
<1>3. CASE G!End(a, "refused") /\ UNCHANGED G!Tables
  BY <1>1, <1>3, EndIs DEF G!Tables
<1>4. CASE /\ runs' = runs \cup {cmd[a].run}
           /\ G!Turn(a, [cmd[a] EXCEPT !.pc = "land"])
           /\ UNCHANGED <<rows, marks>>
  BY <1>1, <1>4 DEF G!Turn
<1> QED BY <1>1, <1>2, <1>3, <1>4

\* A command that goes on to the next write.
LEMMA GoesOn ==
  ASSUME NEW c, Shape(c), NEW pc, NEW d, d = [c EXCEPT !.pc = pc]
  PROVE  Shape(d) /\ d.pc = pc /\ d.run = c.run /\ d.uri = c.uri /\ d.out = c.out
BY DEF Shape, Fields

LEMMA StageStep ==
  ASSUME LineageInv, NEW a \in Actors, G!Stage(a)
  PROVE  LineageInv'
<1>0. cmd[a].pc = "stage" /\ UNCHANGED <<rows, marks, man>> /\ CommandOK(cmd[a])
  BY StageIs DEF LineageInv
<1>1. CASE runs' = runs /\ \E c : cmd' = [cmd EXCEPT ![a] = c] /\ EndedAs(c, cmd[a].run, "ok")
  BY <1>0, <1>1, EndedOK, QuietTurn
<1>3. CASE runs' = runs /\ \E c : cmd' = [cmd EXCEPT ![a] = c] /\ EndedAs(c, cmd[a].run, "refused")
  BY <1>0, <1>3, EndedOK, QuietTurn
<1>2. CASE /\ runs' = runs \cup {cmd[a].run}
           /\ cmd' = [cmd EXCEPT ![a] = [cmd[a] EXCEPT !.pc = "land"]]
  <2>1. PICK d : d = [cmd[a] EXCEPT !.pc = "land"]
    OBVIOUS
  <2>2. Shape(d) /\ d.pc = "land" /\ d.run = cmd[a].run /\ d.out = cmd[a].out
    BY <1>0, <2>1, GoesOn DEF CommandOK
  <2>3. Kept
    BY <1>0, <1>2 DEF Kept
  <2>4. TablesOK'
    BY <1>0, <1>2 DEF LineageInv, TablesOK
  <2>5. PICK x : x = cmd[a].run
    OBVIOUS
  <2>6. Grounded(x)' /\ x.kind \in {"full", "incremental"} /\ x \in runs'
    BY <1>0, <1>2, <2>3, <2>5, GroundedKept DEF CommandOK, Writes
  <2>7. CommandOK(d)'
    BY <1>0, <2>2, <2>5, <2>6 DEF CommandOK, CommandPhases, Reads, Writes, Shape
  <2>8. \A y \in marks' : Grounded(y)'
    BY <1>0, <2>3, GroundedKept DEF LineageInv
  <2>9. \A u \in Uris : man[u].kind = G!None => ManifestOK(u)'
    BY <1>0 DEF ManifestOK
  <2> QED BY <1>2, <2>1, <2>3, <2>4, <2>7, <2>8, <2>9, TurnKept
<1> QED BY <1>0, <1>1, <1>2, <1>3, StageIs

LEMMA LandIs ==
  ASSUME LineageInv, NEW a \in Actors, G!Land(a)
  PROVE  /\ cmd[a].pc = "land" /\ UNCHANGED <<runs, marks, man>>
         /\ rows' = rows \cup {cmd[a].run}
         /\ \/ cmd' = [cmd EXCEPT ![a] = [cmd[a] EXCEPT !.pc = "commit"]]
            \/ \E c : cmd' = [cmd EXCEPT ![a] = c] /\ EndedAs(c, cmd[a].run, "refused")
<1>1. /\ cmd[a].pc = "land" /\ UNCHANGED <<runs, marks, man>>
      /\ rows' = rows \cup {cmd[a].run}
      /\ G!Turn(a, [cmd[a] EXCEPT !.pc = "commit"]) \/ G!End(a, "refused")
  BY DEF G!Land
<1>2. CASE G!Turn(a, [cmd[a] EXCEPT !.pc = "commit"])
  BY <1>1, <1>2 DEF G!Turn
<1>3. CASE G!End(a, "refused")
  BY <1>1, <1>3, EndIs
<1> QED BY <1>1, <1>2, <1>3

LEMMA LandStep ==
  ASSUME LineageInv, NEW a \in Actors, G!Land(a)
  PROVE  LineageInv'
<1>0. /\ cmd[a].pc = "land" /\ UNCHANGED <<runs, marks, man>> /\ CommandOK(cmd[a])
      /\ rows' = rows \cup {cmd[a].run} /\ cmd[a].run \in runs
  BY LandIs DEF LineageInv, CommandOK
<1>1. Kept
  BY <1>0 DEF Kept
<1>2. PICK x : x = cmd[a].run
  OBVIOUS
<1>3. Grounded(x)' /\ x.kind \in {"full", "incremental"} /\ x \in runs' /\ x \in rows'
  BY <1>0, <1>1, <1>2, GroundedKept DEF CommandOK, Writes
<1>4. \A y \in marks' : Grounded(y)'
  BY <1>0, <1>1, GroundedKept DEF LineageInv
<1>5. \A u \in Uris : man[u].kind = G!None => ManifestOK(u)'
  BY <1>0 DEF ManifestOK
<1>6. PICK d : cmd' = [cmd EXCEPT ![a] = d] /\
               ((Shape(d) /\ d.pc = "commit" /\ d.run = x /\ d.out = cmd[a].out)
                \/ EndedAs(d, x, "refused"))
  <2>1. CASE cmd' = [cmd EXCEPT ![a] = [cmd[a] EXCEPT !.pc = "commit"]]
    <3>1. PICK d : d = [cmd[a] EXCEPT !.pc = "commit"]
      OBVIOUS
    <3>2. Shape(cmd[a])
      BY <1>0 DEF CommandOK
    <3>3. Shape(d) /\ d.pc = "commit" /\ d.run = cmd[a].run /\ d.out = cmd[a].out
      BY <3>1, <3>2, GoesOn
    <3> QED BY <1>2, <2>1, <3>1, <3>3
  <2> QED BY <1>2, <2>1, LandIs
<1>7. CommandOK(d)'
  <2>1. CASE Shape(d) /\ d.pc = "commit" /\ d.run = x /\ d.out = cmd[a].out
    BY <1>0, <1>3, <2>1 DEF CommandOK, CommandPhases, Reads, Writes, Shape
  <2> QED BY <1>6, <2>1, EndedOK
<1>8. TablesOK'
  BY <1>0, <1>6 DEF LineageInv, TablesOK
<1> QED BY <1>1, <1>4, <1>5, <1>6, <1>7, <1>8, TurnKept

LEMMA CommitIs ==
  ASSUME LineageInv, NEW a \in Actors, G!CommitRun(a)
  PROVE  /\ cmd[a].pc = "commit" /\ UNCHANGED <<runs, rows, man>>
         /\ marks' = marks \cup {cmd[a].run}
         /\ \E c : cmd' = [cmd EXCEPT ![a] = c] /\ EndedAs(c, cmd[a].run, "ok")
BY EndIs DEF G!CommitRun

LEMMA CommitRunStep ==
  ASSUME LineageInv, NEW a \in Actors, G!CommitRun(a)
  PROVE  LineageInv'
<1>0. /\ cmd[a].pc = "commit" /\ UNCHANGED <<runs, rows, man>> /\ CommandOK(cmd[a])
      /\ marks' = marks \cup {cmd[a].run} /\ cmd[a].run \in rows
  BY CommitIs DEF LineageInv, CommandOK
<1>1. Kept
  BY <1>0 DEF Kept
<1>2. PICK x : x = cmd[a].run
  OBVIOUS
<1>3. Grounded(x)'
  BY <1>0, <1>1, <1>2, GroundedKept DEF CommandOK, Writes
<1>4. \A y \in marks' : Grounded(y)'
  BY <1>0, <1>1, <1>2, <1>3, GroundedKept DEF LineageInv
<1>5. \A u \in Uris : man[u].kind = G!None => ManifestOK(u)'
  BY <1>0 DEF ManifestOK
<1>6. PICK d : cmd' = [cmd EXCEPT ![a] = d] /\ EndedAs(d, x, "ok")
  BY <1>2, CommitIs
<1>7. CommandOK(d)'
  BY <1>6, EndedOK
<1>8. TablesOK'
  <2>1. IsFiniteSet(marks')
    BY <1>0, FS_AddElement DEF LineageInv, TablesOK
  <2> QED BY <1>0, <1>6, <2>1 DEF LineageInv, TablesOK
<1> QED BY <1>1, <1>4, <1>5, <1>6, <1>7, <1>8, TurnKept

LEMMA DieStep ==
  ASSUME LineageInv, NEW a \in Actors, G!Die(a)
  PROVE  LineageInv'
<1>1. UNCHANGED <<runs, rows, marks, man>> /\ G!End(a, "refused")
  BY DEF G!Die, G!Tables
<1> QED BY <1>1, EndIs, EndedOK, QuietTurn

LEMMA DriverStepOK ==
  ASSUME LineageInv, NEW a \in Actors, G!Driver(a)
  PROVE  LineageInv'
BY ReadHeadStep, PublishStep, StageStep, LandStep, CommitRunStep, DieStep DEF G!Driver

\* ------------------------------------------------------------ builds

\* No two Identity runs of R resolve the same source.
Separate(R) == \A x, y \in G!Identities(R) : x # y => x.srcs \cap y.srcs = {}

\* While builds run, an Identity run resolves sources of its policy, and on top of
\* a manifest whose own runs are separate.
BuiltRun(x) ==
  /\ x.kind # "source" => x.srcs \subseteq KnownSources[x.policy]
  /\ x.kind = "incremental" => Separate(man[x.input].runs)

BuildFields == {"pc", "mode", "gen", "ident", "spine", "contributing", "all", "reused", "policy",
                "srcs", "result"}

\* What preflight has found.
Planned(g) ==
  /\ g.mode \in {"full", "incremental"} /\ g.all # {}
  /\ g.spine \subseteq g.contributing /\ g.contributing \subseteq KnownSources[g.policy]
  /\ g.mode = "full" => G!Identities(g.all) = {} /\ ~g.reused
  /\ g.mode = "incremental" => G!Identities(g.all) = {g.ident} /\ g.ident \in marks

\* The pre-identity snapshot, what Identity takes from it, its result, the epoch.
SnapshotOK(g, u) ==
  man[u].kind = "snapshot" /\ g.all \subseteq man[u].runs /\ Separate(man[u].runs)
Chosen(g) ==
  g.srcs \subseteq KnownSources[g.policy] /\ (g.mode = "full" => g.srcs = g.spine)
ResultOK(g) ==
  /\ g.mode = "full" =>
       g.result.kind = "full" /\ g.result.srcs = g.spine /\ g.result.policy = g.policy
  /\ g.mode = "incremental" =>
       g.result.kind = "incremental" /\ g.all \subseteq man[g.result.input].runs
EpochOK(g, u) ==
  /\ man[u].kind = "epoch" /\ G!SourcesOf(man[u].runs) = G!SourcesOf(g.all)
  /\ g.mode = "full" => G!Identities(man[u].runs) = {g.result}
  /\ g.mode = "incremental" =>
       G!Identities(man[u].runs) = {g.result} \cup G!Identities(man[g.result.input].runs)

Live == {"snapshot", "snapshotting", "identity", "resolving", "epoch", "publishing", "release",
         "released"}
StateOK(g, b) ==
  /\ DOMAIN g = BuildFields
  /\ g.result.kind = "incremental" => g.result \in marks
  /\ g.pc \in Live => Planned(g) /\ (g.reused => ResultOK(g))
  /\ g.pc \in {"identity", "resolving"} => SnapshotOK(g, SnapshotUri[b]) /\ Chosen(g)
  /\ g.pc \in {"epoch", "publishing", "release", "released"} => ResultOK(g)
  /\ g.pc \in {"release", "released"} => EpochOK(g, EpochUri[b])

\* The command of a stage is the one that was submitted.
Asks(c, op, u, g, req) ==
  c.pc \in Reads => c.op = op /\ c.uri = u /\ c.gen = g.gen /\ c.req = req /\ c.parent = G!None
Gave(c) == c.pc = "done" /\ c.out = "ok"
CommandFits(g, b, c) ==
  /\ g.pc = "snapshotting" =>
       /\ Asks(c, "snapshot", SnapshotUri[b], g, g.all) /\ c.pc \in Reads \cup {"done"}
       /\ Gave(c) => SnapshotOK(g, SnapshotUri[b])
  /\ g.pc = "resolving" =>
       /\ c.run = G!IdentityRun(g.mode, b, g.gen, SnapshotUri[b], g.srcs, g.policy)
       /\ c.pc \in Writes \cup {"done"}
       /\ Gave(c) => c.run \in marks
  /\ g.pc = "publishing" =>
       /\ Asks(c, "epoch", EpochUri[b], g, g.all \cup {g.result}) /\ c.pc \in Reads \cup {"done"}
       /\ Gave(c) => EpochOK(g, EpochUri[b])

BuildsInv ==
  /\ gold = [b \in Builds |-> gold[b]]
  /\ \A x \in marks : BuiltRun(x)
  /\ \A a \in Actors : cmd[a].pc \in Writes => BuiltRun(cmd[a].run)
  /\ \A b \in Builds : StateOK(gold[b], b) /\ CommandFits(gold[b], b, cmd[b])

\* The manifests an Identity run or a build refers to stay.
LEMMA BuiltKept ==
  ASSUME LineageInv, Kept, NEW x, Grounded(x), BuiltRun(x)
  PROVE  BuiltRun(x)'
<1>1. x.kind = "incremental" => man'[x.input] = man[x.input]
  BY DEF Grounded, Kept
<1> QED BY <1>1 DEF BuiltRun, Separate, G!Identities

LEMMA ResultKept ==
  ASSUME LineageInv, Kept, NEW g, g.result.kind = "incremental" => g.result \in marks
  PROVE  g.result.kind = "incremental" => man'[g.result.input] = man[g.result.input]
BY DEF LineageInv, Grounded, Kept

LEMMA SnapshotKept ==
  ASSUME Kept, NEW g, NEW u \in Uris, SnapshotOK(g, u)
  PROVE  SnapshotOK(g, u)'
<1>1. man'[u] = man[u]
  BY DEF SnapshotOK, Kept, G!None
<1> QED BY <1>1 DEF SnapshotOK, Separate, G!Identities

LEMMA EpochKept ==
  ASSUME LineageInv, Kept, NEW g, NEW u \in Uris, EpochOK(g, u), ResultOK(g),
         g.result.kind = "incremental" => g.result \in marks
  PROVE  EpochOK(g, u)'
<1>1. man'[u] = man[u]
  BY DEF EpochOK, Kept, G!None
<1>2. g.mode = "incremental" => man'[g.result.input] = man[g.result.input]
  BY ResultKept DEF ResultOK
<1> QED BY <1>1, <1>2 DEF EpochOK, G!Identities, G!SourcesOf

LEMMA StateKept ==
  ASSUME LineageInv, Kept, NEW g, NEW b \in Builds, StateOK(g, b)
  PROVE  StateOK(g, b)'
<1>1. Planned(g) => Planned(g)'
  BY DEF Planned, Kept, G!Identities
<1>2. ResultOK(g) => ResultOK(g)'
  BY ResultKept DEF ResultOK, StateOK
<1>3. SnapshotOK(g, SnapshotUri[b]) => SnapshotOK(g, SnapshotUri[b])'
  BY SnapshotKept, HistoryAssumption
<1>4. g.pc \in {"release", "released"} => EpochOK(g, EpochUri[b])'
  BY EpochKept, HistoryAssumption DEF StateOK
<1>5. g.result.kind = "incremental" => g.result \in marks'
  BY DEF StateOK, Kept
<1> QED BY <1>1, <1>2, <1>3, <1>4, <1>5 DEF StateOK, Chosen

LEMMA FitsKept ==
  ASSUME LineageInv, Kept, NEW g, NEW b \in Builds, NEW c, StateOK(g, b), CommandFits(g, b, c)
  PROVE  CommandFits(g, b, c)'
<1>1. SnapshotOK(g, SnapshotUri[b]) => SnapshotOK(g, SnapshotUri[b])'
  BY SnapshotKept, HistoryAssumption
<1>2. g.pc = "publishing" /\ EpochOK(g, EpochUri[b]) => EpochOK(g, EpochUri[b])'
  BY EpochKept, HistoryAssumption DEF StateOK
<1> QED BY <1>1, <1>2 DEF CommandFits, Asks, Gave, Kept

\* A manifest with one Identity run over a separate manifest is separate.
LEMMA SeparateOver ==
  ASSUME LineageInv, NEW x \in marks, BuiltRun(x), x.kind # "source"
  PROVE  /\ x.kind = "incremental" =>
              \A R : G!Identities(R) = {x} \cup G!Identities(man[x.input].runs) => Separate(R)
         /\ x.kind # "incremental" => \A R : G!Identities(R) = {x} => Separate(R)
<1>1. CASE x.kind = "incremental"
  <2> SUFFICES ASSUME NEW R, G!Identities(R) = {x} \cup G!Identities(man[x.input].runs)
               PROVE  Separate(R)
    BY <1>1
  <2>1. x.srcs = G!Unprocessed(man[x.input].runs)
    BY <1>1 DEF LineageInv, Grounded
  <2>2. \A y \in G!Identities(man[x.input].runs) : x.srcs \cap y.srcs = {}
    BY <2>1 DEF G!Unprocessed, G!Resolved
  <2>3. Separate(man[x.input].runs)
    BY <1>1 DEF BuiltRun
  <2> QED BY <2>2, <2>3 DEF Separate
<1>2. CASE x.kind # "incremental"
  BY <1>2 DEF Separate
<1> QED BY <1>1, <1>2

\* What the pre-identity snapshot holds.
LEMMA SnapshotPublished ==
  ASSUME LineageInv, NEW b \in Actors, cmd[b].pc = "publish", G!Publishable(b),
         cmd[b].parent = G!None, NEW g, Planned(g), cmd[b].req = g.all,
         \A x \in marks : BuiltRun(x)
  PROVE  g.all \subseteq G!Selected(b) /\ Separate(G!Selected(b))
<1>1. PICK S : S = G!Selected(b)
  OBVIOUS
<1>2. /\ S = g.all \cup G!IdentityClosure(g.all) /\ g.all \subseteq marks
      /\ G!IdentityClosure(g.all) = G!Identities(g.all) \cup Extends(g.all)
  BY <1>1, SelectedWhole DEF Planned
<1>3. G!Identities(S) = G!Identities(g.all) \cup Extends(g.all)
  BY <1>2 DEF Extends, G!Identities
<1>4. CASE g.mode = "full"
  <2>1. Extends(g.all) = {}
    BY <1>4 DEF Planned, Extends, G!Extended, G!Identities
  <2> QED BY <1>1, <1>2, <1>3, <1>4, <2>1 DEF Planned, Separate
<1>5. CASE g.mode = "incremental"
  <2>1. G!Identities(g.all) = {g.ident} /\ g.ident \in marks
    BY <1>5 DEF Planned
  <2>2. PICK x : x = g.ident
    OBVIOUS
  <2>3. x \in marks /\ x \in g.all /\ x.kind # "source" /\ BuiltRun(x)
        /\ \A y \in g.all : y.kind # "source" => y = x
    BY <2>1, <2>2 DEF G!Identities
  <2>4. x.kind = "incremental" => Extends(g.all) = G!Identities(man[x.input].runs)
    <3>1. x.kind = "incremental" => G!Extended(g.all) = {x.input}
      BY <2>3 DEF G!Extended
    <3> QED BY <3>1 DEF Extends
  <2>5. x.kind # "incremental" => Extends(g.all) = {}
    <3>1. x.kind # "incremental" => G!Extended(g.all) = {}
      BY <2>3 DEF G!Extended
    <3> QED BY <3>1 DEF Extends
  <2>6. Separate(S)
    BY <1>3, <2>1, <2>2, <2>3, <2>4, <2>5, SeparateOver
  <2> QED BY <1>1, <1>2, <2>6
<1> QED BY <1>4, <1>5 DEF Planned

\* What the epoch of a build holds.
LEMMA EpochPublished ==
  ASSUME LineageInv, NEW b \in Actors, cmd[b].pc = "publish", G!Publishable(b),
         cmd[b].parent = G!None, NEW g, Planned(g), ResultOK(g),
         g.result.kind = "incremental" => g.result \in marks,
         cmd[b].req = g.all \cup {g.result}
  PROVE  /\ G!SourcesOf(G!Selected(b)) = G!SourcesOf(g.all)
         /\ g.mode = "full" => G!Identities(G!Selected(b)) = {g.result}
         /\ g.mode = "incremental" => G!Identities(G!Selected(b)) =
              {g.result} \cup G!Identities(man[g.result.input].runs)
<1>0. PICK T : T = g.all \cup {g.result}
  OBVIOUS
<1>1. PICK S : S = G!Selected(b)
  OBVIOUS
<1>2. /\ S = T \cup G!IdentityClosure(T) /\ T \subseteq marks
      /\ G!IdentityClosure(T) = G!Identities(T) \cup Extends(T)
  BY <1>0, <1>1, SelectedWhole
<1>9. \A x \in Extends(T) : x.kind # "source"
  BY DEF Extends, G!Identities
<1>3. G!Identities(S) = G!Identities(T) \cup Extends(T)
  BY <1>2, <1>9 DEF G!Identities
<1>4. g.result.kind # "source"
  BY DEF ResultOK, Planned
<1>5. G!SourcesOf(S) = G!SourcesOf(g.all)
  BY <1>0, <1>2, <1>4, <1>9 DEF G!Identities, G!SourcesOf
<1>6. CASE g.mode = "full"
  <2>1. g.result.kind = "full" /\ G!Identities(g.all) = {}
    BY <1>6 DEF ResultOK, Planned
  <2>2. Extends(T) = {} /\ G!Identities(T) = {g.result}
    BY <1>0, <2>1 DEF Extends, G!Extended, G!Identities
  <2> QED BY <1>1, <1>3, <1>5, <1>6, <2>2
<1>7. CASE g.mode = "incremental"
  <2>1. PICK R : R = man[g.result.input].runs
    OBVIOUS
  <2>2. /\ g.result.kind = "incremental" /\ g.all \subseteq R /\ Closes(R)
        /\ \A x \in R : x.kind = "incremental" => G!Identities(man[x.input].runs) \subseteq R
    <3>1. g.result.kind = "incremental" /\ g.all \subseteq R /\ g.result \in marks
      BY <1>7, <2>1 DEF ResultOK
    <3>2. Grounded(g.result)
      BY <3>1 DEF LineageInv
    <3>3. Closes(R)
      BY <2>1, <3>1, <3>2 DEF Grounded
    <3> QED BY <3>1, <3>3 DEF Closes
  <2>3. Extends(T) = G!Identities(R)
    <3>1. g.result.input \in G!Extended(T)
      BY <1>0, <2>2 DEF G!Extended
    <3>2. G!Identities(R) \subseteq Extends(T)
      BY <2>1, <3>1 DEF Extends
    <3>3. \A x \in T : x.kind = "incremental" => G!Identities(man[x.input].runs) \subseteq G!Identities(R)
      BY <1>0, <2>1, <2>2 DEF G!Identities
    <3>4. Extends(T) \subseteq G!Identities(R)
      BY <3>3 DEF Extends, G!Extended
    <3> QED BY <3>2, <3>4
  <2>4. G!Identities(T) \cup G!Identities(R) = {g.result} \cup G!Identities(R)
    BY <1>0, <1>4, <2>2 DEF G!Identities
  <2> QED BY <1>1, <1>3, <1>5, <1>7, <2>1, <2>3, <2>4
<1> QED BY <1>6, <1>7 DEF Planned

\* The epoch of a build has each source that is owed resolved by one run.
LEMMA ReleasedIsResolved ==
  ASSUME LineageInv, BuildsInv, NEW b \in Builds, gold[b].pc = "released"
  PROVE  LET epoch == man[EpochUri[b]].runs
             owed == IF gold[b].mode = "full" THEN gold[b].spine ELSE G!Names(epoch)
             by(s) == {x \in G!Identities(epoch) : s \in x.srcs}
         IN  \A s \in owed :
               G!Cardinality(by(s)) = 1 /\ \A x \in by(s) : s \in KnownSources[x.policy]
<1> DEFINE epoch == man[EpochUri[b]].runs
           g == gold[b]
           by(s) == {x \in G!Identities(epoch) : s \in x.srcs}
<1>0. \A x : G!Cardinality({x}) = 1
  BY FS_Singleton DEF G!Cardinality, Cardinality
<1>1. Planned(g) /\ ResultOK(g) /\ EpochOK(g, EpochUri[b])
      /\ (g.result.kind = "incremental" => g.result \in marks)
  BY DEF BuildsInv, StateOK, Live
<1>2. CASE g.mode = "full"
  <2> SUFFICES ASSUME NEW s \in g.spine
               PROVE  G!Cardinality(by(s)) = 1 /\ \A x \in by(s) : s \in KnownSources[x.policy]
    BY <1>2
  <2>1. G!Identities(epoch) = {g.result} /\ g.result.srcs = g.spine
        /\ s \in KnownSources[g.result.policy]
    BY <1>1, <1>2 DEF EpochOK, ResultOK, Planned
  <2>2. by(s) = {g.result}
    BY <2>1
  <2> HIDE DEF by
  <2>3. G!Cardinality(by(s)) = 1
    BY <1>0, <2>2
  <2> QED BY <2>1, <2>2, <2>3
<1>3. CASE g.mode = "incremental"
  <2> SUFFICES ASSUME NEW s \in G!Names(epoch)
               PROVE  G!Cardinality(by(s)) = 1 /\ \A x \in by(s) : s \in KnownSources[x.policy]
    BY <1>3
  <2>1. PICK r : r = g.result
    OBVIOUS
  <2>2. PICK R : R = man[r.input].runs
    OBVIOUS
  <2>3. r.kind = "incremental" /\ r \in marks /\ g.all \subseteq R
    BY <1>1, <1>3, <2>1, <2>2 DEF ResultOK
  <2>4. R \subseteq marks /\ r.srcs = G!Unprocessed(R)
    BY <2>2, <2>3 DEF LineageInv, Grounded
  <2>5. Separate(R) /\ (\A x \in marks : x.kind # "source" => x.srcs \subseteq KnownSources[x.policy])
    BY <2>2, <2>3 DEF BuildsInv, BuiltRun
  <2>6. G!Identities(epoch) = {r} \cup G!Identities(R) /\ G!SourcesOf(epoch) = G!SourcesOf(g.all)
    BY <1>1, <1>3, <2>1, <2>2 DEF EpochOK
  <2>7. \E x \in G!SourcesOf(R) : s = x.name
    BY <2>3, <2>6 DEF G!Names, G!SourcesOf
  <2>8. \A x \in G!Identities(epoch) : x.kind # "source" /\ x \in marks
    BY <2>3, <2>4, <2>6 DEF G!Identities
  <2>9. \E x : by(s) = {x}
    <3>1. CASE s \in G!Resolved(R)
      <4>1. PICK y \in G!Identities(R) : s \in y.srcs
        BY <3>1 DEF G!Resolved
      <4>2. s \notin r.srcs
        BY <2>4, <3>1 DEF G!Unprocessed
      <4>3. \A x \in G!Identities(R) : s \in x.srcs => x = y
        BY <2>5, <4>1 DEF Separate
      <4>4. by(s) = {y}
        BY <2>6, <4>1, <4>2, <4>3
      <4> QED BY <4>4
    <3>2. CASE s \notin G!Resolved(R)
      <4>1. s \in r.srcs
        BY <2>4, <2>7, <3>2 DEF G!Unprocessed
      <4>2. \A x \in G!Identities(R) : s \notin x.srcs
        BY <3>2 DEF G!Resolved
      <4>3. by(s) = {r}
        BY <2>6, <4>1, <4>2
      <4> QED BY <4>3
    <3> QED BY <3>1, <3>2
  <2>10. \A x \in by(s) : s \in KnownSources[x.policy]
    BY <2>5, <2>8
  <2> HIDE DEF by
  <2>11. G!Cardinality(by(s)) = 1
    BY <1>0, <2>9
  <2> QED BY <2>10, <2>11
<1> HIDE DEF by
<1> QED BY <1>1, <1>2, <1>3 DEF Planned, by

\* ------------------------------------------------------------ steps of builds

LEMMA DriverKept ==
  ASSUME LineageInv, NEW a \in Actors, G!Driver(a)
  PROVE  Kept
<1>1. CASE G!ReadHead(a) \/ G!Die(a)
  BY <1>1 DEF G!ReadHead, G!Die, G!Tables, Kept
<1>2. CASE G!Stage(a)
  BY <1>2, StageIs DEF Kept
<1>3. CASE G!Land(a)
  BY <1>3, LandIs DEF Kept
<1>4. CASE G!CommitRun(a)
  BY <1>4, CommitIs DEF Kept
<1>5. CASE G!Publish(a)
  <2>1. UNCHANGED <<runs, rows, marks>>
        /\ (man' = man \/ (/\ man[cmd[a].uri] \in {G!NoManifest, G!Proposed(a)}
                           /\ man' = [man EXCEPT ![cmd[a].uri] = G!Proposed(a)]))
    BY <1>5, PublishIs
  <2>2. PICK p : p = G!Proposed(a)
    OBVIOUS
  <2>3. G!NoManifest.kind = G!None
    BY DEF G!NoManifest
  <2> QED BY <2>1, <2>2, <2>3 DEF Kept, LineageInv, TablesOK
<1> QED BY <1>1, <1>2, <1>3, <1>4, <1>5 DEF G!Driver

\* A step of one build and its command: what is left to show is their own state.
LEMMA BuildsMove ==
  ASSUME LineageInv, BuildsInv, Kept, NEW b \in Builds, NEW g, NEW c,
         gold' = [gold EXCEPT ![b] = g], cmd' = [cmd EXCEPT ![b] = c],
         \A x \in marks' : BuiltRun(x)', c.pc \in Writes => BuiltRun(c.run)',
         StateOK(g, b)', CommandFits(g, b, c)'
  PROVE  BuildsInv'
<1>1. gold' = [o \in Builds |-> gold'[o]]
  BY DEF BuildsInv
<1>2. /\ gold'[b] = g /\ cmd'[b] = c
      /\ \A o \in Builds : o # b => gold'[o] = gold[o] /\ cmd'[o] = cmd[o]
      /\ \A a \in Actors : a # b => cmd'[a] = cmd[a]
  BY HistoryAssumption DEF BuildsInv, LineageInv, TablesOK
<1>3. \A a \in Actors : (cmd[a].pc \in Writes => BuiltRun(cmd[a].run))'
  <2> SUFFICES ASSUME NEW a \in Actors PROVE (cmd[a].pc \in Writes => BuiltRun(cmd[a].run))'
    OBVIOUS
  <2>1. \A d : (d.pc \in Writes => BuiltRun(d.run)') /\ cmd'[a] = d
                 => (cmd[a].pc \in Writes => BuiltRun(cmd[a].run))'
    BY DEF Writes
  <2>2. CASE a = b
    BY <1>2, <2>1, <2>2
  <2>3. CASE a # b
    <3>1. PICK d : d = cmd[a]
      OBVIOUS
    <3>2. PICK x : x = d.run
      OBVIOUS
    <3>3. d.pc \in Writes => Grounded(x) /\ BuiltRun(x)
      BY <3>1, <3>2 DEF LineageInv, CommandOK, BuildsInv
    <3>4. d.pc \in Writes => BuiltRun(x)'
      BY <3>3, BuiltKept
    <3> QED BY <1>2, <2>1, <2>3, <3>1, <3>2, <3>4
  <2> QED BY <2>2, <2>3
<1>4. \A o \in Builds : (StateOK(gold[o], o) /\ CommandFits(gold[o], o, cmd[o]))'
  <2> SUFFICES ASSUME NEW o \in Builds
               PROVE  (StateOK(gold[o], o) /\ CommandFits(gold[o], o, cmd[o]))'
    OBVIOUS
  <2>1. \A h, d : StateOK(h, o)' /\ CommandFits(h, o, d)' /\ gold'[o] = h /\ cmd'[o] = d
                    => (StateOK(gold[o], o) /\ CommandFits(gold[o], o, cmd[o]))'
    OBVIOUS
  <2>2. CASE o = b
    BY <1>2, <2>1, <2>2
  <2>3. CASE o # b
    <3>1. PICK h : h = gold[o]
      OBVIOUS
    <3>2. PICK d : d = cmd[o]
      OBVIOUS
    <3>3. StateOK(h, o) /\ CommandFits(h, o, d)
      BY <3>1, <3>2 DEF BuildsInv
    <3> QED BY <1>2, <2>1, <2>3, <3>1, <3>2, <3>3, StateKept, FitsKept
  <2> QED BY <2>2, <2>3
<1> QED BY <1>1, <1>3, <1>4 DEF BuildsInv

\* A step of a build's command.
LEMMA CommandMoves ==
  ASSUME LineageInv, BuildsInv, Kept, NEW b \in Builds, NEW c, UNCHANGED gold,
         cmd' = [cmd EXCEPT ![b] = c],
         \A x \in marks' : BuiltRun(x)', c.pc \in Writes => BuiltRun(c.run)',
         NEW g, g = gold[b], CommandFits(g, b, c)'
  PROVE  BuildsInv'
<1>1. gold' = [gold EXCEPT ![b] = g]
  BY DEF BuildsInv
<1>2. StateOK(g, b)'
  BY StateKept DEF BuildsInv
<1> QED BY <1>1, <1>2, BuildsMove

LEMMA MarksStayBuilt ==
  ASSUME LineageInv, BuildsInv, Kept, marks' = marks
  PROVE  \A x \in marks' : BuiltRun(x)'
BY BuiltKept DEF LineageInv, BuildsInv

\* A command that ends as refused.
LEMMA RefusedBuild ==
  ASSUME LineageInv, BuildsInv, Kept, marks' = marks, NEW b \in Builds, NEW c, UNCHANGED gold,
         cmd' = [cmd EXCEPT ![b] = c], EndedAs(c, cmd[b].run, "refused")
  PROVE  BuildsInv'
<1>1. PICK g : g = gold[b]
  OBVIOUS
<1>2. CommandFits(g, b, cmd[b])
  BY <1>1 DEF BuildsInv
<1>3. CommandFits(g, b, c)'
  BY <1>2 DEF CommandFits, EndedAs, Asks, Gave, Reads
<1>4. c.pc \notin Writes
  BY DEF EndedAs, Writes
<1> QED BY <1>1, <1>3, <1>4, MarksStayBuilt, CommandMoves

LEMMA ReadHeadBuild ==
  ASSUME LineageInv, BuildsInv, NEW b \in Builds, G!ReadHead(b), UNCHANGED gold
  PROVE  BuildsInv'
<1>1. PICK c : /\ cmd' = [cmd EXCEPT ![b] = c] /\ UNCHANGED <<runs, rows, marks, man>>
               /\ c.op = cmd[b].op /\ c.uri = cmd[b].uri /\ c.gen = cmd[b].gen
               /\ c.req = cmd[b].req /\ c.parent = cmd[b].parent
               /\ cmd[b].pc \in HeadNames /\ c.pc \in {"runs", "data", "publish"}
  BY ReadHeadIs, HistoryAssumption DEF HeadNames
<1>2. Kept
  BY <1>1 DEF Kept
<1>3. PICK g : g = gold[b]
  OBVIOUS
<1>4. CommandFits(g, b, cmd[b])
  BY <1>3 DEF BuildsInv
<1>5. cmd[b].pc \in Reads /\ cmd[b].pc \notin Writes \cup {"done"} /\ c.pc \in Reads /\ c.pc # "done"
      /\ c.pc \notin Writes
  BY <1>1 DEF HeadNames, Reads, Writes
<1>6. CommandFits(g, b, c)'
  BY <1>1, <1>4, <1>5 DEF CommandFits, Asks, Gave
<1> QED BY <1>1, <1>2, <1>3, <1>5, <1>6, MarksStayBuilt, CommandMoves

LEMMA PublishBuild ==
  ASSUME LineageInv, LineageInv', BuildsInv, NEW b \in Builds, G!Publish(b), UNCHANGED gold
  PROVE  BuildsInv'
<1>1. b \in Actors /\ cmd[b].pc = "publish" /\ UNCHANGED <<runs, rows, marks>>
  BY PublishIs, HistoryAssumption
<1>2. Kept
  BY <1>1, DriverKept DEF G!Driver
<1>3. CASE man' = man /\ \E c : cmd' = [cmd EXCEPT ![b] = c] /\ EndedAs(c, cmd[b].run, "refused")
  BY <1>1, <1>2, <1>3, RefusedBuild
<1>4. CASE /\ G!Publishable(b) /\ man[cmd[b].uri] \in {G!NoManifest, G!Proposed(b)}
           /\ man' = [man EXCEPT ![cmd[b].uri] = G!Proposed(b)]
           /\ \E c : cmd' = [cmd EXCEPT ![b] = c] /\ EndedAs(c, cmd[b].run, "ok")
  <2>1. PICK c : cmd' = [cmd EXCEPT ![b] = c] /\ EndedAs(c, cmd[b].run, "ok")
    BY <1>4
  <2>2. PICK g : g = gold[b]
    OBVIOUS
  <2>3. CommandFits(g, b, cmd[b]) /\ StateOK(g, b)
    BY <2>2 DEF BuildsInv
  <2>4. PICK p : p = G!Proposed(b)
    OBVIOUS
  <2>5. p.kind = cmd[b].op /\ p.runs = G!Selected(b)
    BY <2>4 DEF G!Proposed
  <2>6. cmd[b].uri \in Uris => man'[cmd[b].uri] = p
    BY <1>4, <2>4 DEF LineageInv, TablesOK
  <2>7. c.pc = "done" /\ c.pc \notin Reads /\ c.pc \notin Writes /\ cmd[b].pc \in Reads
        /\ cmd[b].pc \notin Writes \cup {"done"}
    BY <1>1, <2>1 DEF EndedAs, Reads, Writes
  <2>8. ASSUME g.pc = "snapshotting" PROVE SnapshotOK(g, SnapshotUri[b])'
    <3>1. /\ cmd[b].op = "snapshot" /\ cmd[b].uri = SnapshotUri[b] /\ cmd[b].req = g.all
          /\ cmd[b].parent = G!None
      BY <2>3, <2>7, <2>8 DEF CommandFits, Asks
    <3>2. Planned(g) /\ \A x \in marks : BuiltRun(x)
      BY <2>3, <2>8 DEF StateOK, Live, BuildsInv
    <3>3. g.all \subseteq p.runs /\ Separate(p.runs)
      BY <1>1, <1>4, <2>5, <3>1, <3>2, SnapshotPublished
    <3>4. man'[SnapshotUri[b]] = p /\ p.kind = "snapshot"
      BY <2>5, <2>6, <3>1, HistoryAssumption
    <3> QED BY <3>3, <3>4 DEF SnapshotOK, Separate
  <2>9. ASSUME g.pc = "publishing" PROVE EpochOK(g, EpochUri[b])'
    <3>1. /\ cmd[b].op = "epoch" /\ cmd[b].uri = EpochUri[b] /\ cmd[b].parent = G!None
          /\ cmd[b].req = g.all \cup {g.result}
      BY <2>3, <2>7, <2>9 DEF CommandFits, Asks
    <3>2. Planned(g) /\ ResultOK(g) /\ (g.result.kind = "incremental" => g.result \in marks)
      BY <2>3, <2>9 DEF StateOK, Live
    <3>3. /\ G!SourcesOf(p.runs) = G!SourcesOf(g.all)
          /\ g.mode = "full" => G!Identities(p.runs) = {g.result}
          /\ g.mode = "incremental" => G!Identities(p.runs) =
               {g.result} \cup G!Identities(man[g.result.input].runs)
      BY <1>1, <1>4, <2>5, <3>1, <3>2, EpochPublished
    <3>4. man'[EpochUri[b]] = p /\ p.kind = "epoch"
      BY <2>5, <2>6, <3>1, HistoryAssumption
    <3>5. g.mode = "incremental" => man'[g.result.input] = man[g.result.input]
      BY <1>2, <3>2, ResultKept DEF ResultOK
    <3> QED BY <3>3, <3>4, <3>5 DEF EpochOK, G!Identities, G!SourcesOf
  <2>10. g.pc # "resolving"
    BY <2>3, <2>7 DEF CommandFits
  <2>11. CommandFits(g, b, c)'
    BY <2>7, <2>8, <2>9, <2>10 DEF CommandFits, Asks, Gave
  <2> QED BY <1>1, <1>2, <2>1, <2>2, <2>7, <2>11, MarksStayBuilt, CommandMoves
<1> QED BY <1>1, <1>3, <1>4, PublishIs

\* A resolution that goes on with its run.
LEMMA ResolveGoesOn ==
  ASSUME LineageInv, BuildsInv, Kept, NEW b \in Builds, NEW c, UNCHANGED gold,
         cmd' = [cmd EXCEPT ![b] = c], \A x \in marks' : BuiltRun(x)',
         cmd[b].pc \in Writes, c.run = cmd[b].run, c.pc \in Writes \/ c.pc = "done",
         Gave(c) => c.run \in marks'
  PROVE  BuildsInv'
<1>1. PICK g : g = gold[b]
  OBVIOUS
<1>2. CommandFits(g, b, cmd[b])
  BY <1>1 DEF BuildsInv
<1>3. g.pc \notin {"snapshotting", "publishing"}
  BY <1>2 DEF CommandFits, Reads, Writes
<1>4. CommandFits(g, b, c)'
  BY <1>2, <1>3 DEF CommandFits, Gave
<1>5. PICK x : x = c.run
  OBVIOUS
<1>6. Grounded(x) /\ BuiltRun(x)
  BY <1>5, HistoryAssumption DEF LineageInv, CommandOK, BuildsInv
<1>7. BuiltRun(x)'
  BY <1>6, BuiltKept
<1>8. BuiltRun(c.run)'
  BY <1>5, <1>7
<1> QED BY <1>1, <1>4, <1>8, CommandMoves

LEMMA StageBuild ==
  ASSUME LineageInv, BuildsInv, NEW b \in Builds, G!Stage(b), UNCHANGED gold
  PROVE  BuildsInv'
<1>1. b \in Actors /\ cmd[b].pc = "stage" /\ UNCHANGED <<rows, marks, man>> /\ Shape(cmd[b])
  BY StageIs, HistoryAssumption DEF LineageInv, CommandOK
<1>2. Kept
  BY <1>1, DriverKept DEF G!Driver
<1>3. CASE \E c : cmd' = [cmd EXCEPT ![b] = c] /\ EndedAs(c, cmd[b].run, "refused")
  BY <1>1, <1>2, <1>3, RefusedBuild
<1>4. CASE cmd[b].run \in marks /\ \E c : cmd' = [cmd EXCEPT ![b] = c] /\ EndedAs(c, cmd[b].run, "ok")
  BY <1>1, <1>2, <1>4, MarksStayBuilt, ResolveGoesOn DEF EndedAs, Writes
<1>5. CASE cmd' = [cmd EXCEPT ![b] = [cmd[b] EXCEPT !.pc = "land"]]
  <2>1. PICK d : d = [cmd[b] EXCEPT !.pc = "land"]
    OBVIOUS
  <2>2. d.pc = "land" /\ d.run = cmd[b].run
    BY <1>1, <2>1, GoesOn
  <2> QED BY <1>1, <1>2, <1>5, <2>1, <2>2, MarksStayBuilt, ResolveGoesOn DEF Writes, Gave
<1> QED BY <1>1, <1>3, <1>4, <1>5, StageIs

LEMMA LandBuild ==
  ASSUME LineageInv, BuildsInv, NEW b \in Builds, G!Land(b), UNCHANGED gold
  PROVE  BuildsInv'
<1>1. b \in Actors /\ cmd[b].pc = "land" /\ UNCHANGED <<runs, marks, man>> /\ Shape(cmd[b])
  BY LandIs, HistoryAssumption DEF LineageInv, CommandOK
<1>2. Kept
  BY <1>1, DriverKept DEF G!Driver
<1>3. CASE \E c : cmd' = [cmd EXCEPT ![b] = c] /\ EndedAs(c, cmd[b].run, "refused")
  BY <1>1, <1>2, <1>3, RefusedBuild
<1>4. CASE cmd' = [cmd EXCEPT ![b] = [cmd[b] EXCEPT !.pc = "commit"]]
  <2>1. PICK d : d = [cmd[b] EXCEPT !.pc = "commit"]
    OBVIOUS
  <2>2. d.pc = "commit" /\ d.run = cmd[b].run
    BY <1>1, <2>1, GoesOn
  <2> QED BY <1>1, <1>2, <1>4, <2>1, <2>2, MarksStayBuilt, ResolveGoesOn DEF Writes, Gave
<1> QED BY <1>1, <1>3, <1>4, LandIs

LEMMA CommitBuild ==
  ASSUME LineageInv, BuildsInv, NEW b \in Builds, G!CommitRun(b), UNCHANGED gold
  PROVE  BuildsInv'
<1>1. b \in Actors /\ cmd[b].pc = "commit" /\ UNCHANGED <<runs, rows, man>>
      /\ marks' = marks \cup {cmd[b].run}
  BY CommitIs, HistoryAssumption
<1>2. Kept
  BY <1>1, DriverKept DEF G!Driver
<1>3. PICK x : x = cmd[b].run
  OBVIOUS
<1>4. Grounded(x) /\ BuiltRun(x)
  BY <1>1, <1>3 DEF LineageInv, CommandOK, BuildsInv, Writes
<1>5. \A y \in marks' : BuiltRun(y)'
  BY <1>1, <1>2, <1>3, <1>4, BuiltKept DEF LineageInv, BuildsInv
<1>6. PICK c : cmd' = [cmd EXCEPT ![b] = c] /\ EndedAs(c, cmd[b].run, "ok")
  BY <1>1, CommitIs
<1> QED BY <1>1, <1>2, <1>5, <1>6, ResolveGoesOn DEF EndedAs, Writes

LEMMA DieBuild ==
  ASSUME LineageInv, BuildsInv, NEW b \in Builds, G!Die(b), UNCHANGED gold
  PROVE  BuildsInv'
<1>1. b \in Actors /\ UNCHANGED <<runs, rows, marks, man>> /\ G!End(b, "refused")
  BY HistoryAssumption DEF G!Die, G!Tables
<1>2. Kept
  BY <1>1 DEF Kept
<1> QED BY <1>1, <1>2, EndIs, RefusedBuild

LEMMA DriverBuild ==
  ASSUME LineageInv, LineageInv', BuildsInv, NEW b \in Builds, G!Driver(b), UNCHANGED gold
  PROVE  BuildsInv'
BY ReadHeadBuild, PublishBuild, StageBuild, LandBuild, CommitBuild, DieBuild DEF G!Driver

\* ------------------------------------------------------------ stages of builds

\* A build that goes to another place, and nothing else of it changes.
Goes(g, h, pc) ==
  /\ DOMAIN g = BuildFields /\ g.pc = pc
  /\ g.mode = h.mode /\ g.gen = h.gen /\ g.ident = h.ident /\ g.spine = h.spine
  /\ g.contributing = h.contributing /\ g.all = h.all /\ g.reused = h.reused
  /\ g.policy = h.policy /\ g.srcs = h.srcs /\ g.result = h.result

LEMMA GotoIs ==
  ASSUME BuildsInv, NEW b \in Builds, NEW pc, G!Goto(b, pc)
  PROVE  \E g : gold' = [gold EXCEPT ![b] = g] /\ Goes(g, gold[b], pc)
<1>1. DOMAIN gold[b] = BuildFields
  BY DEF BuildsInv, StateOK
<1>2. PICK h : h = gold[b]
  OBVIOUS
<1>3. PICK g : g = [h EXCEPT !.pc = pc]
  OBVIOUS
<1>4. gold' = [gold EXCEPT ![b] = g]
  BY <1>2, <1>3 DEF G!Goto, BuildsInv
<1>5. Goes(g, h, pc)
  BY <1>1, <1>2, <1>3 DEF Goes, BuildFields
<1> QED BY <1>2, <1>4, <1>5

\* What a build has found does not depend on where it is.
LEMMA GoesKeeps ==
  ASSUME NEW g, NEW h, NEW pc, Goes(g, h, pc), NEW u
  PROVE  /\ Planned(h) => Planned(g)
         /\ ResultOK(h) => ResultOK(g)
         /\ SnapshotOK(h, u) => SnapshotOK(g, u)
         /\ Chosen(h) => Chosen(g)
         /\ EpochOK(h, u) => EpochOK(g, u)
         /\ (h.result.kind = "incremental" => h.result \in marks)
              => (g.result.kind = "incremental" => g.result \in marks)
<1>1. Planned(h) => Planned(g)
  BY DEF Goes, Planned
<1>2. ResultOK(h) => ResultOK(g)
  BY DEF Goes, ResultOK
<1>3. SnapshotOK(h, u) => SnapshotOK(g, u)
  BY DEF Goes, SnapshotOK
<1>4. EpochOK(h, u) => EpochOK(g, u)
  BY DEF Goes, EpochOK
<1> QED BY <1>1, <1>2, <1>3, <1>4 DEF Goes, Chosen

\* A step of one build between its commands.
LEMMA GoldMoves ==
  ASSUME LineageInv, BuildsInv, UNCHANGED <<runs, rows, marks, man, cmd>>, NEW b \in Builds, NEW g,
         gold' = [gold EXCEPT ![b] = g], StateOK(g, b),
         g.pc \notin {"snapshotting", "resolving", "publishing"}
  PROVE  BuildsInv'
<1>1. Kept
  BY DEF Kept
<1>2. PICK c : c = cmd[b]
  OBVIOUS
<1>3. cmd' = [cmd EXCEPT ![b] = c]
  BY <1>2 DEF LineageInv, TablesOK
<1>4. StateOK(g, b)'
  BY <1>1, StateKept
<1>5. CommandFits(g, b, c)'
  BY DEF CommandFits
<1>6. c.pc \in Writes => BuiltRun(c.run)'
  <2>1. PICK x : x = c.run
    OBVIOUS
  <2>2. c.pc \in Writes => Grounded(x) /\ BuiltRun(x)
    BY <1>2, <2>1, HistoryAssumption DEF LineageInv, CommandOK, BuildsInv
  <2>3. c.pc \in Writes => BuiltRun(x)'
    BY <1>1, <2>2, BuiltKept
  <2> QED BY <2>1, <2>3
<1> QED BY <1>1, <1>3, <1>4, <1>5, <1>6, MarksStayBuilt, BuildsMove

LEMMA FailedBuild ==
  ASSUME LineageInv, BuildsInv, UNCHANGED <<runs, rows, marks, man, cmd>>, NEW b \in Builds,
         G!Goto(b, "failed")
  PROVE  BuildsInv'
<1>1. PICK g : gold' = [gold EXCEPT ![b] = g] /\ Goes(g, gold[b], "failed")
  BY GotoIs
<1>2. StateOK(g, b)
  BY <1>1 DEF StateOK, Live, BuildsInv, Goes
<1>3. g.pc \notin {"snapshotting", "resolving", "publishing"}
  BY <1>1 DEF Goes
<1> QED BY <1>1, <1>2, <1>3, GoldMoves

LEMMA RefusedStage ==
  ASSUME LineageInv, BuildsInv, NEW b \in Builds,
         \/ G!Refused(b, "snapshotting", "snapshot")
         \/ G!Refused(b, "resolving", "identity")
         \/ G!Refused(b, "publishing", "epoch")
  PROVE  BuildsInv'
<1> DEFINE Again(from, to) == gold[b].pc = from /\ G!Goto(b, to)
<1>0. UNCHANGED <<runs, rows, marks, man, cmd>>
  BY DEF G!Refused, G!lineageVars
<1>1. CASE G!Goto(b, "failed")
  BY <1>0, <1>1, FailedBuild
<1>2. ASSUME NEW from, NEW to, Again(from, to),
             <<from, to>> \in {<<"snapshotting", "snapshot">>, <<"resolving", "identity">>,
                               <<"publishing", "epoch">>}
      PROVE  BuildsInv'
  <2>1. PICK g : gold' = [gold EXCEPT ![b] = g] /\ Goes(g, gold[b], to)
    BY <1>2, GotoIs
  <2>2. PICK h : h = gold[b]
    OBVIOUS
  <2>3. StateOK(h, b) /\ h.pc = from /\ g.pc = to /\ g.reused = h.reused /\ DOMAIN g = BuildFields
    BY <1>2, <2>1, <2>2 DEF BuildsInv, Goes
  <2>4. /\ Planned(h) => Planned(g)
        /\ ResultOK(h) => ResultOK(g)
        /\ SnapshotOK(h, SnapshotUri[b]) => SnapshotOK(g, SnapshotUri[b])
        /\ Chosen(h) => Chosen(g)
        /\ (h.result.kind = "incremental" => h.result \in marks)
              => (g.result.kind = "incremental" => g.result \in marks)
    BY <2>1, <2>2, GoesKeeps
  <2>5. StateOK(g, b) /\ g.pc \notin {"snapshotting", "resolving", "publishing"}
    BY <1>2, <2>3, <2>4 DEF StateOK, Live
  <2> QED BY <1>0, <2>1, <2>5, GoldMoves
<1>3. G!Goto(b, "failed") \/ Again("snapshotting", "snapshot") \/ Again("resolving", "identity")
      \/ Again("publishing", "epoch")
  BY DEF G!Refused
<1> QED BY <1>1, <1>2, <1>3

LEMMA TakeSnapshotBuild ==
  ASSUME LineageInv, BuildsInv, NEW b \in Builds, G!TakeSnapshot(b)
  PROVE  BuildsInv'
<1>0. UNCHANGED <<runs, rows, marks, man, cmd>>
  BY DEF G!TakeSnapshot, G!lineageVars
<1> DEFINE m == man[SnapshotUri[b]]
           unprocessed == IF G!Identities(m.runs) = {} THEN {} ELSE G!Unprocessed(m.runs)
           srcs == IF gold[b].mode = "full" THEN G!Candidates(gold[b]) ELSE unprocessed
           pc == IF gold[b].reused THEN "epoch" ELSE "identity"
<1>1. /\ G!Succeeded(b, "snapshotting")
      /\ \/ G!Goto(b, "failed")
         \/ /\ gold[b].mode # "full" => unprocessed \subseteq G!Candidates(gold[b])
            /\ gold' = [gold EXCEPT ![b].pc = pc, ![b].srcs = srcs]
  BY DEF G!TakeSnapshot
<1>2. CASE G!Goto(b, "failed")
  BY <1>0, <1>2, FailedBuild
<1>3. CASE /\ gold[b].mode # "full" => unprocessed \subseteq G!Candidates(gold[b])
           /\ gold' = [gold EXCEPT ![b].pc = pc, ![b].srcs = srcs]
  <2>1. PICK h : h = gold[b]
    OBVIOUS
  <2>2. PICK s : s = srcs
    OBVIOUS
  <2>3. PICK p : p = pc
    OBVIOUS
  <2>4. PICK g : g = [h EXCEPT !.pc = p, !.srcs = s]
    OBVIOUS
  <2>5. gold' = [gold EXCEPT ![b] = g]
    <3>1. gold = [o \in Builds |-> gold[o]]
      BY DEF BuildsInv
    <3>2. gold' = [gold EXCEPT ![b].pc = p, ![b].srcs = s]
      BY <1>3, <2>2, <2>3
    <3> HIDE DEF m, unprocessed, srcs, pc
    <3> QED BY <3>1, <3>2, <2>1, <2>4
  <2>6. StateOK(h, b) /\ CommandFits(h, b, cmd[b]) /\ h.pc = "snapshotting" /\ Gave(cmd[b])
    BY <1>1, <2>1 DEF BuildsInv, G!Succeeded, Gave
  <2>7. /\ Planned(h) /\ (h.reused => ResultOK(h)) /\ SnapshotOK(h, SnapshotUri[b])
        /\ DOMAIN h = BuildFields
    BY <2>6 DEF StateOK, CommandFits, Live
  <2>8. /\ DOMAIN g = BuildFields /\ g.pc = p /\ g.srcs = s
        /\ g.mode = h.mode /\ g.gen = h.gen /\ g.ident = h.ident /\ g.spine = h.spine
        /\ g.contributing = h.contributing /\ g.all = h.all /\ g.reused = h.reused
        /\ g.policy = h.policy /\ g.result = h.result
    BY <2>4, <2>7 DEF BuildFields
  <2>9. Planned(g) /\ (g.reused => ResultOK(g)) /\ SnapshotOK(g, SnapshotUri[b])
    BY <2>7, <2>8 DEF Planned, ResultOK, SnapshotOK
  <2>10. /\ h.mode = "full" => s = h.spine
         /\ h.mode # "full" => s \subseteq h.contributing
    BY <1>3, <2>1, <2>2 DEF G!Candidates
  <2>11. Chosen(g)
    BY <2>7, <2>8, <2>10 DEF Chosen, Planned
  <2>12. p \in {"epoch", "identity"} /\ (p = "epoch" => g.reused)
    BY <2>1, <2>3, <2>8
  <2>13. g.result.kind = "incremental" => g.result \in marks
    BY <2>6, <2>8 DEF StateOK
  <2>14. StateOK(g, b)
    BY <2>8, <2>9, <2>11, <2>12, <2>13 DEF StateOK
  <2> QED BY <1>0, <2>5, <2>8, <2>12, <2>14, GoldMoves
<1> QED BY <1>1, <1>2, <1>3

LEMMA TakeIdentityBuild ==
  ASSUME LineageInv, BuildsInv, NEW b \in Builds, G!TakeIdentity(b)
  PROVE  BuildsInv'
<1>0. UNCHANGED <<runs, rows, marks, man, cmd>>
  BY DEF G!TakeIdentity, G!lineageVars
<1>1. PICK h : h = gold[b]
  OBVIOUS
<1>2. PICK x : x = cmd[b].run
  OBVIOUS
<1>3. PICK g : g = [h EXCEPT !.pc = "epoch", !.result = x]
  OBVIOUS
<1>4. gold' = [gold EXCEPT ![b] = g]
  <2>1. gold = [o \in Builds |-> gold[o]]
    BY DEF BuildsInv
  <2>2. gold' = [gold EXCEPT ![b].pc = "epoch", ![b].result = x]
    BY <1>2 DEF G!TakeIdentity
  <2> QED BY <2>1, <2>2, <1>1, <1>3
<1>5. StateOK(h, b) /\ CommandFits(h, b, cmd[b]) /\ h.pc = "resolving" /\ Gave(cmd[b])
  BY <1>1 DEF BuildsInv, G!Succeeded, G!TakeIdentity, Gave
<1>6. /\ Planned(h) /\ SnapshotOK(h, SnapshotUri[b]) /\ DOMAIN h = BuildFields /\ Chosen(h)
      /\ x = G!IdentityRun(h.mode, b, h.gen, SnapshotUri[b], h.srcs, h.policy) /\ x \in marks
  BY <1>2, <1>5 DEF StateOK, CommandFits, Live
<1>7. x.kind = h.mode /\ x.srcs = h.srcs /\ x.policy = h.policy /\ x.input = SnapshotUri[b]
  BY <1>6 DEF G!IdentityRun
<1>8. /\ DOMAIN g = BuildFields /\ g.pc = "epoch" /\ g.result = x
      /\ g.mode = h.mode /\ g.gen = h.gen /\ g.ident = h.ident /\ g.spine = h.spine
      /\ g.contributing = h.contributing /\ g.all = h.all /\ g.reused = h.reused
      /\ g.policy = h.policy
  BY <1>3, <1>6 DEF BuildFields
<1>9. Planned(g)
  BY <1>6, <1>8 DEF Planned
<1>10. ResultOK(g)
  BY <1>6, <1>7, <1>8 DEF ResultOK, Chosen, SnapshotOK
<1>11. StateOK(g, b)
  BY <1>6, <1>8, <1>9, <1>10 DEF StateOK
<1>12. g.pc \notin {"snapshotting", "resolving", "publishing"}
  BY <1>8
<1> QED BY <1>0, <1>4, <1>11, <1>12, GoldMoves

\* A build that goes on after what it asked for has been given.
LEMMA GoesFurther ==
  ASSUME LineageInv, BuildsInv, NEW b \in Builds, gold[b].pc \in {"publishing", "release"},
         UNCHANGED <<runs, rows, marks, man, cmd>>, NEW pc \in {"release", "released"},
         gold[b].pc = "publishing" => Gave(cmd[b]), G!Goto(b, pc)
  PROVE  BuildsInv'
<1>1. PICK g : gold' = [gold EXCEPT ![b] = g] /\ Goes(g, gold[b], pc)
  BY GotoIs
<1>2. PICK h : h = gold[b]
  OBVIOUS
<1>3. StateOK(h, b) /\ CommandFits(h, b, cmd[b]) /\ g.pc = pc /\ g.reused = h.reused
      /\ DOMAIN g = BuildFields
  BY <1>1, <1>2 DEF BuildsInv, Goes
<1>4. /\ Planned(h) /\ ResultOK(h) /\ EpochOK(h, EpochUri[b])
      /\ h.result.kind = "incremental" => h.result \in marks
  BY <1>2, <1>3 DEF StateOK, CommandFits, Live
<1>5. /\ Planned(g) /\ ResultOK(g) /\ EpochOK(g, EpochUri[b])
      /\ g.result.kind = "incremental" => g.result \in marks
  BY <1>1, <1>2, <1>4, GoesKeeps
<1>6. StateOK(g, b) /\ g.pc \notin {"snapshotting", "resolving", "publishing"}
  BY <1>3, <1>5 DEF StateOK
<1> QED BY <1>1, <1>6, GoldMoves

LEMMA TakeEpochBuild ==
  ASSUME LineageInv, BuildsInv, NEW b \in Builds, G!TakeEpoch(b)
  PROVE  BuildsInv'
<1>1. /\ UNCHANGED <<runs, rows, marks, man, cmd>> /\ gold[b].pc = "publishing" /\ Gave(cmd[b])
      /\ G!Goto(b, "release") \/ G!Goto(b, "failed")
  BY DEF G!TakeEpoch, G!Succeeded, G!lineageVars, Gave
<1> QED BY <1>1, GoesFurther, FailedBuild

LEMMA ReleaseBuild ==
  ASSUME LineageInv, BuildsInv, NEW b \in Builds, G!Release(b)
  PROVE  BuildsInv'
<1>1. /\ UNCHANGED <<runs, rows, marks, man, cmd>> /\ gold[b].pc = "release"
      /\ G!Goto(b, "released") \/ G!Goto(b, "failed")
  BY DEF G!Release, G!lineageVars
<1> QED BY <1>1, GoesFurther, FailedBuild

\* A publication as it begins.
Begun(c, op, u, g, req) ==
  c.pc = "commits" /\ c.op = op /\ c.uri = u /\ c.gen = g /\ c.req = req /\ c.parent = G!None

LEMMA BegunIs ==
  ASSUME NEW a, NEW u, NEW g, NEW req
  PROVE  /\ \A i : G!BeginSnapshot(a, u, g, req, i) =>
              \E c : /\ cmd' = [cmd EXCEPT ![a] = c] /\ UNCHANGED <<runs, rows, marks, man>>
                     /\ Begun(c, "snapshot", u, g, req)
         /\ G!BeginEpoch(a, u, g, req, G!None) =>
              \E c : /\ cmd' = [cmd EXCEPT ![a] = c] /\ UNCHANGED <<runs, rows, marks, man>>
                     /\ Begun(c, "epoch", u, g, req)
<1>1. ASSUME NEW i, G!BeginSnapshot(a, u, g, req, i)
      PROVE  \E c : /\ cmd' = [cmd EXCEPT ![a] = c] /\ UNCHANGED <<runs, rows, marks, man>>
                    /\ Begun(c, "snapshot", u, g, req)
  <2> DEFINE c == [G!Idle EXCEPT !.pc = G!HeadOrder[1], !.op = "snapshot", !.uri = u, !.gen = g, !.req = req]
  <2>1. cmd' = [cmd EXCEPT ![a] = c] /\ UNCHANGED <<runs, rows, marks, man>>
    BY <1>1 DEF G!BeginSnapshot, G!Turn, G!Tables
  <2>2. Begun(c, "snapshot", u, g, req)
    BY IdleIs DEF Begun, Fields, G!HeadOrder
  <2> QED BY <2>1, <2>2
<1>2. ASSUME G!BeginEpoch(a, u, g, req, G!None)
      PROVE  \E c : /\ cmd' = [cmd EXCEPT ![a] = c] /\ UNCHANGED <<runs, rows, marks, man>>
                    /\ Begun(c, "epoch", u, g, req)
  <2> DEFINE c == [G!Idle EXCEPT !.pc = G!HeadOrder[1], !.op = "epoch", !.uri = u, !.gen = g, !.req = req,
                                 !.parent = G!None]
  <2>1. cmd' = [cmd EXCEPT ![a] = c] /\ UNCHANGED <<runs, rows, marks, man>>
    BY <1>2 DEF G!BeginEpoch, G!Turn, G!Tables
  <2>2. Begun(c, "epoch", u, g, req)
    BY IdleIs DEF Begun, Fields, G!HeadOrder
  <2> QED BY <2>1, <2>2
<1> QED BY <1>1, <1>2

\* What a stage submits when it goes to another place.
Sends(b, to, c) ==
  /\ c.pc \in Writes => BuiltRun(c.run)
  /\ \/ /\ gold[b].pc = "snapshot" /\ to = "snapshotting"
        /\ Begun(c, "snapshot", SnapshotUri[b], gold[b].gen, gold[b].all)
     \/ /\ gold[b].pc = "identity" /\ to = "resolving" /\ c.pc \in Writes
        /\ c.run = G!IdentityRun(gold[b].mode, b, gold[b].gen, SnapshotUri[b], gold[b].srcs, gold[b].policy)
     \/ /\ gold[b].pc = "epoch" /\ to = "publishing"
        /\ Begun(c, "epoch", EpochUri[b], gold[b].gen, gold[b].all \cup {gold[b].result})

LEMMA Submitted ==
  ASSUME LineageInv, BuildsInv, UNCHANGED <<runs, rows, marks, man>>, NEW b \in Builds,
         NEW to, G!Goto(b, to), NEW c, cmd' = [cmd EXCEPT ![b] = c], Sends(b, to, c)
  PROVE  BuildsInv'
<1>0. Kept
  BY DEF Kept
<1>1. PICK g : gold' = [gold EXCEPT ![b] = g] /\ Goes(g, gold[b], to)
  BY GotoIs
<1>2. PICK h : h = gold[b]
  OBVIOUS
<1>3. StateOK(h, b) /\ g.pc = to /\ g.reused = h.reused /\ DOMAIN g = BuildFields
  BY <1>1, <1>2 DEF BuildsInv, Goes
<1>4. /\ Planned(h) => Planned(g)
      /\ ResultOK(h) => ResultOK(g)
      /\ SnapshotOK(h, SnapshotUri[b]) => SnapshotOK(g, SnapshotUri[b])
      /\ Chosen(h) => Chosen(g)
      /\ (h.result.kind = "incremental" => h.result \in marks)
            => (g.result.kind = "incremental" => g.result \in marks)
  BY <1>1, <1>2, GoesKeeps
<1>5. StateOK(g, b)
  BY <1>2, <1>3, <1>4 DEF StateOK, Live, Sends
<1>6. StateOK(g, b)'
  BY <1>0, <1>5, StateKept
<1>7. /\ g.mode = h.mode /\ g.gen = h.gen /\ g.all = h.all /\ g.policy = h.policy
      /\ g.srcs = h.srcs /\ g.result = h.result
  BY <1>1, <1>2 DEF Goes
<1>8. c.pc # "done"
  BY DEF Reads, Writes, Sends, Begun
<1>9. /\ to \in {"snapshotting", "resolving", "publishing"}
      /\ to \in {"snapshotting", "publishing"} => c.pc = "commits" /\ c.pc \in Reads
  BY DEF Begun, Reads, Sends
<1>10. CommandFits(g, b, c)'
  BY <1>2, <1>3, <1>7, <1>8, <1>9 DEF CommandFits, Asks, Gave, Begun, Sends
<1>11. c.pc \in Writes => BuiltRun(c.run)'
  BY DEF Sends, BuiltRun, Separate, G!Identities
<1> QED BY <1>0, <1>1, <1>6, <1>10, <1>11, MarksStayBuilt, BuildsMove

LEMMA SubmitSnapshotBuild ==
  ASSUME LineageInv, BuildsInv, NEW b \in Builds, G!SubmitSnapshot(b)
  PROVE  BuildsInv'
<1>1. /\ gold[b].pc = "snapshot" /\ G!Goto(b, "snapshotting")
      /\ \E i : G!BeginSnapshot(b, SnapshotUri[b], gold[b].gen, gold[b].all, i)
  BY DEF G!SubmitSnapshot, G!Submit
<1>2. PICK c : /\ cmd' = [cmd EXCEPT ![b] = c] /\ UNCHANGED <<runs, rows, marks, man>>
               /\ Begun(c, "snapshot", SnapshotUri[b], gold[b].gen, gold[b].all)
  BY <1>1, BegunIs
<1>3. Sends(b, "snapshotting", c)
  BY <1>1, <1>2 DEF Sends, Begun, Writes
<1> QED BY <1>1, <1>2, <1>3, Submitted

LEMMA SubmitEpochBuild ==
  ASSUME LineageInv, BuildsInv, NEW b \in Builds, G!SubmitEpoch(b)
  PROVE  BuildsInv'
<1>1. /\ gold[b].pc = "epoch" /\ G!Goto(b, "publishing")
      /\ G!BeginEpoch(b, EpochUri[b], gold[b].gen, gold[b].all \cup {gold[b].result}, G!None)
  BY DEF G!SubmitEpoch, G!Submit
<1>2. PICK c : /\ cmd' = [cmd EXCEPT ![b] = c] /\ UNCHANGED <<runs, rows, marks, man>>
               /\ Begun(c, "epoch", EpochUri[b], gold[b].gen, gold[b].all \cup {gold[b].result})
  BY <1>1, BegunIs
<1>3. Sends(b, "publishing", c)
  BY <1>1, <1>2 DEF Sends, Begun, Writes
<1> QED BY <1>1, <1>2, <1>3, Submitted

LEMMA SubmitIdentityBuild ==
  ASSUME LineageInv, BuildsInv, NEW b \in Builds, G!SubmitIdentity(b)
  PROVE  BuildsInv'
<1>1. /\ gold[b].pc = "identity" /\ G!Goto(b, "resolving") /\ policy = gold[b].policy
      /\ G!BeginResolve(b, SnapshotUri[b], gold[b].gen, gold[b].mode, gold[b].srcs, policy)
  BY DEF G!SubmitIdentity, G!Submit
<1>2. PICK x : x = G!IdentityRun(gold[b].mode, b, gold[b].gen, SnapshotUri[b], gold[b].srcs, gold[b].policy)
  OBVIOUS
<1>3. PICK c : /\ cmd' = [cmd EXCEPT ![b] = c] /\ UNCHANGED <<runs, rows, marks, man>>
               /\ c.pc = "stage" /\ c.run = x
  BY <1>1, <1>2, BeginResolveIs
<1>4. SnapshotOK(gold[b], SnapshotUri[b]) /\ Chosen(gold[b])
  BY <1>1 DEF BuildsInv, StateOK
<1>5. BuiltRun(x)
  BY <1>2, <1>4 DEF BuiltRun, SnapshotOK, Chosen, G!IdentityRun
<1>6. Sends(b, "resolving", c)
  BY <1>1, <1>2, <1>3, <1>5 DEF Sends, Writes
<1> QED BY <1>1, <1>3, <1>6, Submitted

\* What preflight has drafted and accepted.
Drafted(p, mode, ident, contributing, spine) ==
  /\ DOMAIN p = BuildFields /\ p.pc = "snapshot" /\ p.mode = mode /\ p.ident = ident
  /\ p.spine = spine /\ p.contributing = contributing /\ p.policy = policy
  /\ p.all = G!Runs(contributing) \cup (IF mode = "full" THEN {} ELSE G!Runs(ident.srcs) \cup {ident})
Accepts(p, base) == G!BaselineAccepted(p, base) /\ G!StatesAccepted(p, base)

\* p is what was planned, q the build with what it reuses.
Prepares(b, base, mode, ident, contributing, spine, p, q) ==
  /\ UNCHANGED <<runs, rows, marks, man, cmd>> /\ spine \subseteq contributing
  /\ gold' = [gold EXCEPT ![b] = q] /\ Accepts(p, base)
  /\ Drafted(p, mode, ident, contributing, spine) /\ Drafted(q, mode, ident, contributing, spine)
  /\ p.reused = q.reused /\ q.reused \in BOOLEAN
  /\ ~q.reused => q.result.kind = "source"
  /\ q.reused => \E o \in Builds : G!ReuseAccepted(p, gold[o]) /\ q.result = gold[o].result

LEMMA NoBuildIs ==
  /\ DOMAIN G!NoBuild = BuildFields /\ G!NoBuild.result = G!SourceRun(G!None) /\ G!NoBuild.pc = "idle"
  /\ G!SourceRun(G!None).kind = "source"
BY DEF G!NoBuild, BuildFields, G!SourceRun

LEMMA PrepareIs ==
  ASSUME BuildsInv, NEW b \in Builds, NEW base, NEW mode, NEW g, NEW ident, NEW spine, NEW contributing,
         G!Prepare(b, base, mode, g, ident, spine, contributing)
  PROVE  \E p, q : Prepares(b, base, mode, ident, contributing, spine, p, q)
<1> DEFINE all == G!Runs(contributing) \cup (IF mode = "full" THEN {} ELSE G!Runs(ident.srcs) \cup {ident})
           plan(reused) ==
             [G!NoBuild EXCEPT !.mode = mode, !.gen = g, !.ident = ident, !.spine = spine,
                               !.contributing = contributing, !.reused = reused, !.policy = policy,
                               !.all = all, !.pc = "snapshot"]
<1>1. UNCHANGED <<runs, rows, marks, man, cmd>> /\ spine \subseteq contributing
  BY DEF G!Prepare, G!lineageVars
<1>2. \/ Accepts(plan(FALSE), base) /\ gold' = [gold EXCEPT ![b] = plan(FALSE)]
      \/ \E o \in Builds \ {b} :
           /\ Accepts(plan(TRUE), base) /\ G!ReuseAccepted(plan(TRUE), gold[o])
           /\ gold' = [gold EXCEPT ![b] = [plan(TRUE) EXCEPT !.result = gold[o].result]]
  BY DEF G!Prepare, Accepts
<1> HIDE DEF all
<1>3. \A r : Drafted(plan(r), mode, ident, contributing, spine) /\ plan(r).reused = r
             /\ plan(r).result.kind = "source"
  BY NoBuildIs DEF Drafted, BuildFields, all
<1> HIDE DEF plan
<1>4. CASE Accepts(plan(FALSE), base) /\ gold' = [gold EXCEPT ![b] = plan(FALSE)]
  BY <1>1, <1>3, <1>4 DEF Prepares
<1>5. CASE \E o \in Builds \ {b} :
           /\ Accepts(plan(TRUE), base) /\ G!ReuseAccepted(plan(TRUE), gold[o])
           /\ gold' = [gold EXCEPT ![b] = [plan(TRUE) EXCEPT !.result = gold[o].result]]
  <2>1. PICK o \in Builds \ {b} :
           /\ Accepts(plan(TRUE), base) /\ G!ReuseAccepted(plan(TRUE), gold[o])
           /\ gold' = [gold EXCEPT ![b] = [plan(TRUE) EXCEPT !.result = gold[o].result]]
    BY <1>5
  <2>2. PICK p : p = plan(TRUE)
    OBVIOUS
  <2>3. PICK x : x = gold[o].result
    OBVIOUS
  <2>4. PICK q : q = [p EXCEPT !.result = x]
    OBVIOUS
  <2>5. Drafted(p, mode, ident, contributing, spine) /\ p.reused = TRUE
    BY <1>3, <2>2
  <2>6. Drafted(q, mode, ident, contributing, spine) /\ q.reused = TRUE /\ q.result = x
    BY <2>4, <2>5 DEF Drafted, BuildFields
  <2>7. gold' = [gold EXCEPT ![b] = q]
    BY <2>1, <2>2, <2>3, <2>4
  <2>8. Accepts(p, base) /\ G!ReuseAccepted(p, gold[o]) /\ q.result = gold[o].result /\ o \in Builds
    BY <2>1, <2>2, <2>3, <2>6
  <2>9. q.reused => \E i \in Builds : G!ReuseAccepted(p, gold[i]) /\ q.result = gold[i].result
    BY <2>8
  <2>10. p.reused = q.reused /\ q.reused \in BOOLEAN /\ (~q.reused => q.result.kind = "source")
    BY <2>5, <2>6
  <2> QED BY <1>1, <2>5, <2>6, <2>7, <2>8, <2>9, <2>10 DEF Prepares
<1> QED BY <1>2, <1>4, <1>5

LEMMA PrepareBuild ==
  ASSUME LineageInv, BuildsInv, NEW b \in Builds, NEW base \in Uris, NEW mode \in {"full", "incremental"},
         NEW g, NEW ident, NEW spine, NEW contributing,
         G!Prepare(b, base, mode, g, ident, spine, contributing)
  PROVE  BuildsInv'
<1>1. PICK p, q : Prepares(b, base, mode, ident, contributing, spine, p, q)
  BY PrepareIs
<1>2. /\ UNCHANGED <<runs, rows, marks, man, cmd>> /\ spine \subseteq contributing
      /\ gold' = [gold EXCEPT ![b] = q] /\ Accepts(p, base)
      /\ Drafted(p, mode, ident, contributing, spine) /\ Drafted(q, mode, ident, contributing, spine)
      /\ p.reused = q.reused /\ q.reused \in BOOLEAN
      /\ ~q.reused => q.result.kind = "source"
      /\ q.reused => \E o \in Builds : G!ReuseAccepted(p, gold[o]) /\ q.result = gold[o].result
  BY <1>1 DEF Prepares
<1>3. /\ man[base].kind = "snapshot" /\ G!Identities(man[base].runs) = {ident}
      /\ contributing # {} /\ contributing \subseteq KnownSources[policy]
  BY <1>2 DEF Accepts, G!BaselineAccepted, G!StatesAccepted, Drafted
<1>4. ident \in marks /\ ident.kind # "source"
  <2>1. ident \in man[base].runs /\ ident.kind # "source"
    BY <1>3 DEF G!Identities
  <2> QED BY <1>3, <2>1 DEF LineageInv, ManifestOK, G!None
<1>5. \A S : G!Identities(G!Runs(S)) = {} /\ (S # {} => G!Runs(S) # {})
  <2>1. \A S : \A x \in G!Runs(S) : x.kind = "source"
    BY DEF G!Runs, G!SourceRun
  <2>2. \A S : S # {} => G!Runs(S) # {}
    BY DEF G!Runs
  <2> QED BY <2>1, <2>2 DEF G!Identities
<1>6. q.all # {} /\ (mode = "full" => G!Identities(q.all) = {})
      /\ (mode = "incremental" => G!Identities(q.all) = {ident})
  <2>1. mode = "full" => q.all = G!Runs(contributing)
    BY <1>2 DEF Drafted
  <2>2. mode = "incremental" => q.all = G!Runs(contributing) \cup (G!Runs(ident.srcs) \cup {ident})
    BY <1>2 DEF Drafted
  <2>3. mode = "incremental" => G!Identities(q.all) = {ident}
    BY <1>4, <1>5, <2>2 DEF G!Identities
  <2> QED BY <1>3, <1>5, <2>1, <2>2, <2>3
<1>7. ASSUME q.reused
      PROVE  mode = "incremental" /\ q.result.kind = "incremental" /\ q.result \in marks
             /\ q.all \subseteq man[q.result.input].runs
  <2>1. PICK o \in Builds : G!ReuseAccepted(p, gold[o]) /\ q.result = gold[o].result
    BY <1>2, <1>7
  <2>2. mode = "incremental" /\ q.result.kind = "incremental" /\ q.all \subseteq man[q.result.input].runs
    BY <1>2, <2>1 DEF G!ReuseAccepted, Drafted
  <2> QED BY <2>1, <2>2 DEF BuildsInv, StateOK
<1>8. /\ DOMAIN q = BuildFields /\ q.pc = "snapshot" /\ q.mode = mode /\ q.spine = spine
      /\ q.contributing = contributing /\ q.policy = policy /\ q.ident = ident
  BY <1>2 DEF Drafted
<1>9. Planned(q)
  BY <1>2, <1>3, <1>4, <1>6, <1>7, <1>8 DEF Planned
<1>10. q.reused => ResultOK(q)
  BY <1>7, <1>8 DEF ResultOK
<1>11. StateOK(q, b)
  BY <1>2, <1>7, <1>8, <1>9, <1>10 DEF StateOK
<1>12. q.pc \notin {"snapshotting", "resolving", "publishing"}
  BY <1>8
<1> QED BY <1>2, <1>11, <1>12, GoldMoves

LEMMA LineageStays ==
  ASSUME LineageInv, UNCHANGED <<runs, rows, marks, man, cmd>>
  PROVE  LineageInv'
<1>1. Kept
  BY DEF Kept
<1>2. \A u \in Uris : ManifestOK(u)'
  <2>1. ASSUME NEW u \in Uris, man[u].kind = G!None PROVE ManifestOK(u)'
    BY <2>1 DEF ManifestOK
  <2> QED BY <2>1, <1>1, ManifestKept
<1>3. \A x \in marks' : Grounded(x)'
  BY <1>1, GroundedKept DEF LineageInv
<1>4. \A a \in Actors : CommandOK(cmd[a])'
  <2> SUFFICES ASSUME NEW a \in Actors PROVE CommandOK(cmd[a])'
    OBVIOUS
  <2>1. PICK c : c = cmd[a]
    OBVIOUS
  <2>2. CommandOK(c)'
    BY <1>1, <2>1, CommandKept DEF LineageInv
  <2>3. \A d : CommandOK(d)' /\ cmd'[a] = d => CommandOK(cmd[a])'
    OBVIOUS
  <2> QED BY <2>1, <2>2, <2>3
<1>5. TablesOK'
  BY DEF LineageInv, TablesOK
<1> QED BY <1>2, <1>3, <1>4, <1>5 DEF LineageInv

LEMMA StagesKeep ==
  ASSUME LineageInv, BuildsInv, NEW b \in Builds, G!Stages(b)
  PROVE  LineageInv' /\ BuildsInv'
<1>0. b \in Actors /\ SnapshotUri[b] \in Uris
  BY HistoryAssumption
<1>1. CASE G!SubmitSnapshot(b)
  BY <1>0, <1>1, SubmitSnapshotBuild, BeginStep DEF G!SubmitSnapshot
<1>2. CASE G!SubmitEpoch(b)
  BY <1>0, <1>2, SubmitEpochBuild, BeginStep DEF G!SubmitEpoch
<1>3. CASE G!SubmitIdentity(b)
  <2>1. gold[b].mode \in {"full", "incremental"}
        /\ G!BeginResolve(b, SnapshotUri[b], gold[b].gen, gold[b].mode, gold[b].srcs, policy)
    BY <1>3 DEF G!SubmitIdentity, G!Submit, BuildsInv, StateOK, Planned, Live
  <2> QED BY <1>0, <1>3, <2>1, SubmitIdentityBuild, BeginResolveStep
<1>4. CASE G!TakeSnapshot(b)
  BY <1>4, TakeSnapshotBuild, LineageStays DEF G!TakeSnapshot, G!lineageVars
<1>5. CASE G!TakeIdentity(b)
  BY <1>5, TakeIdentityBuild, LineageStays DEF G!TakeIdentity, G!lineageVars
<1>6. CASE G!TakeEpoch(b)
  BY <1>6, TakeEpochBuild, LineageStays DEF G!TakeEpoch, G!lineageVars
<1>7. CASE G!Release(b)
  BY <1>7, ReleaseBuild, LineageStays DEF G!Release, G!lineageVars
<1>8. CASE G!JobRejects(b)
  BY <1>8, FailedBuild, LineageStays DEF G!JobRejects, G!lineageVars
<1>9. CASE \/ G!Refused(b, "snapshotting", "snapshot") \/ G!Refused(b, "resolving", "identity")
           \/ G!Refused(b, "publishing", "epoch")
  BY <1>9, RefusedStage, LineageStays DEF G!Refused, G!lineageVars
<1> QED BY <1>1, <1>2, <1>3, <1>4, <1>5, <1>6, <1>7, <1>8, <1>9 DEF G!Stages

LEMMA UnchangedBuilds ==
  ASSUME LineageInv, BuildsInv, UNCHANGED <<runs, rows, marks, man, cmd, gold>>
  PROVE  BuildsInv'
<1>1. Kept
  BY DEF Kept
<1>2. \A a \in Actors : (cmd[a].pc \in Writes => BuiltRun(cmd[a].run))'
  BY DEF BuildsInv, BuiltRun, Separate, G!Identities
<1>3. \A b \in Builds : (StateOK(gold[b], b) /\ CommandFits(gold[b], b, cmd[b]))'
  <2> SUFFICES ASSUME NEW b \in Builds PROVE (StateOK(gold[b], b) /\ CommandFits(gold[b], b, cmd[b]))'
    OBVIOUS
  <2>1. \A h, d : StateOK(h, b)' /\ CommandFits(h, b, d)' /\ gold'[b] = h /\ cmd'[b] = d
                    => (StateOK(gold[b], b) /\ CommandFits(gold[b], b, cmd[b]))'
    OBVIOUS
  <2>2. PICK h : h = gold[b]
    OBVIOUS
  <2>3. PICK d : d = cmd[b]
    OBVIOUS
  <2>4. StateOK(h, b) /\ CommandFits(h, b, d)
    BY <2>2, <2>3 DEF BuildsInv
  <2> QED BY <1>1, <2>1, <2>2, <2>3, <2>4, StateKept, FitsKept
<1>4. gold' = [b \in Builds |-> gold'[b]]
  BY DEF BuildsInv
<1> QED BY <1>1, <1>2, <1>3, <1>4, MarksStayBuilt DEF BuildsInv

\* ------------------------------------------------------------ histories

LEMMA HistoryRuns ==
  /\ \A s : G!SourceRun(s).kind = "source"
  /\ Full.kind = "full" /\ Full.gen = "g1" /\ Full.srcs = {"s1"} /\ Full.policy = "p1"
  /\ Incremental.kind = "incremental" /\ Incremental.gen = "g1" /\ Incremental.input = "u1"
  /\ Incremental.srcs = {"s2"} /\ Incremental.policy = "p1"
  /\ S1.kind = "source" /\ S2.kind = "source" /\ S1.name = "s1" /\ S2.name = "s2"
BY DEF Full, Incremental, S1, S2, G!SourceRun, G!IdentityRun

LEMMA HistoryManifests ==
  ASSUME NEW all, History(all)
  PROVE  /\ \A u \in Uris : man[u] = G!NoManifest \/ u \in {"u0", "u1", "u2"}
         /\ man["u0"] = Snapshot({S1}, {S1})
         /\ man["u1"] = Snapshot({S1, S2, Full}, {S1, S2, Full})
         /\ man["u2"] = G!NoManifest \/
              (Incremental \in all /\ man["u2"] = Snapshot({S1, S2, Incremental}, all))
BY HistoryAssumption DEF History, Legacy

LEMMA SnapshotIs ==
  ASSUME NEW S, NEW all
  PROVE  LET m == Snapshot(S, all) IN
         /\ m.kind = "snapshot" /\ m.kind # "epoch" /\ m.kind # G!None
         /\ m.gen = "g1" /\ m.runs = S /\ m.parent = G!None
BY DEF Snapshot, G!None

\* The histories that commands and builds start from.
Past(all) ==
  /\ IsFiniteSet(all) /\ {S1, S2, Full} \subseteq all
  /\ \A x \in all : x.kind = "source" \/ x \in {Full, Incremental}

LEMMA NothingPublished ==
  /\ G!NoManifest.kind = G!None /\ G!NoManifest.runs = {}
BY DEF G!NoManifest

LEMMA PastLineage ==
  ASSUME NEW all, History(all), Past(all)
  PROVE  LineageInv
<1>1. runs = all /\ rows = all /\ marks = all /\ cmd = [a \in Actors |-> G!Idle]
      /\ man = [u \in Uris |-> man[u]]
  BY DEF History
<1>2. "u1" \in Uris /\ "u0" \in Uris /\ "u2" \in Uris
  BY HistoryAssumption
<1>3. PICK R : R = {S1, S2, Full}
  OBVIOUS
<1>4. man["u1"].runs = R /\ man["u1"].kind = "snapshot" /\ man["u1"].gen = "g1"
  BY <1>3, HistoryManifests, SnapshotIs
<1>5. Closes(R) /\ Closes({S1})
  BY <1>3, HistoryRuns DEF Closes
<1>6. TablesOK
  <2>1. \A u \in Uris : man[u] = G!NoManifest \/ man[u].kind # G!None
    BY HistoryManifests, SnapshotIs
  <2>2. cmd = [a \in Actors |-> cmd[a]]
    BY <1>1
  <2> QED BY <1>1, <2>1, <2>2 DEF TablesOK, Past
<1>7. \A u \in Uris : ManifestOK(u)
  <2> SUFFICES ASSUME NEW u \in Uris, man[u].kind # G!None PROVE ManifestOK(u)
    BY DEF ManifestOK
  <2>1. PICK m : m = man[u]
    OBVIOUS
  <2>2. m.kind = "snapshot" /\ m.kind # "epoch" /\ m.gen = "g1"
    BY <2>1, HistoryManifests, SnapshotIs, NothingPublished
  <2>3. m.runs \subseteq all /\ (u \notin Legacy => Closes(m.runs))
    <3>1. u \in {"u0", "u1", "u2"}
      BY HistoryManifests, NothingPublished
    <3>2. CASE u = "u0"
      <4>1. m = Snapshot({S1}, {S1})
        BY <2>1, <3>2, HistoryManifests
      <4>2. m.runs = {S1}
        BY <4>1, SnapshotIs
      <4> QED BY <1>5, <4>2 DEF Past
    <3>3. CASE u = "u1"
      BY <1>3, <1>4, <1>5, <2>1, <3>3 DEF Past
    <3>4. CASE u = "u2"
      <4>1. m = Snapshot({S1, S2, Incremental}, all) /\ Incremental \in all
        BY <2>1, <3>4, HistoryManifests, NothingPublished
      <4>2. m.runs = {S1, S2, Incremental}
        BY <4>1, SnapshotIs
      <4> QED BY <3>4, <4>1, <4>2 DEF Legacy, Past
    <3> QED BY <3>1, <3>2, <3>3, <3>4
  <2>4. \A x \in m.runs : x.kind # "source" => x.gen = "g1"
    BY <2>3, HistoryRuns DEF Past
  <2> QED BY <1>1, <2>1, <2>2, <2>3, <2>4 DEF ManifestOK
<1>8. \A x \in marks : Grounded(x)
  <2> SUFFICES ASSUME NEW x \in marks, x.kind = "incremental" PROVE Grounded(x)
    BY DEF Grounded
  <2>1. x = Incremental
    BY <1>1, HistoryRuns DEF Past
  <2>2. x.input = "u1" /\ x.gen = "g1" /\ x.srcs = {"s2"}
    BY <2>1, HistoryRuns
  <2>3. G!Unprocessed(R) = {"s2"}
    <3>1. G!SourcesOf(R) = {S1, S2} /\ G!Identities(R) = {Full}
      BY <1>3, HistoryRuns DEF G!SourcesOf, G!Identities
    <3>2. {y.name : y \in G!SourcesOf(R)} = {"s1", "s2"} /\ G!Resolved(R) = {"s1"}
      BY <3>1, HistoryRuns DEF G!Resolved
    <3> QED BY <3>2 DEF G!Unprocessed
  <2>4. man[x.input].kind # G!None /\ man[x.input].gen = x.gen /\ man[x.input].runs = R
        /\ R \subseteq marks /\ x.input \in Uris
    BY <1>1, <1>2, <1>3, <1>4, <2>2 DEF Past, G!None
  <2> QED BY <1>5, <2>2, <2>3, <2>4 DEF Grounded
<1>9. \A a \in Actors : CommandOK(cmd[a])
  <2>1. PICK c : c = G!Idle
    OBVIOUS
  <2>2. CommandOK(c)
    BY <2>1, IdleIs DEF CommandOK, Shape, CommandPhases, Reads, Writes, G!None
  <2>3. \A a \in Actors : cmd[a] = c
    BY <1>1, <2>1
  <2> QED BY <2>2, <2>3
<1> QED BY <1>6, <1>7, <1>8, <1>9 DEF LineageInv

LEMMA PastBuilds ==
  ASSUME NEW all, History(all), Past(all), gold = [b \in Builds |-> G!NoBuild]
  PROVE  BuildsInv
<1>1. marks = all /\ cmd = [a \in Actors |-> G!Idle]
  BY DEF History
<1>2. gold = [b \in Builds |-> gold[b]]
  OBVIOUS
<1>3. \A x \in marks : BuiltRun(x)
  <2> SUFFICES ASSUME NEW x \in marks PROVE BuiltRun(x)
    OBVIOUS
  <2>1. man["u1"].runs = {S1, S2, Full}
    BY HistoryManifests, SnapshotIs
  <2>2. G!Identities(man["u1"].runs) = {Full}
    BY <2>1, HistoryRuns DEF G!Identities
  <2>3. Separate(man["u1"].runs)
    BY <2>2 DEF Separate
  <2>4. CASE x.kind = "source"
    BY <2>4 DEF BuiltRun
  <2>5. CASE x = Full
    BY <2>5, HistoryRuns, HistoryAssumption DEF BuiltRun
  <2>6. CASE x = Incremental
    BY <2>3, <2>6, HistoryRuns, HistoryAssumption DEF BuiltRun
  <2> QED BY <1>1, <2>4, <2>5, <2>6 DEF Past
<1>4. \A a \in Actors : cmd[a].pc \notin Writes
  BY <1>1, IdleIs DEF Writes
<1>5. \A b \in Builds : StateOK(gold[b], b) /\ CommandFits(gold[b], b, cmd[b])
  <2>1. PICK g : g = G!NoBuild
    OBVIOUS
  <2>2. DOMAIN g = BuildFields /\ g.pc = "idle" /\ g.result.kind = "source"
    BY <2>1, NoBuildIs
  <2>3. \A b \in Builds : StateOK(g, b)
    BY <2>2 DEF StateOK, Live
  <2>4. \A b, c : CommandFits(g, b, c)
    BY <2>2 DEF CommandFits
  <2>5. \A b \in Builds : gold[b] = g
    BY <2>1
  <2> QED BY <2>3, <2>4, <2>5
<1> QED BY <1>2, <1>3, <1>4, <1>5 DEF BuildsInv

\* ------------------------------------------------------------ the invariant of the casts

NoBuilds == gold = [b \in Builds |-> G!NoBuild]
SilverInv ==
  /\ cast \in GoldCasts \cup {"commands", "builds"}
  /\ cast = "commands" => LineageInv /\ NoBuilds
  /\ cast = "builds" => LineageInv /\ BuildsInv
  /\ cast \in GoldCasts => History({}) /\ NoBuilds

LEMMA SilverInitOK == MCInit => SilverInv
<1> SUFFICES ASSUME MCInit PROVE SilverInv
  OBVIOUS
<1>1. NoBuilds /\ cast \in GoldCasts \cup {"commands", "builds"}
  BY DEF MCInit, NoBuilds
<1>2. Past({S1, S2, Full}) /\ Past({S1, S2, Full, Incremental})
      /\ Past({S1, S2, Full, Incremental} \cup G!Runs({"s3", "s4"}))
  <2>1. \A x \in {S1, S2, Full, Incremental} \cup G!Runs({"s3", "s4"}) :
          x.kind = "source" \/ x \in {Full, Incremental}
    BY HistoryRuns DEF G!Runs
  <2>2. IsFiniteSet({S1, S2, Full}) /\ IsFiniteSet({S1, S2, Full, Incremental})
    <3>1. IsFiniteSet({}) /\ \A T, x : IsFiniteSet(T) => IsFiniteSet(T \cup {x})
      BY FS_EmptySet, FS_AddElement
    <3>2. IsFiniteSet({} \cup {S1}) /\ IsFiniteSet(({} \cup {S1}) \cup {S2})
          /\ IsFiniteSet((({} \cup {S1}) \cup {S2}) \cup {Full})
          /\ IsFiniteSet(((({} \cup {S1}) \cup {S2}) \cup {Full}) \cup {Incremental})
      BY <3>1
    <3>3. (({} \cup {S1}) \cup {S2}) \cup {Full} = {S1, S2, Full}
          /\ ((({} \cup {S1}) \cup {S2}) \cup {Full}) \cup {Incremental} = {S1, S2, Full, Incremental}
      OBVIOUS
    <3> QED BY <3>2, <3>3
  <2>3. IsFiniteSet({S1, S2, Full, Incremental} \cup G!Runs({"s3", "s4"}))
    <3>1. PICK T : T = {S1, S2, Full, Incremental}
      OBVIOUS
    <3>2. T \cup G!Runs({"s3", "s4"}) = (T \cup {G!SourceRun("s3")}) \cup {G!SourceRun("s4")}
      BY DEF G!Runs
    <3> QED BY <2>2, <3>1, <3>2, FS_AddElement
  <2> QED BY <2>1, <2>2, <2>3, HistoryRuns DEF Past
<1>3. CASE cast = "commands"
  <2>1. \E all : History(all) /\ Past(all)
    BY <1>2, <1>3 DEF MCInit, SilverInit
  <2> QED BY <1>1, <1>3, <2>1, PastLineage DEF SilverInv, GoldCasts
<1>4. CASE cast = "builds"
  <2>1. \E all : History(all) /\ Past(all)
    BY <1>2, <1>4 DEF MCInit, SilverInit
  <2> QED BY <1>1, <1>4, <2>1, PastLineage, PastBuilds DEF SilverInv, GoldCasts, NoBuilds
<1>5. CASE cast \in GoldCasts
  BY <1>1, <1>5 DEF SilverInv, GoldCasts, MCInit, SilverInit
<1> QED BY <1>1, <1>3, <1>4, <1>5

LEMMA CommandStepOK ==
  ASSUME SilverInv, CommandStep
  PROVE  SilverInv'
<1>1. cast = "commands" /\ UNCHANGED <<cast, gold>> /\ LineageInv /\ NoBuilds
  BY DEF CommandStep, SilverInv
<1>2. CASE G!Ingest("s3")
  BY <1>1, <1>2, IngestStep DEF SilverInv, GoldCasts, NoBuilds
<1>3. ASSUME NEW a \in Actors, G!Driver(a) PROVE LineageInv'
  BY <1>1, <1>3, DriverStepOK
<1>4. ASSUME NEW a \in Actors, Command(a) PROVE LineageInv'
  <2>1. \/ \E S \in Requests : G!BeginSnapshot(a, NextUri, "g1", S, FALSE)
        \/ \E S \in Requests : G!BeginEpoch(a, NextUri, "g1", S, "none")
        \/ \E S \in Requests, p \in {u \in Uris : man[u].kind = "epoch"} :
             G!BeginEpoch(a, NextUri, "g1", S \ man[p].runs, p)
        \/ \E u \in Uris, mode \in {"full", "incremental"}, S \in SUBSET Sources :
             G!BeginResolve(a, u, "g1", mode, S, policy)
    BY <1>4 DEF Command
  <2>2. CASE \E S \in Requests : G!BeginSnapshot(a, NextUri, "g1", S, FALSE)
    BY <1>1, <2>2, BeginStep
  <2>3. CASE \E S \in Requests : G!BeginEpoch(a, NextUri, "g1", S, "none")
    BY <1>1, <2>3, BeginStep DEF G!None
  <2>4. CASE \E S \in Requests, p \in {u \in Uris : man[u].kind = "epoch"} :
               G!BeginEpoch(a, NextUri, "g1", S \ man[p].runs, p)
    <3>1. PICK S \in Requests, p \in Uris : G!BeginEpoch(a, NextUri, "g1", S \ man[p].runs, p)
      BY <2>4
    <3>2. PICK T, v : T = S \ man[p].runs /\ v = NextUri
      OBVIOUS
    <3>3. G!BeginEpoch(a, v, "g1", T, p)
      BY <3>1, <3>2
    <3> QED BY <1>1, <3>3, BeginStep
  <2>5. CASE \E u \in Uris, mode \in {"full", "incremental"}, S \in SUBSET Sources :
               G!BeginResolve(a, u, "g1", mode, S, policy)
    <3>1. PICK u \in Uris, mode \in {"full", "incremental"}, S \in SUBSET Sources :
            G!BeginResolve(a, u, "g1", mode, S, policy)
      BY <2>5
    <3> QED BY <1>1, <3>1, BeginResolveStep
  <2> QED BY <2>1, <2>2, <2>3, <2>4, <2>5
<1>5. LineageInv'
  BY <1>1, <1>3, <1>4, IngestStep DEF CommandStep
<1> QED BY <1>1, <1>5 DEF SilverInv, GoldCasts, NoBuilds

LEMMA BuildStepOK ==
  ASSUME SilverInv, BuildStep
  PROVE  SilverInv'
<1>1. cast = "builds" /\ cast' = cast /\ LineageInv /\ BuildsInv
  BY DEF BuildStep, SilverInv
<1>2. ASSUME NEW b \in Builds, Prepare(b) PROVE LineageInv' /\ BuildsInv'
  <2>1. PICK base \in {"u1", "u2"}, mode \in {"full", "incremental"}, g \in Generations,
             ident \in {Full, Incremental}, contributing \in Contributions :
          \E spine : G!Prepare(b, base, mode, g, ident, spine, contributing)
    BY <1>2 DEF Prepare
  <2>2. base \in Uris
    BY HistoryAssumption
  <2>3. UNCHANGED <<runs, rows, marks, man, cmd>>
    BY <2>1 DEF G!Prepare, G!lineageVars
  <2> QED BY <1>1, <2>1, <2>2, <2>3, PrepareBuild, LineageStays
<1>3. ASSUME NEW b \in Builds, G!Stages(b) PROVE LineageInv' /\ BuildsInv'
  BY <1>1, <1>3, StagesKeep
<1>4. ASSUME NEW b \in Builds, G!Driver(b), UNCHANGED gold PROVE LineageInv' /\ BuildsInv'
  BY <1>1, <1>4, DriverStepOK, DriverBuild, HistoryAssumption
<1>5. ASSUME NEW p, G!Deploy(p) PROVE LineageInv' /\ BuildsInv'
  <2>1. UNCHANGED <<runs, rows, marks, man, cmd, gold>>
    BY <1>5 DEF G!Deploy, G!lineageVars
  <2>2. LineageInv'
    BY <1>1, <2>1, LineageStays
  <2> QED BY <1>1, <2>1, <2>2, UnchangedBuilds
<1> QED BY <1>1, <1>2, <1>3, <1>4, <1>5 DEF BuildStep, SilverInv, GoldCasts

LEMMA SilverStep == SilverInv /\ [MCNext]_castVars => SilverInv'
<1> SUFFICES ASSUME SilverInv, [MCNext]_castVars PROVE SilverInv'
  OBVIOUS
<1>1. CASE CommandStep
  BY <1>1, CommandStepOK
<1>2. CASE BuildStep
  BY <1>2, BuildStepOK
<1>3. CASE UNCHANGED <<cast, silver>>
  <2>1. UNCHANGED <<cast, runs, rows, marks, man, cmd, gold>>
    BY <1>3 DEF silver
  <2>2. LineageInv => LineageInv'
    BY <2>1, LineageStays
  <2>3. LineageInv /\ BuildsInv => BuildsInv'
    BY <2>1, UnchangedBuilds
  <2>4. History({}) => History({})'
    BY <2>1 DEF History
  <2> QED BY <2>1, <2>2, <2>3, <2>4 DEF SilverInv, NoBuilds
<1>4. CASE \E b \in Builders : DriverStep(b)
  BY <1>3, <1>4 DEF DriverStep
<1>5. CASE UNCHANGED castVars
  BY <1>3, <1>5 DEF castVars
<1> QED BY <1>1, <1>2, <1>4, <1>5 DEF MCNext

LEMMA SilverInvariant == MCSpec => []SilverInv
<1>1. SilverInv /\ [MCNext]_castVars => SilverInv'
  BY SilverStep
<1> QED BY SilverInitOK, <1>1, PTL DEF MCSpec

\* ------------------------------------------------------------ what follows

\* An Identity run resolves nothing that what it extends has resolved.
LEMMA LineageResolvedOnce ==
  ASSUME LineageInv
  PROVE  G!ResolvedOnce
<1> SUFFICES ASSUME NEW x \in G!Identities(marks), NEW y \in G!IdentityClosure({x}) \ {x}
             PROVE  x.srcs \cap y.srcs = {}
  BY DEF G!ResolvedOnce
<1>1. x \in marks /\ Grounded(x)
  BY DEF G!Identities, LineageInv
<1>2. CASE x.kind # "incremental"
  <2>1. G!Identities({x}) \subseteq {x}
    BY DEF G!Identities
  <2>2. G!IdentityClosure({x}) \subseteq {x}
    BY <1>2, <2>1, ClosureLeast
  <2> QED BY <2>2
<1>3. CASE x.kind = "incremental"
  <2>1. PICK R : R = man[x.input].runs
    OBVIOUS
  <2>2. R \subseteq marks /\ Closes(R) /\ x.srcs = G!Unprocessed(R) /\ x.input \in Uris
        /\ man[x.input].kind # G!None
    BY <1>1, <1>3, <2>1 DEF Grounded
  <2>3. PICK B : B = {x} \cup G!Identities(R)
    OBVIOUS
  <2>4. G!ExplicitRuns(x.input) \subseteq R
    BY <2>1, <2>2, ExplicitBound
  <2>5. \A z \in R : z.kind = "incremental" => G!Identities(G!ExplicitRuns(z.input)) \subseteq R
    BY <2>2, ClosesExplicit
  <2>6. \A z \in B : z.kind = "incremental" => G!Identities(G!ExplicitRuns(z.input)) \subseteq B
    BY <2>3, <2>4, <2>5 DEF G!Identities
  <2>7. G!Identities({x}) \subseteq B
    BY <2>3 DEF G!Identities
  <2>8. G!IdentityClosure({x}) \subseteq B
    BY <2>6, <2>7, ClosureLeast
  <2>9. y \in G!Identities(R)
    BY <2>3, <2>8
  <2> QED BY <2>2, <2>9 DEF G!Unprocessed, G!Resolved
<1> QED BY <1>2, <1>3

LEMMA LineageManifests ==
  ASSUME LineageInv
  PROVE  G!LineageClosed(Legacy) /\ G!NeverTorn
<1>1. ASSUME NEW u \in Uris \ Legacy PROVE G!IdentityClosure(man[u].runs) \subseteq man[u].runs
  <2>1. PICK R : R = man[u].runs
    OBVIOUS
  <2>2. R \subseteq marks /\ Closes(R)
    <3>1. CASE man[u].kind # G!None
      BY <2>1, <3>1 DEF LineageInv, ManifestOK
    <3>2. CASE man[u] = G!NoManifest
      BY <2>1, <3>2, NothingPublished DEF Closes
    <3> QED BY <3>1, <3>2 DEF LineageInv, TablesOK
  <2>3. G!IdentityClosure(R) \subseteq R
    BY <2>2, ClosesWhole
  <2> QED BY <2>1, <2>3
<1>2. G!NeverTorn
  BY DEF G!NeverTorn, LineageInv, CommandOK
<1> QED BY <1>1, <1>2 DEF G!LineageClosed

\* Beside Gold drivers nothing of Silver moves.
LEMMA StillHistory ==
  ASSUME History({})
  PROVE  G!LineageClosed(Legacy) /\ G!NeverTorn /\ G!ResolvedOnce
<1>1. ASSUME NEW u \in Uris \ Legacy PROVE G!IdentityClosure(man[u].runs) \subseteq man[u].runs
  <2>1. PICK R : R = man[u].runs
    OBVIOUS
  <2>2. R \in {{}, {S1}, {S1, S2, Full}}
    <3>1. man[u] \in {G!NoManifest, Snapshot({S1}, {S1}), Snapshot({S1, S2, Full}, {S1, S2, Full})}
      BY HistoryManifests DEF Legacy
    <3> QED BY <2>1, <3>1, NothingPublished, SnapshotIs
  <2>3. \A x \in R : x.kind # "incremental"
    BY <2>2, HistoryRuns
  <2>4. G!Identities(R) \subseteq R
    BY DEF G!Identities
  <2>5. G!IdentityClosure(R) \subseteq R
    BY <2>3, <2>4, ClosureLeast
  <2> QED BY <2>1, <2>5
<1>2. \A a \in Actors : cmd[a].out = "none"
  BY IdleIs DEF History, G!None
<1>3. marks = {}
  BY DEF History
<1> QED BY <1>1, <1>2, <1>3 DEF G!LineageClosed, G!NeverTorn, G!ResolvedOnce, G!Identities

LEMMA NothingReleased ==
  ASSUME NoBuilds
  PROVE  G!ReleaseIsResolved
BY NoBuildIs DEF NoBuilds, G!ReleaseIsResolved

LEMMA BuildsReleased ==
  ASSUME LineageInv, BuildsInv
  PROVE  G!ReleaseIsResolved
BY ReleasedIsResolved DEF G!ReleaseIsResolved

\* A manifest holds, with every Identity run, the runs whose state it extends, and
\* no publication is torn by the order in which it reads the heads, for any number
\* of operators, builds, URIs and sources.
THEOREM ManifestsStayWhole == MCSpec => []ManifestsAreWhole
<1>1. SilverInv => ManifestsAreWhole
  BY LineageManifests, StillHistory DEF SilverInv, ManifestsAreWhole
<1> QED BY SilverInvariant, <1>1, PTL

\* In the epoch of a released build each source that is owed is resolved by one
\* Identity run under a contract that admits it, and no Identity run resolves a
\* source again that a run it extends has resolved.
THEOREM ReleasesStayResolved == MCSpec => []ReleaseIsResolved
<1>1. SilverInv => G!ReleaseIsResolved
  BY NothingReleased, BuildsReleased DEF SilverInv
<1>2. SilverInv => G!ResolvedOnce
  BY LineageResolvedOnce, StillHistory DEF SilverInv
<1>3. SilverInv => ReleaseIsResolved
  BY <1>1, <1>2 DEF ReleaseIsResolved
<1> QED BY SilverInvariant, <1>3, PTL

\* -------------------------------------------------------- a release is atomic

\* Each run holds a row of a table once, under one of its planned keys.
OnceEach(T) == \A x, y \in Rows(T) : (x.key = y.key /\ x.run = y.run) => x = y
OwnKeys(T, t) == \A x \in Rows(T) : x.run \in Plans /\ x.key \in Keys[x.run][t]

\* The base of a MERGE holds every row of its plan.
Covered(T, b) ==
  /\ bld[b].base \in 0..Len(T.snaps)
  /\ RunRows(T, PlanOf[b]) \subseteq RowsAt(T, bld[b].base)

\* Every planned row of the plan is in the current tables.
Filled(p) == \A t \in Tables : Keys[p][t] \subseteq {x.key : x \in RunRows(tbl[t], p)}

AtomicInv ==
  /\ \A t \in Tables : OnceEach(tbl[t]) /\ OwnKeys(tbl[t], t)
  /\ cast = "plans" =>
       \A b \in Builders :
         /\ b = "b" => bld[b].pc = "idle"
         /\ bld[b].pc = "land" => Covered(tbl[TableOrder[bld[b].i]], b)
  /\ \A b \in Builders : bld[b].pc \in {"pin"} \cup Holding => Filled(PlanOf[b])
  /\ \A p \in Committed : Filled(p)

\* Rows counted by key: as many as the plan has when no key is missing.
LEMMA KeyedCount ==
  ASSUME NEW R, NEW K, IsFiniteSet(K), \A x \in R : x.key \in K,
         \A x, y \in R : x.key = y.key => x = y
  PROVE  Cardinality(R) = Cardinality(K) <=> K \subseteq {x.key : x \in R}
<1> DEFINE f == [x \in R |-> x.key]
<1>1. f \in Injection(R, K)
  BY DEF Injection, IsInjective
<1>2. f \in Surjection(R, K) <=> K \subseteq {x.key : x \in R}
  <2>1. f \in [R -> K]
    OBVIOUS
  <2>2. f \in Surjection(R, K) <=> \A k \in K : \E x \in R : f[x] = k
    BY <2>1 DEF Surjection
  <2>3. \A x \in R : f[x] = x.key
    OBVIOUS
  <2> QED BY <2>2, <2>3
<1> HIDE DEF f
<1>3. Cardinality(R) = Cardinality(K) <=> f \in Surjection(R, K)
  BY <1>1, FS_Injection
<1> QED BY <1>2, <1>3

\* The rows of a table whose MERGE landed; older snapshots stay as they are.
LEMMA AppendedRows ==
  ASSUME NEW T \in Table, WellFormed(T), NEW p \in Plans, NEW t \in Tables,
         NEW keys \in SUBSET Keys[p][t]
  PROVE  LET U == AppendKeys(T, p, keys, 0)
         IN  /\ Rows(U) = Rows(T) \cup {[run |-> p, key |-> k, sid |-> Len(T.snaps) + 1] : k \in keys}
             /\ Len(U.snaps) = Len(T.snaps) + 1
             /\ \A i \in 0..Len(T.snaps) : RowsAt(U, i) = RowsAt(T, i)
<1> DEFINE U == AppendKeys(T, p, keys, 0)
           held == Rows(T) \cup {[run |-> p, key |-> k, sid |-> Len(T.snaps) + 1] : k \in keys}
           snap == [parent |-> T.head, run |-> p, journal |-> 0, undo |-> NoRun,
                    rows |-> held, anc |-> AncestorsAt(T, T.head) \cup {Len(T.snaps) + 1}]
<1>1. U.snaps = Append(T.snaps, snap) /\ U.head = Len(T.snaps) + 1
  BY DEF AppendKeys, Commit
<1>2. T.snaps \in Seq(SnapshotRow) /\ Len(T.snaps) \in Nat
  BY DEF Table
<1>3. snap.rows = held
  OBVIOUS
<1> HIDE DEF U, snap, held
<1>4. /\ Len(U.snaps) = Len(T.snaps) + 1
      /\ U.snaps[Len(T.snaps) + 1] = snap
      /\ \A i \in 1..Len(T.snaps) : U.snaps[i] = T.snaps[i]
  <2> DEFINE s == T.snaps
  <2>1. s \in Seq(SnapshotRow) /\ U.snaps = Append(s, snap)
    BY <1>1, <1>2
  <2> HIDE DEF s
  <2>2. /\ Len(U.snaps) = Len(s) + 1 /\ U.snaps[Len(s) + 1] = snap
        /\ \A i \in 1..Len(s) : U.snaps[i] = s[i]
    BY <2>1
  <2> QED BY <2>2 DEF s
<1>5. Rows(U) = held
  BY <1>1, <1>2, <1>3, <1>4 DEF Rows, RowsAt
<1>6. \A i \in 0..Len(T.snaps) : RowsAt(U, i) = RowsAt(T, i)
  BY <1>2, <1>4 DEF RowsAt
<1> QED BY <1>4, <1>5, <1>6 DEF U, held

\* A MERGE whose base held every row of the plan inserts no row twice.
LEMMA MergedOnce ==
  ASSUME NEW T \in Table, WellFormed(T), NEW p \in Plans, NEW t \in Tables,
         NEW keys \in SUBSET Keys[p][t], OnceEach(T), OwnKeys(T, t),
         \A x \in RunRows(T, p) : x.key \notin keys
  PROVE  LET U == AppendKeys(T, p, keys, 0) IN OnceEach(U) /\ OwnKeys(U, t)
<1> DEFINE U == AppendKeys(T, p, keys, 0)
           added == {[run |-> p, key |-> k, sid |-> Len(T.snaps) + 1] : k \in keys}
<1>1. Rows(U) = Rows(T) \cup added
  BY AppendedRows
<1>2. \A x \in added : x.run = p /\ x.key \in keys
  OBVIOUS
<1>3. \A x, y \in added : x.key = y.key => x = y
  OBVIOUS
<1>4. \A x \in Rows(T) : x.run = p => x.key \notin keys
  BY DEF RunRows, RunRowsAt, Rows
<1> HIDE DEF U, added
<1>5. OnceEach(U)
  <2> SUFFICES ASSUME NEW x \in Rows(U), NEW y \in Rows(U), x.key = y.key, x.run = y.run
               PROVE  x = y
    BY DEF OnceEach
  <2>1. CASE x \in Rows(T) /\ y \in Rows(T)
    BY <2>1 DEF OnceEach
  <2>2. CASE x \in added /\ y \in added
    BY <2>2, <1>3
  <2>3. ~(x \in Rows(T) /\ y \in added) /\ ~(x \in added /\ y \in Rows(T))
    BY <1>2, <1>4
  <2> QED BY <1>1, <2>1, <2>2, <2>3
<1>6. OwnKeys(U, t)
  BY <1>1, <1>2 DEF OwnKeys
<1> QED BY <1>5, <1>6 DEF U

\* It adds rows to its own plan alone, and none when no key is new.
LEMMA MergedRuns ==
  ASSUME NEW T \in Table, WellFormed(T), NEW p \in Plans, NEW t \in Tables,
         NEW keys \in SUBSET Keys[p][t], NEW q
  PROVE  LET U == AppendKeys(T, p, keys, 0)
         IN  /\ RunRows(T, q) \subseteq RunRows(U, q)
             /\ (q # p \/ keys = {}) => RunRows(U, q) = RunRows(T, q)
<1> DEFINE U == AppendKeys(T, p, keys, 0)
           added == {[run |-> p, key |-> k, sid |-> Len(T.snaps) + 1] : k \in keys}
<1>1. Rows(U) = Rows(T) \cup added
  BY AppendedRows
<1>2. (\A x \in added : x.run = p) /\ (keys = {} => added = {})
  OBVIOUS
<1> HIDE DEF U, added
<1>3. /\ RunRows(T, q) = {x \in Rows(T) : x.run = q}
      /\ RunRows(U, q) = {x \in Rows(U) : x.run = q}
  BY DEF RunRows, RunRowsAt, Rows
<1>4. RunRows(T, q) \subseteq RunRows(U, q)
  BY <1>1, <1>3
<1>5. ASSUME q # p \/ keys = {} PROVE RunRows(U, q) = RunRows(T, q)
  BY <1>1, <1>2, <1>3, <1>5
<1> QED BY <1>4, <1>5 DEF U

\* Only Land changes a Gold table; a driver reads its base with the table's head.
LEMMA LandOnly ==
  ASSUME NEW b \in Builders, TypeInv, Build(b) \/ Crash(b)
  PROVE  /\ tbl' = tbl \/ Land(b)
         /\ bld'[b].pc = "land" =>
              /\ tbl' = tbl /\ bld'[b].i = bld[b].i /\ bld[b].i \in 1..Len(TableOrder)
              /\ bld'[b].base = tbl[TableOrder[bld[b].i]].head
<1>0. /\ bld \in [Builders -> Builder] /\ bld[b] \in Builder
      /\ bld[b].pc \in Early => bld[b].i \in 1..Len(TableOrder)
  BY DEF TypeInv, BuilderOK
<1>g. ASSUME NEW pc, Goto(b, pc) PROVE bld'[b].pc = pc
  BY <1>0, <1>g DEF Goto, Builder
<1>1. CASE Start(b)
  <2>1. \E pc \in {"failed", "plan", "done"} : Goto(b, pc)
    BY <1>1 DEF Start
  <2> QED BY <1>1, <2>1, <1>g DEF Start, ReadOnly
<1>2. CASE ReadBase(b)
  <2>1. CASE bld[b].pc = "table"
    <3> DEFINE head == tbl[TableOrder[bld[b].i]].head
    <3>1. bld' = [bld EXCEPT ![b] = [bld[b] EXCEPT !.base = head, !.pc = "land"]]
      BY <1>0, <1>2, <2>1 DEF ReadBase
    <3> HIDE DEF head
    <3>2. bld'[b].base = head /\ bld'[b].i = bld[b].i
      BY <1>0, <3>1 DEF Builder
    <3> QED BY <1>0, <1>2, <2>1, <3>2 DEF ReadBase, ReadOnly, Early, head
  <2>2. CASE bld[b].pc \in {"plan", "commit"}
    <3>1. bld'[b].pc \in {"plan_land", "commit_land"}
      BY <1>0, <1>2, <2>2 DEF ReadBase, Builder
    <3> QED BY <1>2, <3>1 DEF ReadBase, ReadOnly
  <2> QED BY <1>2, <2>1, <2>2 DEF ReadBase
<1>3. CASE LandPlan(b)
  BY <1>3, <1>g DEF LandPlan
<1>4. CASE VerifyPlan(b)
  <2>1. \E pc \in {"table", "failed"} : Goto(b, pc)
    BY <1>4 DEF VerifyPlan
  <2> QED BY <1>4, <2>1, <1>g DEF VerifyPlan, ReadOnly
<1>5. CASE SkipEmpty(b) \/ Land(b)
  <2>1. NextTable(b) /\ bld[b].i \in 1..Len(TableOrder)
    BY <1>0, <1>5 DEF SkipEmpty, Land, Early
  <2> QED BY <1>5, <2>1, NextTableOK DEF SkipEmpty, ReadOnly
<1>6. CASE Raise(b) \/ Crash(b)
  <2>1. \E pc \in {"failed", "dead"} : Goto(b, pc)
    BY <1>6 DEF Raise, Crash
  <2> QED BY <1>6, <2>1, <1>g DEF Raise, Crash, ReadOnly
<1>7. CASE CountTables(b)
  <2>1. bld'[b].pc \in {"pin", "failed"}
    BY <1>0, <1>7 DEF CountTables, Builder
  <2> QED BY <1>7, <2>1 DEF CountTables, ReadOnly
<1>8. CASE PinSnapshots(b)
  <2>1. bld'[b].pc \in {"commit", "failed"}
    BY <1>0, <1>8 DEF PinSnapshots, Builder
  <2> QED BY <1>8, <2>1 DEF PinSnapshots, ReadOnly
<1>9. CASE LandCommit(b)
  BY <1>9, <1>g DEF LandCommit
<1>10. CASE Verify(b)
  <2>1. \E pc \in {"done", "failed"} : Goto(b, pc)
    BY <1>10 DEF Verify
  <2> QED BY <1>10, <2>1, <1>g DEF Verify, ReadOnly
<1> QED
  BY <1>1, <1>2, <1>3, <1>4, <1>5, <1>6, <1>7, <1>8, <1>9, <1>10 DEF Build

\* The table, keys and rows of a MERGE that lands; its base held its plan's rows,
\* because the catalog refused it otherwise or no other driver has its plan.
LEMMA LandCovered ==
  ASSUME NEW b \in Builders, TypeInv, AtomicInv, DriverStep(b), cast # "landing", tbl' # tbl
  PROVE  \E t \in Tables : \E keys \in SUBSET Keys[PlanOf[b]][t] :
           /\ tbl' = [tbl EXCEPT ![t] = AppendKeys(tbl[t], PlanOf[b], keys, 0)]
           /\ \A x \in RunRows(tbl[t], PlanOf[b]) : x.key \notin keys
           /\ Filled(PlanOf[b]) => keys = {}
<1> DEFINE t == TableOrder[bld[b].i]
           seen == {x.key : x \in RowsAt(tbl[t], bld[b].base)}
           keys == Keys[PlanOf[b]][t] \ seen
<1>1. Land(b)
  BY LandOnly DEF DriverStep
<1>2. t \in Tables /\ tbl[t] \in Table /\ WellFormed(tbl[t])
  <2>1. bld[b].i \in 1..Len(TableOrder)
    BY <1>1 DEF TypeInv, BuilderOK, Land, Early
  <2>2. t \in Tables
    BY <2>1, GoldReleaseConstants DEF Tables
  <2> QED BY <2>2 DEF TypeInv
<1>3. tbl' = [tbl EXCEPT ![t] = AppendKeys(tbl[t], PlanOf[b], keys, 0)]
  BY <1>1 DEF Land
<1>4. RunRows(tbl[t], PlanOf[b]) \subseteq RowsAt(tbl[t], bld[b].base)
  <2>1. CASE cast = "refusing"
    <3>1. ~Stale(b)
      BY <2>1 DEF DriverStep
    <3>2. tbl[t].head = bld[b].base
      BY <1>1, <3>1 DEF Stale, Land
    <3> QED BY <3>2 DEF RunRows, RunRowsAt
  <2>2. CASE cast = "plans"
    BY <1>1, <2>2 DEF AtomicInv, Covered, Land
  <2> QED BY <2>1, <2>2 DEF DriverStep, GoldCasts
<1>5. \A x \in RunRows(tbl[t], PlanOf[b]) : x.key \in seen
  BY <1>4
<1>6. Filled(PlanOf[b]) => keys = {}
  BY <1>2, <1>5 DEF Filled
<1> HIDE DEF t
<1>7. keys \in SUBSET Keys[PlanOf[b]][t]
  OBVIOUS
<1>8. \A x \in RunRows(tbl[t], PlanOf[b]) : x.key \notin keys
  BY <1>5
<1> HIDE DEF keys
<1> QED BY <1>2, <1>3, <1>6, <1>7, <1>8

\* A step of a driver keeps rows single and complete plans as they are.
LEMMA DriverRows ==
  ASSUME NEW b \in Builders, TypeInv, AtomicInv, DriverStep(b), cast # "landing"
  PROVE  /\ \A t \in Tables : OnceEach(tbl'[t]) /\ OwnKeys(tbl'[t], t)
         /\ \A t \in Tables, q \in Plans :
              /\ RunRows(tbl[t], q) \subseteq RunRows(tbl'[t], q)
              /\ Filled(q) => RunRows(tbl'[t], q) = RunRows(tbl[t], q)
         /\ \A q \in Plans : Filled(q) => Filled(q)'
<1>0. \A t \in Tables : /\ tbl[t] \in Table /\ WellFormed(tbl[t])
                        /\ OnceEach(tbl[t]) /\ OwnKeys(tbl[t], t)
  BY DEF TypeInv, AtomicInv
<1>p. PlanOf[b] \in Plans /\ DOMAIN tbl = Tables
  BY GoldReleaseConstants DEF TypeInv
<1>1. ASSUME NEW t \in Tables
      PROVE  /\ OnceEach(tbl'[t]) /\ OwnKeys(tbl'[t], t)
             /\ \A q \in Plans :
                  /\ RunRows(tbl[t], q) \subseteq RunRows(tbl'[t], q)
                  /\ Filled(q) => RunRows(tbl'[t], q) = RunRows(tbl[t], q)
  <2>1. CASE tbl'[t] = tbl[t]
    BY <1>0, <2>1
  <2>2. CASE tbl'[t] # tbl[t]
    <3>1. PICK u \in Tables : \E keys \in SUBSET Keys[PlanOf[b]][u] :
            /\ tbl' = [tbl EXCEPT ![u] = AppendKeys(tbl[u], PlanOf[b], keys, 0)]
            /\ \A x \in RunRows(tbl[u], PlanOf[b]) : x.key \notin keys
            /\ Filled(PlanOf[b]) => keys = {}
      BY <2>2, LandCovered
    <3>2. PICK keys \in SUBSET Keys[PlanOf[b]][u] :
            /\ tbl' = [tbl EXCEPT ![u] = AppendKeys(tbl[u], PlanOf[b], keys, 0)]
            /\ \A x \in RunRows(tbl[u], PlanOf[b]) : x.key \notin keys
            /\ Filled(PlanOf[b]) => keys = {}
      BY <3>1
    <3>3. u = t /\ tbl'[t] = AppendKeys(tbl[t], PlanOf[b], keys, 0)
      BY <1>p, <2>2, <3>2
    <3>4. OnceEach(tbl'[t]) /\ OwnKeys(tbl'[t], t)
      BY <1>0, <1>p, <3>2, <3>3, MergedOnce
    <3>5. ASSUME NEW q \in Plans
          PROVE  /\ RunRows(tbl[t], q) \subseteq RunRows(tbl'[t], q)
                 /\ Filled(q) => RunRows(tbl'[t], q) = RunRows(tbl[t], q)
      BY <1>0, <1>p, <3>2, <3>3, MergedRuns
    <3> QED BY <3>4, <3>5
  <2> QED BY <2>1, <2>2
<1>2. \A q \in Plans : Filled(q) => Filled(q)'
  BY <1>1 DEF Filled
<1> QED BY <1>1, <1>2

\* The base a driver of the cast "plans" read goes on to hold its plan's rows.
LEMMA CoveredStep ==
  ASSUME NEW b \in Builders, TypeInv, AtomicInv, DriverStep(b), cast = "plans",
         NEW c \in Builders, bld'[c].pc = "land"
  PROVE  Covered(tbl[TableOrder[bld[c].i]], c)'
<1>0. /\ bld \in [Builders -> Builder] /\ bld' = [bld EXCEPT ![b] = bld'[b]]
      /\ \A n \in 1..Len(TableOrder) : TableOrder[n] \in Tables
      /\ \A t \in Tables : tbl[t] \in Table /\ WellFormed(tbl[t])
      /\ \A p \in Builders : PlanOf[p] \in Plans
      /\ DOMAIN tbl = Tables
  BY BuildOK, GoldReleaseConstants DEF DriverStep, TypeInv, Tables
<1>1. CASE c = b
  <2>1. /\ tbl' = tbl /\ bld'[b].i = bld[b].i /\ bld[b].i \in 1..Len(TableOrder)
        /\ bld'[b].base = tbl[TableOrder[bld[b].i]].head
    BY <1>1, LandOnly DEF DriverStep
  <2>2. WellFormed(tbl[TableOrder[bld[b].i]])
    BY <1>0, <2>1
  <2> QED BY <1>1, <2>1, <2>2 DEF Covered, WellFormed, RunRows, RunRowsAt
<1>2. CASE c # b
  <2> DEFINE t == TableOrder[bld[c].i]
  <2>1. bld'[c] = bld[c]
    BY <1>0, <1>2
  <2>2. Covered(tbl[t], c) /\ t \in Tables /\ PlanOf[c] # PlanOf[b]
    <3>1. bld[c].i \in 1..Len(TableOrder) /\ c # "b" /\ Covered(tbl[t], c)
      BY <2>1 DEF AtomicInv, TypeInv, BuilderOK, Early
    <3>2. b # "b"
      BY DEF DriverStep
    <3> QED BY <1>0, <1>2, <3>1, <3>2, PlansApart
  <2> HIDE DEF t
  <2>3. CASE tbl'[t] = tbl[t]
    BY <2>1, <2>2, <2>3 DEF Covered, t
  <2>4. CASE tbl'[t] # tbl[t]
    <3>1. PICK u \in Tables : \E keys \in SUBSET Keys[PlanOf[b]][u] :
            tbl' = [tbl EXCEPT ![u] = AppendKeys(tbl[u], PlanOf[b], keys, 0)]
      BY <2>4, LandCovered
    <3>2. PICK keys \in SUBSET Keys[PlanOf[b]][u] :
            tbl' = [tbl EXCEPT ![u] = AppendKeys(tbl[u], PlanOf[b], keys, 0)]
      BY <3>1
    <3>3. u = t /\ tbl'[t] = AppendKeys(tbl[t], PlanOf[b], keys, 0)
      BY <1>0, <2>2, <2>4, <3>2
    <3>4. /\ Len(tbl'[t].snaps) = Len(tbl[t].snaps) + 1
          /\ \A i \in 0..Len(tbl[t].snaps) : RowsAt(tbl'[t], i) = RowsAt(tbl[t], i)
      BY <1>0, <2>2, <3>2, <3>3, AppendedRows
    <3>5. RunRows(tbl'[t], PlanOf[c]) = RunRows(tbl[t], PlanOf[c])
      BY <1>0, <2>2, <3>2, <3>3, MergedRuns
    <3>6. Len(tbl[t].snaps) \in Nat
      BY <1>0, <2>2 DEF Table
    <3>7. /\ bld[c].base \in 0..Len(tbl'[t].snaps)
          /\ RunRows(tbl'[t], PlanOf[c]) \subseteq RowsAt(tbl'[t], bld[c].base)
      BY <2>2, <3>4, <3>5, <3>6 DEF Covered
    <3> QED BY <2>1, <3>7 DEF Covered, t
  <2> QED BY <2>3, <2>4
<1> QED BY <1>1, <1>2

\* The counts stage_and_commit compares are those of a plan without a missing row.
LEMMA CountedIsFilled ==
  ASSUME TypeInv, AtomicInv, cast # "landing", NEW p \in Plans
  PROVE  (\A t \in Tables : Cardinality(RunRows(tbl[t], p)) = Expected(p, t)) <=> Filled(p)
<1>1. ASSUME NEW t \in Tables
      PROVE  Cardinality(RunRows(tbl[t], p)) = Expected(p, t)
               <=> Keys[p][t] \subseteq {x.key : x \in RunRows(tbl[t], p)}
  <2> DEFINE R == RunRows(tbl[t], p)
             K == Keys[p][t]
  <2>1. IsFiniteSet(K)
    BY GoldReleaseConstants
  <2>2. (\A x \in R : x.key \in K) /\ \A x, y \in R : x.key = y.key => x = y
    BY DEF AtomicInv, OnceEach, OwnKeys, RunRows, RunRowsAt, Rows
  <2> HIDE DEF R, K
  <2>3. Cardinality(R) = Cardinality(K) <=> K \subseteq {x.key : x \in R}
    BY <2>1, <2>2, KeyedCount
  <2> QED BY <2>3 DEF R, K, Expected
<1> QED BY <1>1 DEF Filled

\* Commits are of plans.
LEMMA CommittedPlans == ASSUME TypeInv, NEW p \in Committed PROVE p \in Plans
<1>1. PICK n \in DOMAIN commits : p = commits[n].plan
  BY DEF Committed
<1>2. commits \in Seq(CommitRow)
  BY DEF TypeInv
<1>3. commits[n] \in CommitRow
  BY <1>1, <1>2
<1> QED BY <1>1, <1>3 DEF CommitRow

\* A driver holds pins, and a commit is appended, only for a plan without a
\* missing row.
LEMMA AtomicStep ==
  ASSUME NEW b \in Builders, TypeInv, AtomicInv, DriverStep(b), cast # "landing"
  PROVE  AtomicInv'
<1>0. /\ bld \in [Builders -> Builder] /\ bld' = [bld EXCEPT ![b] = bld'[b]]
      /\ \A c \in Builders : PlanOf[c] \in Plans
      /\ (Build(b) \/ Crash(b)) /\ CommitStep(b) /\ cast' = cast
  BY BuildOK, GoldReleaseConstants DEF DriverStep, TypeInv
<1>1. \A t \in Tables : OnceEach(tbl'[t]) /\ OwnKeys(tbl'[t], t)
  BY DriverRows
<1>2. ASSUME cast = "plans", NEW c \in Builders
      PROVE  /\ c = "b" => bld'[c].pc = "idle"
             /\ bld'[c].pc = "land" => Covered(tbl[TableOrder[bld[c].i]], c)'
  <2>1. ASSUME c = "b" PROVE bld'[c].pc = "idle"
    <3>1. b # c
      BY <1>2, <2>1 DEF DriverStep
    <3> QED BY <1>0, <1>2, <2>1, <3>1 DEF AtomicInv
  <2>2. bld'[c].pc = "land" => Covered(tbl[TableOrder[bld[c].i]], c)'
    BY <1>2, CoveredStep
  <2> QED BY <2>1, <2>2
<1>3. ASSUME NEW c \in Builders, bld'[c].pc \in {"pin"} \cup Holding
      PROVE  Filled(PlanOf[c])'
  <2>1. CASE bld[c].pc \in {"pin"} \cup Holding
    <3>1. Filled(PlanOf[c])
      BY <2>1 DEF AtomicInv
    <3> QED BY <1>0, <3>1, DriverRows
  <2>2. CASE bld[c].pc \notin {"pin"} \cup Holding
    <3>1. c = b
      BY <1>0, <1>3, <2>2
    <3>2. bld'[b].pc = "pin" /\ CountTables(b)
      BY <1>0, <1>3, <2>2, <3>1, PinStep DEF Holding, PinSnapshots
    <3>3. \A t \in Tables : Cardinality(RunRows(tbl[t], PlanOf[b])) = Expected(PlanOf[b], t)
      BY <1>0, <3>2 DEF CountTables, Builder
    <3>4. Filled(PlanOf[b])
      BY <1>0, <3>3, CountedIsFilled
    <3> QED BY <1>0, <3>1, <3>4, DriverRows
  <2> QED BY <2>1, <2>2
<1>4. ASSUME NEW p \in Committed' PROVE Filled(p)'
  <2>1. p \in Plans /\ Filled(p)
    <3>1. CASE commits' = commits
      <4>1. p \in Committed
        BY <3>1, <1>4 DEF Committed
      <4> QED BY <4>1, CommittedPlans DEF AtomicInv
    <3>2. CASE bld[b].pc = "commit_land" /\ commits' = Append(commits, Mine(b))
      <4>1. commits \in Seq(CommitRow) /\ Mine(b) \in CommitRow
        BY MineType DEF TypeInv
      <4>2. p \in Committed \/ p = PlanOf[b]
        BY <1>4, <3>2, <4>1 DEF Committed, Mine
      <4>3. Filled(PlanOf[b])
        BY <3>2 DEF AtomicInv, Holding
      <4>4. CASE p \in Committed
        BY <4>4, CommittedPlans DEF AtomicInv
      <4> QED BY <1>0, <4>2, <4>3, <4>4
    <3> QED BY <1>0, <3>1, <3>2 DEF CommitStep
  <2> QED BY <2>1, DriverRows
<1>5. (cast = "plans" => \A c \in Builders :
          /\ c = "b" => bld[c].pc = "idle"
          /\ bld[c].pc = "land" => Covered(tbl[TableOrder[bld[c].i]], c))'
  BY <1>0, <1>2
<1>6. (\A t \in Tables : OnceEach(tbl[t]) /\ OwnKeys(tbl[t], t))'
  <2>1. \A T : (OnceEach(T)' <=> OnceEach(T)) /\ \A t : OwnKeys(T, t)' <=> OwnKeys(T, t)
    BY DEF OnceEach, OwnKeys
  <2> QED BY <1>1 DEF OnceEach, OwnKeys
<1> QED BY <1>3, <1>4, <1>5, <1>6 DEF AtomicInv

\* A step of a driver changes what readers see only by its commit, which adds a
\* release they see whole.
LEMMA ReleaseStep ==
  ASSUME NEW b \in Builders, TypeInv, AtomicInv, DriverStep(b), cast # "landing"
  PROVE  Atomic!Next \/ UNCHANGED VisibleReleases
<1> DEFINE Seen(p) == [t \in Tables |-> RunRows(tbl[t], p)]
           id == [plan |-> PlanOf[b], counts |-> [t \in Tables |-> Expected(PlanOf[b], t)]]
           Ids == {r \in ReleaseIds : r.plan \in Committed}
<1>0. /\ PlanOf[b] \in Plans /\ CommitStep(b)
      /\ \A q \in Committed : q \in Plans /\ Filled(q)
      /\ \A r \in ReleaseIds : r.plan \in Plans
  <2>1. \A q \in Committed : q \in Plans
    BY CommittedPlans
  <2>2. \A r \in ReleaseIds : r.plan \in Plans
    BY DEF ReleaseIds
  <2> QED BY <2>1, <2>2, BuildOK, GoldReleaseConstants DEF DriverStep, AtomicInv
<1>1. \A q \in Plans : Filled(q) => \A t \in Tables : RunRows(tbl'[t], q) = RunRows(tbl[t], q)
  BY DriverRows
<1>2. VisibleReleases = [r \in Ids |-> Seen(r.plan)]
  BY DEF VisibleReleases
<1>3. CASE Committed' = Committed
  <2>1. \A r \in Ids : \A t \in Tables : RunRows(tbl'[t], r.plan) = RunRows(tbl[t], r.plan)
    BY <1>0, <1>1
  <2>2. VisibleReleases' = [r \in Ids |-> [t \in Tables |-> RunRows(tbl'[t], r.plan)]]
    BY <1>3 DEF VisibleReleases
  <2>3. VisibleReleases' = [r \in Ids |-> [t \in Tables |-> RunRows(tbl[t], r.plan)]]
    BY <2>1, <2>2
  <2> QED BY <2>3 DEF VisibleReleases
<1>4. CASE Committed' # Committed
  <2>1. bld[b].pc = "commit_land" /\ commits' = Append(commits, Mine(b))
    BY <1>0, <1>4 DEF CommitStep, Committed
  <2>2. Committed' = Committed \cup {PlanOf[b]}
    <3>1. commits \in Seq(CommitRow) /\ Mine(b) \in CommitRow /\ Mine(b).plan = PlanOf[b]
      BY MineType DEF TypeInv, Mine
    <3>2. /\ DOMAIN commits' = DOMAIN commits \cup {Len(commits) + 1}
          /\ \A n \in DOMAIN commits : commits'[n] = commits[n]
          /\ commits'[Len(commits) + 1] = Mine(b)
      BY <2>1, <3>1
    <3>3. Committed' = {commits'[n].plan : n \in DOMAIN commits'}
      BY DEF Committed
    <3> QED BY <3>1, <3>2, <3>3 DEF Committed
  <2>3. Filled(PlanOf[b]) /\ PlanOf[b] \notin Committed
    BY <1>4, <2>1, <2>2 DEF AtomicInv, Holding
  <2>4. /\ id \in ReleaseIds /\ id \notin Ids
        /\ {r \in ReleaseIds : r.plan \in Committed'} = Ids \cup {id}
    BY <1>0, <2>2, <2>3 DEF ReleaseIds
  <2>5. \A r \in Ids \cup {id} : \A t \in Tables :
          RunRows(tbl'[t], r.plan) = RunRows(tbl[t], r.plan)
    BY <1>0, <1>1, <2>3
  <2> HIDE DEF Ids
  <2>6. VisibleReleases' = [r \in Ids \cup {id} |-> [t \in Tables |-> RunRows(tbl'[t], r.plan)]]
    BY <2>4 DEF VisibleReleases
  <2>7. VisibleReleases' = [r \in Ids \cup {id} |-> Seen(r.plan)]
    BY <2>5, <2>6
  <2>8. Atomic!Whole(id, VisibleReleases'[id])
    <3>1. \A t \in Tables : Cardinality(Seen(PlanOf[b])[t]) = id.counts[t]
      BY <1>0, <2>3, CountedIsFilled
    <3>2. VisibleReleases'[id] = Seen(PlanOf[b])
      BY <2>7
    <3>3. \A S : Atomic!Cardinality(S) = Cardinality(S)
      BY DEF Atomic!Cardinality, Cardinality
    <3> QED BY <3>1, <3>2, <3>3 DEF Atomic!Whole
  <2> HIDE DEF Seen, id
  <2>9. Atomic!PublishRun(id)
    BY <1>2, <2>4, <2>7, <2>8 DEF Atomic!PublishRun
  <2> QED BY <2>7, <2>9 DEF Atomic!Next
<1> QED BY <1>3, <1>4

\* Every step of every cast keeps the drivers' records well typed and, unless the
\* catalog lets a stale MERGE land, the rows of complete plans single and whole.
LEMMA AtomicInvariant == MCSpec => [](TypeInv /\ (cast # "landing" => AtomicInv))
<1>1. MCInit => TypeInv /\ (cast # "landing" => AtomicInv)
  <2> SUFFICES ASSUME MCInit PROVE TypeInv /\ AtomicInv
    OBVIOUS
  <2>1. TypeInv
    BY InitType DEF MCInit
  <2>2. /\ \A t \in Tables : Rows(tbl[t]) = {}
        /\ \A b \in Builders : bld[b].pc = "idle"
        /\ Committed = {}
    BY DEF MCInit, Init, Rows, RowsAt, EmptyTable, IdleBuilder, Committed
  <2> QED BY <2>1, <2>2 DEF AtomicInv, OnceEach, OwnKeys, Holding
<1>2. TypeInv /\ (cast # "landing" => AtomicInv) /\ [MCNext]_castVars
        => (TypeInv /\ (cast # "landing" => AtomicInv))'
  <2> SUFFICES ASSUME TypeInv, cast # "landing" => AtomicInv, [MCNext]_castVars
               PROVE  TypeInv' /\ (cast' # "landing" => AtomicInv')
    OBVIOUS
  <2>1. CASE \E b \in Builders : DriverStep(b)
    <3>1. PICK b \in Builders : DriverStep(b)
      BY <2>1
    <3>2. TypeInv'
      BY <3>1, BuildOK, TypeStep DEF DriverStep
    <3>3. cast' = cast
      BY <3>1 DEF DriverStep
    <3> QED BY <3>1, <3>2, <3>3, AtomicStep
  <2>2. CASE CommandStep \/ BuildStep \/ UNCHANGED castVars
    <3>1. UNCHANGED <<cast, drivers>>
      BY <2>2 DEF CommandStep, BuildStep, castVars
    <3>2. TypeInv'
      BY <3>1 DEF drivers, TypeInv
    <3>3. AtomicInv => AtomicInv'
      BY <3>1 DEF drivers, AtomicInv, Covered, Filled, Committed
    <3> QED BY <3>1, <3>2, <3>3
  <2> QED BY <2>1, <2>2 DEF MCNext
<1> QED BY <1>1, <1>2, PTL DEF MCSpec

\* Readers see a release appear in one step, whole and for good, for any drivers
\* of one plan when the catalog refuses a MERGE whose base moved, and for drivers
\* of different plans whatever it does with one.
THEOREM ReleasesStayAtomic == MCSpec => ReleasesAreAtomic
<1>1. (TypeInv /\ (cast # "landing" => AtomicInv)) /\ [MCNext]_castVars
        => [cast # "landing" => Atomic!Next \/ UNCHANGED VisibleReleases]_castVars
  <2> SUFFICES ASSUME TypeInv, cast # "landing", AtomicInv, MCNext
               PROVE  Atomic!Next \/ UNCHANGED VisibleReleases
    OBVIOUS
  <2>1. CASE \E b \in Builders : DriverStep(b)
    BY <2>1, ReleaseStep
  <2>2. CASE CommandStep \/ BuildStep
    <3>1. UNCHANGED drivers
      BY <2>2 DEF CommandStep, BuildStep
    <3> QED BY <3>1 DEF drivers, VisibleReleases, Committed
  <2> QED BY <2>1, <2>2 DEF MCNext
<1> QED BY <1>1, AtomicInvariant, PTL DEF MCSpec, ReleasesAreAtomic

\* The drivers of every cast run stage_and_commit as GoldRelease states it, so
\* what is proved of its specification holds of them.
THEOREM CastsRunDrivers == MCSpec => Spec
<1>1. MCInit => Init
  BY DEF MCInit
<1>2. [MCNext]_castVars => [Next]_vars
  BY DEF MCNext, DriverStep, CommandStep, BuildStep, castVars, drivers, vars, Next
<1> QED BY <1>1, <1>2, PTL DEF MCSpec, Spec
=============================================================================
