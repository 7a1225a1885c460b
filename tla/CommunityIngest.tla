--------------------------- MODULE CommunityIngest ---------------------------
(* CommunityCatalogTables.stage_and_commit: several submitters stage the     *)
(* rows of runs into Iceberg tables and publish one commit marker last.      *)
(*                                                                           *)
(* A submitter ("writer") is one Spark driver process; two of them may       *)
(* submit the same run, and each may die between any two catalog calls.  The *)
(* catalog offers only reads of one table and MERGEs; a MERGE evaluates its  *)
(* anti-join on the head it saw (ReadBase) and appends later (Land).         *)
EXTENDS OwnedSnapshots

CONSTANTS
  Writers,          \* submitter processes
  Runs,             \* runs as the planner names them
  RunOf,            \* the run each writer submits
  Mode,             \* "source", "full", "incremental" or "curation", by run
  Keys,             \* Keys[r][t]: logical keys of the rows of run r in table t
  TableOrder,       \* DATA_TABLE_COLUMNS in declaration order
  IdentityTables,   \* the tables a generation remaps
  RunScoped,        \* tables whose merge key includes run_id
  RunTable,         \* community_ingest_run
  StaleAppend       \* what a MERGE whose base moved may do: "lands", "raises"

Tables == {TableOrder[i] : i \in DOMAIN TableOrder}

\* A run_id digests the expected counts, so stripping keys names another run.
NaturalId(r) == [base |-> r, counts |-> [t \in Tables |-> Cardinality(Keys[r][t])]]

ASSUME IngestConstants ==
  /\ RunOf \in [Writers -> Runs]
  /\ \A r \in Runs : Keys[r] = [t \in Tables |-> Keys[r][t]]
  /\ Mode \in [Runs -> {"source", "full", "incremental", "curation"}]
  /\ TableOrder \in Seq(STRING)
  /\ IdentityTables \subseteq Tables
  /\ RunTable \notin Tables
  /\ StaleAppend \subseteq {"lands", "raises"}
  /\ \A r \in Runs, t \in Tables : IsFiniteSet(Keys[r][t])

VARIABLES
  tbl,      \* the Iceberg tables, the run manifest table among them
  markers,  \* community_ingest_commit: its rows, in commit order
  pins,     \* pinned Identity lineage and heads of each run, once planned
  wr        \* the state of each writer

vars == <<tbl, markers, pins, wr>>

NoPin == [planned |-> FALSE, heads |-> [t \in IdentityTables |-> 0], runs |-> {}]

Generation(r) == Mode[r] # "source"
Pinned(r) == Mode[r] \in {"incremental", "curation"}

IdleWriter(w) ==
  [pc |-> "idle", id |-> NaturalId(RunOf[w]), keys |-> Keys[RunOf[w]],
   foreign |-> FALSE, i |-> 1, journal |-> 0, base |-> 0,
   counts |-> [t \in Tables |-> 0], pin |-> [t \in Tables |-> 0]]

Init ==
  /\ tbl = [t \in Tables \cup {RunTable} |-> EmptyTable]
  /\ markers = <<>>
  /\ pins = [r \in Runs |-> NoPin]
  /\ wr = [w \in Writers |-> IdleWriter(w)]

MarkersOf(id) == {m \in DOMAIN markers : markers[m].run = id}
Committed == {markers[m].run : m \in DOMAIN markers}

Goto(w, pc) == wr' = [wr EXCEPT ![w].pc = pc]
ReadOnly == UNCHANGED <<tbl, markers, pins>>

\* ---------------------------------------------------------------- preparation

\* Mutant: the pinned head is the one before the current one.
PlanOffByOne(r) ==
  /\ Pinned(r) /\ ~pins[r].planned
  /\ pins' = [pins EXCEPT ![r] =
       [planned |-> TRUE,
        heads |-> [t \in IdentityTables |-> tbl[t].head - 1],
        runs |-> Committed]]
  /\ UNCHANGED <<tbl, markers, wr>>

\* ACTION Plan: the planner pins the current Identity heads and the committed
\* lineage that an incremental or curation run is computed from.
Plan(r) ==
  /\ Pinned(r) /\ ~pins[r].planned
  /\ pins' = [pins EXCEPT ![r] =
       [planned |-> TRUE,
        heads |-> [t \in IdentityTables |-> tbl[t].head],
        runs |-> Committed]]
  /\ UNCHANGED <<tbl, markers, wr>>

\* read_commit, then reuse, go on to "next", or fail on several markers.
ReadCommit(w, next) ==
  /\ LET found == Cardinality(MarkersOf(wr[w].id))
     IN  Goto(w, IF found = 0 THEN next ELSE IF found = 1 THEN "reuse" ELSE "failed")
  /\ ReadOnly

\* ACTION Start: create_tables and the first read_commit.
Start(w) ==
  /\ wr[w].pc = "idle"
  /\ Pinned(RunOf[w]) => pins[RunOf[w]].planned
  /\ ReadCommit(w, "preflight")

\* _assert_no_partial_run_state for one run id.
Partial(id) ==
  \E t \in Tables :
    \/ RunRows(tbl[t], id) # {}
    \/ tbl[t].head # 0 /\ tbl[t].snaps[tbl[t].head].run = id

\* assert_identity_tables_empty.
Pristine == \A t \in IdentityTables : tbl[t].head = 0 /\ Rows(tbl[t]) = {}

\* ACTION Preflight: partial-state refusal and, for a full generation, the
\* pristine-table check.
Preflight(w) ==
  /\ wr[w].pc = "preflight"
  /\ LET r == RunOf[w]
     IN  Goto(w, IF \/ Generation(r) /\ Partial(wr[w].id)
                    \/ Mode[r] = "full" /\ ~Pristine
                 THEN "failed"
                 ELSE IF Mode[r] = "incremental" THEN "strip" ELSE "guard")
  /\ ReadOnly

Owners(t, k) == {x.run : x \in {y \in Rows(tbl[t]) : y.key = k}}

\* Identity keys that the pinned lineage already owns, in table t.
Reusable(w, t) ==
  {k \in wr[w].keys[t] :
     t \in IdentityTables /\ Owners(t, k) \cap pins[RunOf[w]].runs # {}}

\* ACTION Strip: drop the keys of the pinned lineage, note foreign owners, and
\* rename the run when its counts changed.
Strip(w) ==
  /\ wr[w].pc = "strip"
  /\ LET kept == [t \in Tables |-> wr[w].keys[t] \ Reusable(w, t)]
         id == [base |-> RunOf[w], counts |-> [t \in Tables |-> Cardinality(kept[t])]]
         foreign == \E t \in IdentityTables : \E k \in wr[w].keys[t] :
                      ~ (Owners(t, k) \subseteq pins[RunOf[w]].runs)
     IN  wr' = [wr EXCEPT ![w] =
           [@ EXCEPT !.keys = kept, !.id = id, !.foreign = foreign,
                     !.pc = IF id = wr[w].id THEN "guard" ELSE "recheck"]]
  /\ ReadOnly

\* ACTION Recheck: a renamed run may already be committed; a renamed run with
\* partial state is refused like the original one.
Recheck(w) ==
  /\ wr[w].pc = "recheck"
  /\ IF MarkersOf(wr[w].id) = {} /\ Partial(wr[w].id)
       THEN Goto(w, "failed") /\ ReadOnly
       ELSE ReadCommit(w, "guard")

\* Mutant: the pinned heads are not compared.
GuardWithoutHeads(w) ==
  /\ wr[w].pc = "guard"
  /\ LET collides == \E t \in IdentityTables : \E x \in Rows(tbl[t]) : x.key \in wr[w].keys[t]
     IN  Goto(w, IF wr[w].foreign \/ collides THEN "failed" ELSE "manifest")
  /\ ReadOnly

\* ACTION Guard: pinned heads must be current, no key may have a foreign owner
\* and no Identity key may exist.
Guard(w) ==
  /\ wr[w].pc = "guard"
  /\ LET r == RunOf[w]
         stale == Pinned(r) /\ \E t \in IdentityTables : tbl[t].head # pins[r].heads[t]
         collides == \E t \in IdentityTables : \E x \in Rows(tbl[t]) : x.key \in wr[w].keys[t]
     IN  Goto(w, IF stale \/ wr[w].foreign \/ collides THEN "failed" ELSE "manifest")
  /\ ReadOnly

\* ----------------------------------------------------- run manifest and tables

\* ACTION EnsureManifest: keep a stored manifest, otherwise journal the head of
\* the run table and go on to its MERGE.
EnsureManifest(w) ==
  /\ wr[w].pc = "manifest"
  /\ wr' = [wr EXCEPT ![w] =
       IF RunRows(tbl[RunTable], @.id) # {}
       THEN [@ EXCEPT !.pc = "stage"]
       ELSE [@ EXCEPT !.pc = "mbase", !.journal = tbl[RunTable].head]]
  /\ ReadOnly

Table(w) == TableOrder[wr[w].i]
Expected(w) == wr[w].id.counts[Table(w)]
Count(w, t) == Cardinality(RunRows(tbl[t], wr[w].id))

\* _verify_completed_table: the run has all its rows, in one owned snapshot.
Complete(w, t, n) == Count(w, t) = n /\ n > 0 /\ Found(tbl[t], wr[w].id, n)

NextTable(w) == wr' = [wr EXCEPT ![w].pc = "stage", ![w].i = @ + 1]

\* Mutant: rows left by an earlier submitter are always refused.
StageNoReuse(w) ==
  /\ wr[w].pc = "stage" /\ wr[w].i <= Len(TableOrder)
  /\ Goto(w, IF Count(w, Table(w)) = 0 THEN "confirm" ELSE "failed")
  /\ ReadOnly

\* ACTION Stage: count the rows of the run in the next table; complete rows are
\* kept, a partial or inexact table is an error.
Stage(w) ==
  /\ wr[w].pc = "stage" /\ wr[w].i <= Len(TableOrder)
  /\ \/ Complete(w, Table(w), Expected(w)) /\ NextTable(w)
     \/ Count(w, Table(w)) = 0 /\ Goto(w, "confirm")
     \/ /\ Count(w, Table(w)) # 0
        /\ ~Complete(w, Table(w), Expected(w))
        /\ Goto(w, "failed")
  /\ ReadOnly

\* ACTION Confirm: no snapshot of the run may exist unless a concurrent winner
\* completed the table; then journal the parent of the coming MERGE.
Confirm(w) ==
  /\ wr[w].pc = "confirm"
  /\ LET t == Table(w)
     IN  IF Found(tbl[t], wr[w].id, 0)
         THEN IF Expected(w) = 0
              THEN NextTable(w)
              ELSE wr' = [wr EXCEPT ![w] =
                            [@ EXCEPT !.pc = "base", !.journal = tbl[t].head]]
         ELSE IF Complete(w, t, Expected(w)) THEN NextTable(w) ELSE Goto(w, "failed")
  /\ ReadOnly

\* ------------------------------------------------------------------------ MERGE

\* The table a merge phase is about.
Target(w) == IF wr[w].pc \in {"mbase", "mland"} THEN RunTable ELSE Table(w)

\* ACTION ReadBase: the MERGE evaluates NOT MATCHED on the head it reads.
ReadBase(w) ==
  /\ wr[w].pc \in {"mbase", "base"}
  /\ wr' = [wr EXCEPT ![w] =
       [@ EXCEPT !.base = tbl[Target(w)].head,
                 !.pc = IF wr[w].pc = "mbase" THEN "mland" ELSE "land"]]
  /\ ReadOnly

\* Mutant: INSERT instead of MERGE.
InsertAll(w) == IF Target(w) = RunTable THEN {RunTable} ELSE wr[w].keys[Table(w)]

\* Keys the MERGE inserts: those that do not match a row of the base.  The run
\* table is keyed by run_id itself.
Unmatched(w) ==
  LET t == Target(w)
      seen == RowsAt(tbl[t], wr[w].base)
  IN  IF t = RunTable
        THEN IF RunRowsAt(tbl[t], wr[w].base, wr[w].id) = {} THEN {RunTable} ELSE {}
        ELSE {k \in wr[w].keys[t] :
                ~ \E x \in seen : x.key = k /\ (t \in RunScoped => x.run = wr[w].id)}

MergeDone(w, ok) ==
  Goto(w, IF wr[w].pc = "mland" THEN (IF ok THEN "mok" ELSE "merr")
                                ELSE (IF ok THEN "ok" ELSE "err"))

\* ACTION Land: the append reaches the catalog.  The driver may still see an
\* exception (the acknowledgement is lost).
Land(w, ok) ==
  /\ wr[w].pc \in {"mland", "land"}
  /\ LET t == Target(w)
     IN  /\ tbl[t].head # wr[w].base => "lands" \in StaleAppend
         /\ tbl' = [tbl EXCEPT ![t] =
                      AppendKeys(@, wr[w].id, Unmatched(w), wr[w].journal)]
  /\ MergeDone(w, ok)
  /\ UNCHANGED <<markers, pins>>

\* ACTION Raise: the MERGE fails and leaves the table alone.
Raise(w) ==
  /\ wr[w].pc \in {"mland", "land"}
  /\ MergeDone(w, FALSE)
  /\ ReadOnly

\* ACTION SettleManifest: after a MERGE of the run table, the stored manifest
\* decides.
SettleManifest(w) ==
  /\ wr[w].pc \in {"mok", "merr"}
  /\ Goto(w, IF Cardinality(RunRows(tbl[RunTable], wr[w].id)) = 1 THEN "stage" ELSE "failed")
  /\ ReadOnly

\* ACTION Settle: after the MERGE of a data table, or its exception, the run's
\* rows must be complete in one owned snapshot.
Settle(w) ==
  /\ wr[w].pc \in {"ok", "err"}
  /\ IF Complete(w, Table(w), Expected(w)) THEN NextTable(w) ELSE Goto(w, "failed")
  /\ ReadOnly

\* ------------------------------------------------------------------ publication

\* ACTION CountTables: actual per-run counts must equal the run manifest.
CountTables(w) ==
  /\ wr[w].pc = "stage" /\ wr[w].i > Len(TableOrder)
  /\ LET actual == [t \in Tables |-> Count(w, t)]
     IN  wr' = [wr EXCEPT ![w] =
           IF actual = wr[w].id.counts
           THEN [@ EXCEPT !.counts = actual, !.pc = "pin"]
           ELSE [@ EXCEPT !.pc = "failed"]]
  /\ ReadOnly

\* Mutant: the latest snapshots are recorded, whoever committed them.
PinHeads(w) ==
  /\ wr[w].pc = "pin"
  /\ wr' = [wr EXCEPT ![w] = [@ EXCEPT !.pin = [t \in Tables |-> tbl[t].head], !.pc = "pbase"]]
  /\ ReadOnly

\* ACTION PinSnapshots: record the owned snapshot of every table.
PinSnapshots(w) ==
  /\ wr[w].pc = "pin"
  /\ \/ \E pin \in [Tables -> (UNION {Snapshots(tbl[t]) : t \in Tables}) \cup {0}] :
          /\ \A t \in Tables : FoundOwned(tbl[t], wr[w].id, wr[w].counts[t], pin[t])
          /\ wr' = [wr EXCEPT ![w] = [@ EXCEPT !.pin = pin, !.pc = "pbase"]]
     \/ /\ \E t \in Tables : ~Found(tbl[t], wr[w].id, wr[w].counts[t])
        /\ Goto(w, "failed")
  /\ ReadOnly

\* ACTION ReadMarkerBase: the MERGE of the commit marker reads the commit table.
ReadMarkerBase(w) ==
  /\ wr[w].pc = "pbase"
  /\ wr' = [wr EXCEPT ![w] = [@ EXCEPT !.base = Len(markers), !.pc = "publish"]]
  /\ ReadOnly

\* Mutant: the marker is inserted without looking for an earlier one.
PublishBlindly(w, ok) ==
  /\ wr[w].pc = "publish"
  /\ Len(markers) # wr[w].base => "lands" \in StaleAppend
  /\ markers' = Append(markers, [run |-> wr[w].id, counts |-> wr[w].counts,
                                 pin |-> wr[w].pin])
  /\ Goto(w, IF ok THEN "verify" ELSE "verify_err")
  /\ UNCHANGED <<tbl, pins>>

\* ACTION Publish: append the marker unless the base already held one.
Publish(w, ok) ==
  /\ wr[w].pc = "publish"
  /\ Len(markers) # wr[w].base => "lands" \in StaleAppend
  /\ markers' = IF \E m \in 1..wr[w].base : markers[m].run = wr[w].id
                THEN markers
                ELSE Append(markers, [run |-> wr[w].id, counts |-> wr[w].counts,
                                      pin |-> wr[w].pin])
  /\ Goto(w, IF ok THEN "verify" ELSE "verify_err")
  /\ UNCHANGED <<tbl, pins>>

\* ACTION PublishRaises: the marker MERGE fails without effect.
PublishRaises(w) ==
  /\ wr[w].pc = "publish"
  /\ Goto(w, "verify_err")
  /\ ReadOnly

\* ACTION Verify: read the marker back; an equal marker ends the call unless
\* the MERGE raised, any other single marker is reused.
Verify(w) ==
  /\ wr[w].pc \in {"verify", "verify_err"}
  /\ LET found == MarkersOf(wr[w].id)
         mine == [run |-> wr[w].id, counts |-> wr[w].counts, pin |-> wr[w].pin]
     IN  Goto(w, IF Cardinality(found) # 1 THEN "failed"
                 ELSE IF wr[w].pc = "verify" /\ \A m \in found : markers[m] = mine
                      THEN "done" ELSE "reuse")
  /\ ReadOnly

\* ACTION Reuse: _reuse_existing_commit checks counts and the stored manifest.
Reuse(w) ==
  /\ wr[w].pc = "reuse"
  /\ Goto(w, IF /\ \A m \in MarkersOf(wr[w].id) : markers[m].counts = wr[w].id.counts
                /\ Cardinality(RunRows(tbl[RunTable], wr[w].id)) = 1
             THEN "done" ELSE "failed")
  /\ ReadOnly

Stopped == {"done", "failed", "dead"}

\* ACTION Crash: the driver dies; whatever it wrote stays.
Crash(w) ==
  /\ wr[w].pc \notin Stopped \cup {"idle"}
  /\ Goto(w, "dead")
  /\ ReadOnly

Advance(w) ==
  \/ Start(w) \/ Preflight(w) \/ Strip(w) \/ Recheck(w) \/ Guard(w)
  \/ EnsureManifest(w) \/ Stage(w) \/ Confirm(w) \/ ReadBase(w)
  \/ \E ok \in BOOLEAN : Land(w, ok) \/ Publish(w, ok)
  \/ Raise(w) \/ SettleManifest(w) \/ Settle(w)
  \/ CountTables(w) \/ PinSnapshots(w) \/ ReadMarkerBase(w)
  \/ PublishRaises(w) \/ Verify(w) \/ Reuse(w)

Next == (\E r \in Runs : Plan(r)) \/ (\E w \in Writers : Advance(w) \/ Crash(w))

Spec == Init /\ [][Next]_vars
=============================================================================
