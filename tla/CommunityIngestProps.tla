------------------------ MODULE CommunityIngestProps ------------------------
(* What the commit marker of CommunityIngest promises.                       *)
EXTENDS CommunityIngest

RunId == [base : Runs, counts : [Tables -> Nat]]
AnyKey == {RunTable} \cup UNION {Keys[r][t] : r \in Runs, t \in Tables}
Row == [run : RunId, key : AnyKey, sid : Nat]
Snapshot == [parent : Nat, run : RunId \cup {NoRun}, journal : Nat,
             undo : RunId \cup {NoRun}, rows : SUBSET Row, anc : SUBSET Nat]
TableType == [snaps : Seq(Snapshot), head : Nat]
Marker == [run : RunId, counts : [Tables -> Nat], pin : [Tables -> Nat]]
Pin == [planned : BOOLEAN, heads : [IdentityTables -> Nat], runs : SUBSET RunId]
Phases ==
  {"idle", "preflight", "strip", "recheck", "guard", "manifest", "mbase", "mland",
   "mok", "merr", "stage", "confirm", "base", "land", "ok", "err", "pin", "pbase",
   "publish", "verify", "verify_err", "reuse", "done", "failed", "dead"}
Writer ==
  [pc : Phases, id : RunId, keys : [Tables -> SUBSET AnyKey], foreign : BOOLEAN,
   i : Nat \ {0}, journal : Nat, base : Nat,
   counts : [Tables -> Nat], pin : [Tables -> Nat]]

\* A snapshot's parent is older, the head exists.
WellFormed(T) ==
  /\ T.head <= Len(T.snaps)
  /\ \A i \in Snapshots(T) : T.snaps[i].parent < i

\* TypeOK: what stage_and_commit passes between its catalog calls, and the
\* snapshot history it leaves, stay in range.
TypeOK ==
  /\ tbl \in [Tables \cup {RunTable} -> TableType]
  /\ \A t \in Tables \cup {RunTable} : WellFormed(tbl[t])
  /\ markers \in Seq(Marker)
  /\ pins \in [Runs -> Pin]
  /\ wr \in [Writers -> Writer]
  /\ \A w \in Writers : \A t \in Tables : IsFiniteSet(wr[w].keys[t])
  /\ \A w \in Writers : wr[w].pc \in {"confirm", "base", "land", "ok", "err"} =>
       wr[w].i <= Len(TableOrder)

\* Every marker pins, for every table, a snapshot that added exactly the rows
\* the run manifest declares (stage_and_commit writes the marker only after
\* find_owned_snapshot_id verified each table).
MarkerPinsExactRows ==
  \A m \in DOMAIN markers :
    /\ markers[m].counts = markers[m].run.counts
    /\ \A t \in Tables :
         IF markers[m].run.counts[t] = 0
         THEN markers[m].pin[t] = 0
         ELSE /\ markers[m].pin[t] \in Snapshots(tbl[t])
              /\ OwnsExactly(tbl[t], markers[m].pin[t], markers[m].run, markers[m].run.counts[t])

\* At the current head of every table, a committed run has each of its logical
\* keys exactly once: readers that join the head with the commit table (Run
\* visibility in community_catalog_silver.v2.md) see the run whole.
CommittedRowsExact ==
  \A id \in Committed, t \in Tables :
    LET rows == RunRows(tbl[t], id)
    IN  /\ Cardinality(rows) = id.counts[t]
        /\ \A x, y \in rows : x.key = y.key => x = y

\* A run has at most one commit marker, so read_commit never raises "one
\* community run has multiple commit markers".
OneMarkerPerRun == \A id \in Committed : Cardinality(MarkersOf(id)) = 1

\* Rows below one table snapshot that belong to other runs.
OtherRows(t, i, id) == {x \in RowsAt(tbl[t], i) : x.run # id}

\* A committed full generation holds only its own rows, and an incremental or
\* curation run sits directly on the lineage it pinned: nothing that came in
\* between is below its Identity snapshots (assert_identity_tables_empty and
\* assert_identity_snapshot_heads).
IdentityOnPinnedLineage ==
  \A m \in DOMAIN markers :
    LET id == markers[m].run
    IN  \A t \in IdentityTables :
          id.counts[t] > 0 =>
            /\ Mode[id.base] = "full" => OtherRows(t, markers[m].pin[t], id) = {}
            /\ Pinned(id.base) =>
                 OtherRows(t, markers[m].pin[t], id) = RowsAt(tbl[t], pins[id.base].heads[t])

\* The rows a reader finds for each committed run at the current heads.
VisibleRows == [id \in Committed |-> [t \in Tables |-> RunRows(tbl[t], id)]]

Atomic == INSTANCE AtomicRuns
            WITH RunIds <- RunId, RowTables <- Tables, visible <- VisibleRows

\* Staging and publication implement atomic visibility: a reader that joins the
\* heads with the commit table sees each run appear once, whole and for good.
RefinesAtomicRuns == Atomic!Spec

\* ------------------------------------------------------------------- scheduling

\* One Identity submitter at a time: the golden workflow and the operator
\* commands run Identity drivers one after the other in a generation.
Running(w) == wr[w].pc \notin Stopped \cup {"idle"}
Fenced(w) == \A v \in Writers \ {w} : Running(v) => ~Generation(RunOf[v])
=============================================================================
