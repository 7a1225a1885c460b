--------------------------- MODULE OwnedSnapshots ---------------------------
(* The snapshot history of one Iceberg table, and how iceberg.py finds in it *)
(* the one snapshot that a run (or a Gold release) owns.                     *)
(*                                                                           *)
(* A table is a record: "snaps" holds every snapshot ever committed, in      *)
(* commit order (a snapshot's identifier is its index), and "head" is the    *)
(* current one, 0 when the table has none.  A snapshot carries its parent,   *)
(* the run named by its run property, the parent its writer journalled, the  *)
(* run named by a failed-run rollback marker, its complete rows, and "anc",  *)
(* the chain of its ancestors and itself.  A row keeps the identity of the   *)
(* snapshot that added it, so that two copies of one logical row differ.     *)
EXTENDS Integers, FiniteSets, Sequences

CONSTANTS NoRun     \* absence of a run in a snapshot property

EmptyTable == [snaps |-> <<>>, head |-> 0]

Snapshots(T) == DOMAIN T.snaps

\* Rows and ancestors of snapshot i; snapshot 0 stands for "no snapshot".
RowsAt(T, i) == IF i = 0 THEN {} ELSE T.snaps[i].rows
AncestorsAt(T, i) == IF i = 0 THEN {} ELSE T.snaps[i].anc

Rows(T) == RowsAt(T, T.head)
RunRowsAt(T, i, r) == {x \in RowsAt(T, i) : x.run = r}
RunRows(T, r) == RunRowsAt(T, T.head, r)

\* Commit one snapshot on the current head, whatever its writer believed.
Commit(T, r, journal, undo, rows) ==
  LET sid == Len(T.snaps) + 1
  IN  [snaps |-> Append(T.snaps,
                   [parent |-> T.head, run |-> r, journal |-> journal,
                    undo |-> undo, rows |-> rows,
                    anc |-> AncestorsAt(T, T.head) \cup {sid}]),
       head |-> sid]

\* The append an insert-only MERGE ends in: one new row for every key.
AppendKeys(T, r, keys, journal) ==
  LET sid == Len(T.snaps) + 1
  IN  Commit(T, r, journal, NoRun,
             Rows(T) \cup {[run |-> r, key |-> k, sid |-> sid] : k \in keys})

\* Snapshots tagged with the run after its last rollback marker, still on the
\* current chain, that do contain rows of the run.
ActiveOwned(T, r) ==
  {i \in Snapshots(T) :
     /\ T.snaps[i].run = r
     /\ i \in AncestorsAt(T, T.head)
     /\ \A j \in Snapshots(T) : T.snaps[j].undo = r => j < i
     /\ RunRowsAt(T, i, r) # {}}

\* Rows of snapshot i that its parent does not have, by key and run.
Additions(T, i) ==
  {x \in T.snaps[i].rows :
     ~ \E y \in RowsAt(T, T.snaps[i].parent) : y.key = x.key /\ y.run = x.run}

\* What find_owned_snapshot_id verifies of the one candidate it accepts.
OwnsExactly(T, i, r, n) ==
  /\ Cardinality(RunRowsAt(T, i, r)) = n
  /\ RunRowsAt(T, T.snaps[i].parent, r) = {}
  /\ Cardinality(Additions(T, i)) = n
  /\ \A x \in Additions(T, i) : x.run = r

\* find_owned_snapshot_id succeeds: with snapshot 0 for "None" when no row is
\* expected, otherwise with the only owned snapshot.
FoundOwned(T, r, n, i) ==
  IF n = 0 THEN ActiveOwned(T, r) = {} /\ i = 0
           ELSE ActiveOwned(T, r) = {i} /\ OwnsExactly(T, i, r, n)

Found(T, r, n) == \E i \in Snapshots(T) \cup {0} : FoundOwned(T, r, n, i)
=============================================================================
