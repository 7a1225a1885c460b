----------------------------- MODULE AtomicRuns -----------------------------
(* What readers of the Silver tables are promised: a run becomes visible in  *)
(* one step, with all the rows its manifest declares, and stays as it is.    *)
EXTENDS Integers, FiniteSets

CONSTANTS RunIds,    \* run identities; each declares its row counts
          RowTables  \* data tables

VARIABLE visible     \* run identity -> table -> rows, for visible runs

Init == visible = [id \in {} |-> {}]

Whole(id, rows) ==
  /\ DOMAIN rows = RowTables
  /\ \A t \in RowTables : Cardinality(rows[t]) = id.counts[t]

PublishRun(id) ==
  /\ id \notin DOMAIN visible
  /\ DOMAIN visible' = DOMAIN visible \cup {id}
  /\ \A other \in DOMAIN visible : visible'[other] = visible[other]
  /\ Whole(id, visible'[id])

Next == \E id \in DOMAIN visible' : PublishRun(id)

Spec == Init /\ [][Next]_visible
=============================================================================
