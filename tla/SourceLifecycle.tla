---------------------------- MODULE SourceLifecycle ----------------------------
(* What the committed source batches say at an instant: source_lifecycle.py.    *)
(* A batch is one committed SOURCE_ASSERTIONS run.  Operators take the set of    *)
(* batches a resolver reads, which for an incremental run are the unprocessed    *)
(* ones only (run_id_filters, research_silver_cli.py).                           *)
EXTENDS Integers, FiniteSetsExt

CONSTANT
  Batches   \* Seq of [scope, full, at, rows]: a row is [rec, op, at, until, says]

Never == 1000   \* a record without valid_to and expires_at

Rows(b) == Batches[b].rows
Recs(b) == {r.rec : r \in {x \in Rows(b) : x.op = "UPSERT"}}
Before(a, b) == Batches[a].at < Batches[b].at \/ (Batches[a].at = Batches[b].at /\ a < b)

-----------------------------------------------------------------------------
\* FULL_SNAPSHOT, COMPLETE, SNAPSHOT_DIFF batches of the coverage of b before it.
EarlierSnapshots(D, b) ==
  {a \in D : Batches[a].full /\ Batches[a].scope = Batches[b].scope /\ Before(a, b)}

Previous(D, b) ==
  CHOOSE a \in EarlierSnapshots(D, b) :
    \A c \in EarlierSnapshots(D, b) : c = a \/ Before(c, a)

\* A baseline snapshot may have no other batch of its coverage before it.
Readable(D) ==
  \A b \in D : Batches[b].full /\ EarlierSnapshots(D, b) = {} =>
    ~\E a \in D \ {b} :
       Batches[a].scope = Batches[b].scope /\ Batches[a].at <= Batches[b].at

\* The records of the interval since the snapshot before that b does not hold.
Missing(D, b) ==
  IF ~Batches[b].full \/ EarlierSnapshots(D, b) = {} THEN {}
  ELSE UNION {Recs(a) : a \in {c \in D :
         /\ Batches[c].scope = Batches[b].scope
         /\ Batches[c].at >= Batches[Previous(D, b)].at
         /\ Batches[c].at < Batches[b].at}}
       \ Recs(b)

\* Each row of a batch, and the inferred absence of each missing record.
Events(D) ==
  UNION {{[rec |-> r.rec, op |-> r.op, at |-> r.at, until |-> r.until,
           batch |-> b, says |-> r.says] : r \in Rows(b)} : b \in D}
  \cup UNION {{[rec |-> m, op |-> "INFERRED_ABSENCE", at |-> Batches[b].at,
                until |-> Never, batch |-> b, says |-> <<>>] : m \in Missing(D, b)} : b \in D}

\* The order of latest_source_record_states: at one instant an absence is later
\* than an upsert, then the later batch.
Later(e, f) ==
  \/ e.at > f.at
  \/ e.at = f.at /\ e.op # "UPSERT" /\ f.op = "UPSERT"
  \/ e.at = f.at /\ (e.op = "UPSERT") = (f.op = "UPSERT") /\ e.batch > f.batch

Latest(D, now) ==
  LET E == {e \in Events(D) : e.at <= now}
  IN  {e \in E : \A f \in E : f.rec = e.rec => f = e \/ Later(e, f)}

\* What is asserted by the envelopes whose record is an active upsert.
CurrentRows(D, now) ==
  {[says |-> e.says, at |-> e.at] : e \in {x \in Latest(D, now) : x.op = "UPSERT" /\ x.until > now}}

\* Records that were deleted, expired or inferred absent, with the time of it.
Inactive(D, now) == {e \in Latest(D, now) : e.op # "UPSERT" \/ e.until <= now}

\* The source nodes any envelope of a record in D has asserted something about.
NodesOf(D, rec) ==
  {r.says.node : r \in {x \in UNION {Rows(b) : b \in D} : x.rec = rec /\ x.op = "UPSERT"}}
=============================================================================
