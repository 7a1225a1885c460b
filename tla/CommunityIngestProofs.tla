------------------------ MODULE CommunityIngestProofs ------------------------
(* The submitters of an ingest: type correctness, the proof that a commit     *)
(* marker pins exactly the rows of its run, for any number of submitters,     *)
(* runs and tables and whatever a stale MERGE does, and, with a catalog that  *)
(* refuses stale appends, that a run has one commit marker and that staging   *)
(* and publication implement AtomicRuns.  Identity runs and the rollback of a *)
(* failed one: a committed run sits on the lineage it pinned, and a rollback  *)
(* removes rows of its run only, the manifest last.                           *)
EXTENDS FailedRunRollback, CommunityIngestProps, FiniteSetTheorems, WellFoundedInduction, TLAPS

\* A snapshot appended to a table leaves a well-typed, well-formed table
\* (AppendKeys is the only way stage_and_commit changes a table).
LEMMA AppendKeysType ==
  ASSUME NEW T \in TableType, WellFormed(T), NEW id \in RunId,
         NEW keys \in SUBSET AnyKey, NEW journal \in Nat
  PROVE  /\ AppendKeys(T, id, keys, journal) \in TableType
         /\ WellFormed(AppendKeys(T, id, keys, journal))
<1> DEFINE sid == Len(T.snaps) + 1
           added == {[run |-> id, key |-> k, sid |-> sid] : k \in keys}
           rows == Rows(T) \cup added
           snap == [parent |-> T.head, run |-> id, journal |-> journal,
                    undo |-> NoRun, rows |-> rows,
                    anc |-> AncestorsAt(T, T.head) \cup {sid}]
           new == [snaps |-> Append(T.snaps, snap), head |-> sid]
<1>1. AppendKeys(T, id, keys, journal) = new
  BY DEF AppendKeys, Commit
<1>2. T.snaps \in Seq(Snapshot) /\ T.head \in Nat /\ Len(T.snaps) \in Nat /\ sid \in Nat
  BY DEF TableType
<1>3. T.head # 0 => T.snaps[T.head] \in Snapshot
  BY <1>2 DEF WellFormed, Snapshots
<1>4. rows \in SUBSET Row
  <2>1. Rows(T) \in SUBSET Row
    BY <1>3 DEF Rows, RowsAt, Snapshot
  <2>2. added \in SUBSET Row
    BY <1>2 DEF Row
  <2> QED BY <2>1, <2>2
<1>5. AncestorsAt(T, T.head) \cup {sid} \in SUBSET Nat
  BY <1>2, <1>3 DEF AncestorsAt, Snapshot
<1>6. snap \in Snapshot
  BY <1>2, <1>4, <1>5 DEF Snapshot
<1> HIDE DEF snap, sid, rows
<1>7. new \in TableType
  BY <1>2, <1>6 DEF TableType
<1>8. WellFormed(new)
  <2>1. /\ Len(new.snaps) = Len(T.snaps) + 1
        /\ new.snaps[Len(T.snaps) + 1] = snap
        /\ \A i \in 1..Len(T.snaps) : new.snaps[i] = T.snaps[i]
    BY <1>2, <1>6
  <2>2. snap.parent = T.head /\ T.head < sid /\ new.head = Len(T.snaps) + 1
    BY <1>2 DEF snap, sid, WellFormed
  <2>3. \A i \in 1..Len(T.snaps) : T.snaps[i].parent < i
    BY <1>2 DEF WellFormed, Snapshots
  <2>4. DOMAIN new.snaps = 1..(Len(T.snaps) + 1)
    BY <2>1, <1>2, <1>6
  <2>5. \A i \in DOMAIN new.snaps : new.snaps[i].parent < i
    BY <2>1, <2>2, <2>3, <2>4, <1>2 DEF sid
  <2> QED BY <2>1, <2>2, <2>5, <1>2 DEF WellFormed, Snapshots, sid
<1> QED BY <1>1, <1>7, <1>8

\* What find_owned_snapshot_id verified of a snapshot stays true when another
\* snapshot is appended: snapshots are immutable.
LEMMA OwnsExactlyStable ==
  ASSUME NEW T \in TableType, WellFormed(T), NEW id \in RunId,
         NEW keys \in SUBSET AnyKey, NEW journal \in Nat,
         NEW i \in Snapshots(T), NEW owner, NEW n, OwnsExactly(T, i, owner, n)
  PROVE  LET U == AppendKeys(T, id, keys, journal)
         IN  i \in Snapshots(U) /\ OwnsExactly(U, i, owner, n)
<1> DEFINE U == AppendKeys(T, id, keys, journal)
<1>1. PICK snap : U.snaps = Append(T.snaps, snap)
  BY DEF AppendKeys, Commit
<1>2. T.snaps \in Seq(Snapshot) /\ U.snaps \in Seq(Snapshot)
  BY AppendKeysType DEF TableType
<1>3. \A j \in Snapshots(T) : j \in Snapshots(U) /\ U.snaps[j] = T.snaps[j]
  BY <1>1, <1>2 DEF Snapshots
<1> HIDE DEF U
<1>4. i \in Nat /\ T.snaps[i].parent \in Nat /\ T.snaps[i].parent < i /\ i <= Len(T.snaps)
  <2>1. i \in 1..Len(T.snaps) /\ T.snaps[i] \in Snapshot
    BY <1>2 DEF Snapshots
  <2>2. T.snaps[i].parent \in Nat
    BY <2>1 DEF Snapshot
  <2>3. T.snaps[i].parent < i
    BY DEF WellFormed
  <2> QED BY <2>1, <2>2, <2>3
<1>5. T.snaps[i].parent # 0 => T.snaps[i].parent \in Snapshots(T)
  BY <1>2, <1>4 DEF Snapshots
<1>6. RowsAt(U, U.snaps[i].parent) = RowsAt(T, T.snaps[i].parent)
  BY <1>3, <1>5 DEF RowsAt
<1>7. RowsAt(U, i) = RowsAt(T, i)
  BY <1>3, <1>4 DEF RowsAt
<1>8. /\ RunRowsAt(U, i, owner) = RunRowsAt(T, i, owner)
      /\ RunRowsAt(U, U.snaps[i].parent, owner) = RunRowsAt(T, T.snaps[i].parent, owner)
      /\ Additions(U, i) = Additions(T, i)
  BY <1>3, <1>6, <1>7 DEF RunRowsAt, Additions
<1>9. OwnsExactly(U, i, owner, n)
  BY <1>8 DEF OwnsExactly
<1> QED BY <1>3, <1>9 DEF U

\* ------------------------------------------------------------ type correctness

Early == {"confirm", "base", "land", "ok", "err"}

WriterOK(rec) ==
  /\ rec \in Writer
  /\ \A t \in Tables : IsFiniteSet(rec.keys[t])
  /\ rec.pc \in Early => rec.i <= Len(TableOrder)

\* How one step of a submitter may change the tables and the commit table.
TableStep(w) ==
  \/ tbl' = tbl
  \/ \E t \in Tables \cup {RunTable} : \E keys \in SUBSET AnyKey :
       tbl' = [tbl EXCEPT ![t] = AppendKeys(@, wr[w].id, keys, wr[w].journal)]

Mine(w) == [run |-> wr[w].id, counts |-> wr[w].counts, pin |-> wr[w].pin]

MarkerStep(w) ==
  \/ markers' = markers
  \/ wr[w].pc = "publish" /\ markers' = Append(markers, Mine(w))

\* A submitter that only moves on keeps a well-typed record.
LEMMA GotoOK ==
  ASSUME NEW w \in Writers, TypeOK, NEW pc \in Phases, Goto(w, pc),
         pc \in Early => wr[w].i <= Len(TableOrder)
  PROVE  WriterOK(wr'[w]) /\ wr' = [wr EXCEPT ![w] = wr'[w]]
<1>1. wr \in [Writers -> Writer] /\ wr[w] \in Writer /\ \A t \in Tables : IsFiniteSet(wr[w].keys[t])
  BY DEF TypeOK
<1>2. wr' = [wr EXCEPT ![w] = [wr[w] EXCEPT !.pc = pc]]
  BY <1>1 DEF Goto
<1>3. wr'[w] = [wr[w] EXCEPT !.pc = pc]
  BY <1>1, <1>2
<1>4. [wr[w] EXCEPT !.pc = pc] \in Writer
  BY <1>1 DEF Writer
<1>5. wr'[w].pc = pc /\ wr'[w].keys = wr[w].keys /\ wr'[w].i = wr[w].i
  BY <1>1, <1>3 DEF Writer
<1> QED BY <1>1, <1>2, <1>3, <1>4, <1>5 DEF WriterOK

\* So does one that turns to the next table.
LEMMA NextTableOK ==
  ASSUME NEW w \in Writers, TypeOK, NextTable(w)
  PROVE  WriterOK(wr'[w]) /\ wr' = [wr EXCEPT ![w] = wr'[w]] /\ wr'[w].pc = "stage"
<1>1. wr \in [Writers -> Writer] /\ wr[w] \in Writer /\ \A t \in Tables : IsFiniteSet(wr[w].keys[t])
  BY DEF TypeOK
<1>2. wr'[w] = [wr[w] EXCEPT !.pc = "stage", !.i = wr[w].i + 1]
  BY <1>1 DEF NextTable, Writer
<1>3. wr' = [wr EXCEPT ![w] = wr'[w]]
  BY <1>1 DEF NextTable, Writer
<1>4. wr[w].i + 1 \in Nat \ {0} /\ "stage" \in Phases
  BY <1>1 DEF Writer, Phases
<1>5. wr'[w] \in Writer
  BY <1>1, <1>2, <1>4 DEF Writer
<1>6. wr'[w].pc = "stage" /\ wr'[w].keys = wr[w].keys
  BY <1>1, <1>2 DEF Writer
<1> QED BY <1>1, <1>3, <1>5, <1>6 DEF WriterOK, Early

\* Every step of a submitter keeps its own record well typed and touches the
\* catalog only by one append to one table or by one marker.
LEMMA AdvanceOK ==
  ASSUME NEW w \in Writers, TypeOK, Advance(w) \/ Crash(w)
  PROVE  /\ WriterOK(wr'[w]) /\ wr' = [wr EXCEPT ![w] = wr'[w]]
         /\ TableStep(w) /\ MarkerStep(w) /\ pins' = pins
<1> DEFINE Kept == WriterOK(wr'[w]) /\ wr' = [wr EXCEPT ![w] = wr'[w]]
           Quietly == TableStep(w) /\ MarkerStep(w) /\ pins' = pins
<1>0. /\ wr \in [Writers -> Writer] /\ wr[w] \in Writer
      /\ \A t \in Tables : IsFiniteSet(wr[w].keys[t])
      /\ wr[w].pc \in Early => wr[w].i <= Len(TableOrder)
  BY DEF TypeOK, Early
<1>q. ReadOnly => Quietly
  BY DEF ReadOnly, TableStep, MarkerStep
<1>g. ASSUME NEW pc \in Phases \ Early, Goto(w, pc) PROVE Kept
  BY <1>g, GotoOK
<1>t. Len(TableOrder) \in Nat /\ \A n \in 1..Len(TableOrder) : TableOrder[n] \in Tables
  BY IngestConstants DEF Tables
<1>1. CASE Start(w)
  <2>1. \E pc \in {"preflight", "reuse", "failed"} : Goto(w, pc)
    BY <1>1 DEF Start, ReadCommit
  <2> QED BY <1>1, <2>1, <1>g, <1>q DEF Start, ReadCommit, Phases, Early
<1>2. CASE Preflight(w)
  <2>1. \E pc \in {"failed", "strip", "guard"} : Goto(w, pc)
    BY <1>2 DEF Preflight
  <2> QED BY <1>2, <2>1, <1>g, <1>q DEF Preflight, Phases, Early
<1>3. CASE Strip(w)
  <2> DEFINE kept == [t \in Tables |-> wr[w].keys[t] \ Reusable(w, t)]
             id == [base |-> RunOf[w], counts |-> [t \in Tables |-> Cardinality(kept[t])]]
  <2>1. PICK foreign \in BOOLEAN, pc \in {"guard", "recheck"} :
          wr' = [wr EXCEPT ![w] = [wr[w] EXCEPT !.keys = kept, !.id = id,
                                                !.foreign = foreign, !.pc = pc]]
    BY <1>0, <1>3 DEF Strip
  <2>2. wr'[w] = [wr[w] EXCEPT !.keys = kept, !.id = id, !.foreign = foreign, !.pc = pc]
    BY <1>0, <2>1
  <2>3. wr[w].keys \in [Tables -> SUBSET AnyKey]
    BY <1>0 DEF Writer
  <2>4. kept \in [Tables -> SUBSET AnyKey] /\ \A t \in Tables : IsFiniteSet(kept[t])
    BY <1>0, <2>3, FS_Subset
  <2>5. id \in RunId
    BY <2>4, FS_CardinalityType, IngestConstants DEF RunId
  <2> HIDE DEF kept, id
  <2>6. wr'[w] \in Writer /\ wr'[w].pc = pc /\ wr'[w].keys = kept
    BY <1>0, <2>2, <2>4, <2>5, ZenonT(60) DEF Writer, Phases
  <2>7. Kept
    BY <1>0, <2>1, <2>2, <2>4, <2>6 DEF WriterOK, Early
  <2> QED BY <1>3, <1>q, <2>7 DEF Strip
<1>4. CASE Recheck(w)
  <2>1. \E pc \in {"failed", "reuse", "guard"} : Goto(w, pc)
    BY <1>4 DEF Recheck, ReadCommit
  <2>2. Kept
    BY <2>1, <1>g DEF Phases, Early
  <2> QED BY <1>4, <2>2, <1>q DEF Recheck, ReadCommit
<1>5. CASE Guard(w)
  <2>1. \E pc \in {"failed", "manifest"} : Goto(w, pc)
    BY <1>5 DEF Guard
  <2> QED BY <1>5, <2>1, <1>g, <1>q DEF Guard, Phases, Early
<1>6. CASE EnsureManifest(w)
  <2>1. PICK rec : /\ wr' = [wr EXCEPT ![w] = rec]
                   /\ \/ rec = [wr[w] EXCEPT !.pc = "stage"]
                      \/ rec = [wr[w] EXCEPT !.pc = "mbase", !.journal = tbl[RunTable].head]
    BY <1>0, <1>6 DEF EnsureManifest
  <2>2. tbl[RunTable].head \in Nat
    BY DEF TypeOK, TableType
  <2>3. rec \in Writer /\ rec.keys = wr[w].keys /\ rec.pc \in {"stage", "mbase"}
    <3>1. CASE rec = [wr[w] EXCEPT !.pc = "stage"]
      BY <1>0, <3>1, ZenonT(60) DEF Writer, Phases
    <3>2. CASE rec = [wr[w] EXCEPT !.pc = "mbase", !.journal = tbl[RunTable].head]
      BY <1>0, <2>2, <3>2, ZenonT(60) DEF Writer, Phases
    <3> QED BY <2>1, <3>1, <3>2
  <2>4. Kept
    BY <1>0, <2>1, <2>3 DEF WriterOK, Early
  <2> QED BY <1>6, <1>q, <2>4 DEF EnsureManifest
<1>7. CASE Stage(w)
  <2>1. CASE NextTable(w)
    BY <1>7, <2>1, NextTableOK, <1>q DEF Stage
  <2>2. CASE \E pc \in {"confirm", "failed"} : Goto(w, pc)
    BY <1>7, <2>2, GotoOK, <1>q DEF Stage, Phases, Early
  <2> QED BY <1>7, <2>1, <2>2 DEF Stage
<1>8. CASE Confirm(w)
  <2>0. wr[w].i \in 1..Len(TableOrder) /\ Table(w) \in Tables
    BY <1>0, <1>8, <1>t DEF Confirm, Table, Writer, Early
  <2>1. CASE NextTable(w)
    BY <1>8, <2>1, NextTableOK, <1>q DEF Confirm
  <2>2. CASE Goto(w, "failed")
    BY <1>8, <2>2, <1>g, <1>q DEF Confirm, Phases, Early
  <2>3. CASE wr' = [wr EXCEPT ![w] = [wr[w] EXCEPT !.pc = "base", !.journal = tbl[Table(w)].head]]
    <3>1. tbl[Table(w)].head \in Nat
      BY <2>0 DEF TypeOK, TableType
    <3> DEFINE rec == [wr[w] EXCEPT !.pc = "base", !.journal = tbl[Table(w)].head]
    <3>2. rec \in Writer /\ rec.keys = wr[w].keys /\ rec.i = wr[w].i
      BY <1>0, <3>1 DEF Writer, Phases
    <3>3. wr'[w] = rec
      BY <1>0, <2>3
    <3>4. Kept
      BY <1>0, <2>0, <2>3, <3>2, <3>3 DEF WriterOK
    <3> QED BY <1>8, <1>q, <3>4 DEF Confirm
  <2> QED BY <1>0, <1>8, <2>1, <2>2, <2>3 DEF Confirm
<1>9. CASE ReadBase(w)
  <2>0. Target(w) \in Tables \cup {RunTable}
    BY <1>0, <1>9, <1>t DEF ReadBase, Target, Table, Writer, Early
  <2>1. PICK pc \in {"mland", "land"} :
          /\ wr' = [wr EXCEPT ![w] = [wr[w] EXCEPT !.base = tbl[Target(w)].head, !.pc = pc]]
          /\ pc = "land" => wr[w].pc = "base"
    BY <1>0, <1>9 DEF ReadBase
  <2>2. tbl[Target(w)].head \in Nat
    BY <2>0 DEF TypeOK, TableType
  <2> DEFINE rec == [wr[w] EXCEPT !.base = tbl[Target(w)].head, !.pc = pc]
  <2>3. rec \in Writer /\ rec.keys = wr[w].keys /\ rec.i = wr[w].i /\ rec.pc = pc
    BY <1>0, <2>2 DEF Writer, Phases
  <2>4. wr'[w] = rec
    BY <1>0, <2>1
  <2>5. Kept
    BY <1>0, <2>1, <2>3, <2>4 DEF WriterOK, Early
  <2> QED BY <1>9, <1>q, <2>5 DEF ReadBase
<1>10. CASE \E ok \in BOOLEAN : Land(w, ok)
  <2>0. Target(w) \in Tables \cup {RunTable}
    BY <1>0, <1>10, <1>t DEF Land, Target, Table, Writer, Early
  <2>1. Unmatched(w) \in SUBSET AnyKey
    <3>1. CASE Target(w) = RunTable
      BY <3>1 DEF Unmatched, AnyKey
    <3>2. CASE Target(w) # RunTable
      BY <1>0, <2>0, <3>2 DEF Unmatched, Writer
    <3> QED BY <3>1, <3>2
  <2>2. TableStep(w)
    BY <1>10, <2>0, <2>1 DEF Land, TableStep
  <2>3. \E pc \in {"mok", "merr", "ok", "err"} :
          Goto(w, pc) /\ (pc \in Early => wr[w].pc = "land")
    BY <1>10 DEF Land, MergeDone, Early
  <2>4. Kept
    BY <1>0, <2>3, GotoOK DEF Phases, Early
  <2> QED BY <1>10, <2>2, <2>4 DEF Land, MarkerStep
<1>11. CASE Raise(w)
  <2>1. \E pc \in {"mok", "merr", "ok", "err"} :
          Goto(w, pc) /\ (pc \in Early => wr[w].pc = "land")
    BY <1>11 DEF Raise, MergeDone, Early
  <2>2. Kept
    BY <1>0, <2>1, GotoOK DEF Phases, Early
  <2> QED BY <1>11, <2>2, <1>q DEF Raise
<1>12. CASE SettleManifest(w)
  <2>1. \E pc \in {"stage", "failed"} : Goto(w, pc)
    BY <1>12 DEF SettleManifest
  <2> QED BY <1>12, <2>1, <1>g, <1>q DEF SettleManifest, Phases, Early
<1>13. CASE Settle(w)
  <2>1. CASE NextTable(w)
    BY <1>13, <2>1, NextTableOK, <1>q DEF Settle
  <2>2. CASE Goto(w, "failed")
    BY <1>13, <2>2, <1>g, <1>q DEF Settle, Phases, Early
  <2> QED BY <1>13, <2>1, <2>2 DEF Settle
<1>14. CASE CountTables(w)
  <2>1. PICK rec : /\ wr' = [wr EXCEPT ![w] = rec]
                   /\ \/ rec = [wr[w] EXCEPT !.pc = "failed"]
                      \/ rec = [wr[w] EXCEPT !.counts = wr[w].id.counts, !.pc = "pin"]
    BY <1>0, <1>14 DEF CountTables
  <2>2. wr[w].id.counts \in [Tables -> Nat]
    BY <1>0 DEF Writer, RunId
  <2>3. rec \in Writer /\ rec.keys = wr[w].keys /\ rec.pc \in {"pin", "failed"}
    <3>1. CASE rec = [wr[w] EXCEPT !.pc = "failed"]
      BY <1>0, <3>1, ZenonT(60) DEF Writer, Phases
    <3>2. CASE rec = [wr[w] EXCEPT !.counts = wr[w].id.counts, !.pc = "pin"]
      BY <1>0, <2>2, <3>2, ZenonT(60) DEF Writer, Phases
    <3> QED BY <2>1, <3>1, <3>2
  <2>4. Kept
    BY <1>0, <2>1, <2>3 DEF WriterOK, Early
  <2> QED BY <1>14, <1>q, <2>4 DEF CountTables
<1>15. CASE PinSnapshots(w)
  <2>1. CASE Goto(w, "failed")
    BY <1>15, <2>1, <1>g, <1>q DEF PinSnapshots, Phases, Early
  <2>2. CASE \E pin \in [Tables -> (UNION {Snapshots(tbl[t]) : t \in Tables}) \cup {0}] :
               wr' = [wr EXCEPT ![w] = [@ EXCEPT !.pin = pin, !.pc = "pbase"]]
    <3>1. PICK pin \in [Tables -> (UNION {Snapshots(tbl[t]) : t \in Tables}) \cup {0}] :
            wr' = [wr EXCEPT ![w] = [wr[w] EXCEPT !.pin = pin, !.pc = "pbase"]]
      BY <1>0, <2>2
    <3>2. \A t \in Tables : Snapshots(tbl[t]) \subseteq Nat
      BY DEF TypeOK, TableType, Snapshots
    <3>3. pin \in [Tables -> Nat]
      BY <3>2
    <3> DEFINE rec == [wr[w] EXCEPT !.pin = pin, !.pc = "pbase"]
    <3>4. rec \in Writer /\ rec.keys = wr[w].keys /\ rec.pc = "pbase"
      BY <1>0, <3>3 DEF Writer, Phases
    <3>5. Kept
      BY <1>0, <3>1, <3>4 DEF WriterOK, Early
    <3> QED BY <1>15, <1>q, <3>5 DEF PinSnapshots
  <2> QED BY <1>15, <2>1, <2>2 DEF PinSnapshots
<1>16. CASE ReadMarkerBase(w)
  <2>1. Len(markers) \in Nat
    BY DEF TypeOK
  <2> DEFINE rec == [wr[w] EXCEPT !.base = Len(markers), !.pc = "publish"]
  <2>2. wr' = [wr EXCEPT ![w] = rec]
    BY <1>0, <1>16 DEF ReadMarkerBase
  <2>3. rec \in Writer /\ rec.keys = wr[w].keys /\ rec.pc = "publish"
    BY <1>0, <2>1 DEF Writer, Phases
  <2>4. Kept
    BY <1>0, <2>2, <2>3 DEF WriterOK, Early
  <2> QED BY <1>16, <1>q, <2>4 DEF ReadMarkerBase
<1>17. CASE \E ok \in BOOLEAN : Publish(w, ok)
  <2>1. \E pc \in {"verify", "verify_err"} : Goto(w, pc)
    BY <1>17 DEF Publish
  <2>2. Kept
    BY <2>1, <1>g DEF Phases, Early
  <2>3. MarkerStep(w)
    BY <1>17 DEF Publish, MarkerStep, Mine
  <2> QED BY <1>17, <2>2, <2>3 DEF Publish, TableStep
<1>18. CASE PublishRaises(w)
  BY <1>18, <1>g, <1>q DEF PublishRaises, Phases, Early
<1>19. CASE Verify(w)
  <2>1. \E pc \in {"failed", "done", "reuse"} : Goto(w, pc)
    BY <1>19 DEF Verify
  <2> QED BY <1>19, <2>1, <1>g, <1>q DEF Verify, Phases, Early
<1>20. CASE Reuse(w)
  <2>1. \E pc \in {"failed", "done"} : Goto(w, pc)
    BY <1>20 DEF Reuse
  <2> QED BY <1>20, <2>1, <1>g, <1>q DEF Reuse, Phases, Early
<1>21. CASE Crash(w)
  BY <1>21, <1>g, <1>q DEF Crash, Phases, Early
<1> QED
  BY <1>1, <1>2, <1>3, <1>4, <1>5, <1>6, <1>7, <1>8, <1>9, <1>10, <1>11, <1>12, <1>13,
     <1>14, <1>15, <1>16, <1>17, <1>18, <1>19, <1>20, <1>21 DEF Advance

\* One step of a submitter preserves TypeOK.
LEMMA TypeStep ==
  ASSUME NEW w \in Writers, TypeOK, WriterOK(wr'[w]), wr' = [wr EXCEPT ![w] = wr'[w]],
         TableStep(w), MarkerStep(w), pins' = pins
  PROVE  TypeOK'
<1>0. wr[w] \in Writer /\ wr[w].id \in RunId /\ wr[w].journal \in Nat
  BY DEF TypeOK, Writer
<1>1. /\ tbl' \in [Tables \cup {RunTable} -> TableType]
      /\ \A t \in Tables \cup {RunTable} : WellFormed(tbl'[t])
  <2>1. CASE tbl' = tbl
    BY <2>1 DEF TypeOK
  <2>2. ASSUME NEW t \in Tables \cup {RunTable}, NEW keys \in SUBSET AnyKey,
               tbl' = [tbl EXCEPT ![t] = AppendKeys(tbl[t], wr[w].id, keys, wr[w].journal)]
        PROVE  <1>1!1 /\ <1>1!2
    <3>1. tbl[t] \in TableType /\ WellFormed(tbl[t])
      BY DEF TypeOK
    <3> DEFINE new == AppendKeys(tbl[t], wr[w].id, keys, wr[w].journal)
    <3>2. new \in TableType /\ WellFormed(new)
      BY <1>0, <3>1, AppendKeysType
    <3> HIDE DEF new
    <3>3. tbl' = [tbl EXCEPT ![t] = new]
      BY <2>2 DEF new
    <3> QED BY <3>2, <3>3 DEF TypeOK
  <2> QED BY <2>1, <2>2 DEF TableStep
<1>2. markers' \in Seq(Marker)
  <2>1. Mine(w) \in Marker
    BY <1>0 DEF Mine, Marker, Writer
  <2> QED BY <2>1 DEF TypeOK, MarkerStep
<1>3. /\ wr' \in [Writers -> Writer]
      /\ \A v \in Writers : \A t \in Tables : IsFiniteSet(wr'[v].keys[t])
      /\ \A v \in Writers : wr'[v].pc \in Early => wr'[v].i <= Len(TableOrder)
  <2>1. wr \in [Writers -> Writer]
    BY DEF TypeOK
  <2>2. \A v \in Writers : v # w => wr'[v] = wr[v]
    BY <2>1
  <2>3. wr' \in [Writers -> Writer]
    BY <2>1 DEF WriterOK
  <2>4. \A v \in Writers : v # w => /\ \A t \in Tables : IsFiniteSet(wr'[v].keys[t])
                                    /\ wr'[v].pc \in Early => wr'[v].i <= Len(TableOrder)
    BY <2>2 DEF TypeOK, Early
  <2>5. /\ \A t \in Tables : IsFiniteSet(wr'[w].keys[t])
        /\ wr'[w].pc \in Early => wr'[w].i <= Len(TableOrder)
    BY DEF WriterOK
  <2>6. ASSUME NEW v \in Writers
        PROVE  /\ \A t \in Tables : IsFiniteSet(wr'[v].keys[t])
               /\ wr'[v].pc \in Early => wr'[v].i <= Len(TableOrder)
    <3>1. CASE v = w
      <4>1. wr'[v] = wr'[w]
        BY <3>1
      <4> QED BY <2>5, <4>1, Zenon
    <3>2. CASE v # w
      BY <2>4, <3>2, Zenon
    <3> QED BY <3>1, <3>2
  <2> QED BY <2>3, <2>6
<1> QED BY <1>1, <1>2, <1>3 DEF TypeOK, Early

LEMMA InitType == Init => TypeOK
<1> SUFFICES ASSUME Init PROVE TypeOK
  OBVIOUS
<1>1. EmptyTable \in TableType /\ WellFormed(EmptyTable)
  BY DEF EmptyTable, TableType, WellFormed, Snapshots
<1>2. NoPin \in Pin
  BY DEF NoPin, Pin
<1>3. ASSUME NEW w \in Writers PROVE WriterOK(IdleWriter(w))
  <2>1. RunOf[w] \in Runs
    BY IngestConstants
  <2>2. \A t \in Tables : IsFiniteSet(Keys[RunOf[w]][t]) /\ Cardinality(Keys[RunOf[w]][t]) \in Nat
    BY <2>1, FS_CardinalityType, IngestConstants
  <2>3. NaturalId(RunOf[w]) \in RunId
    BY <2>1, <2>2 DEF NaturalId, RunId
  <2>4. Keys[RunOf[w]] \in [Tables -> SUBSET AnyKey]
    <3> DEFINE keys == Keys[RunOf[w]]
    <3>1. keys = [t \in Tables |-> keys[t]]
      BY <2>1, IngestConstants
    <3>2. \A t \in Tables : keys[t] \subseteq AnyKey
      BY <2>1 DEF AnyKey
    <3> HIDE DEF keys
    <3>3. keys \in [Tables -> SUBSET AnyKey]
      BY <3>1, <3>2
    <3> QED BY <3>3 DEF keys
  <2>5. IdleWriter(w) \in Writer
    BY <2>3, <2>4 DEF IdleWriter, Writer, Phases
  <2> QED BY <2>2, <2>5 DEF WriterOK, IdleWriter, Early
<1> QED BY <1>1, <1>2, <1>3 DEF Init, TypeOK, WriterOK, Early

\* Planning a run pins heads and runs that exist.
LEMMA PlanType == ASSUME TypeOK, NEW r \in Runs, Plan(r) PROVE TypeOK'
<1>1. \A t \in IdentityTables : tbl[t].head \in Nat
  BY IngestConstants DEF TypeOK, TableType
<1>2. Committed \subseteq RunId
  <2>1. markers \in Seq(Marker)
    BY DEF TypeOK
  <2>2. \A m \in DOMAIN markers : markers[m] \in Marker
    BY <2>1
  <2>3. \A m \in DOMAIN markers : markers[m].run \in RunId
    BY <2>2 DEF Marker
  <2> QED BY <2>3 DEF Committed
<1>3. pins' \in [Runs -> Pin]
  BY <1>1, <1>2 DEF TypeOK, Plan, Pin
<1> QED BY <1>3 DEF TypeOK, Plan

\* Type correctness of staging and publication.
THEOREM TypeCorrect == Spec => []TypeOK
<1>1. TypeOK /\ [Next]_vars => TypeOK'
  <2> SUFFICES ASSUME TypeOK, [Next]_vars PROVE TypeOK'
    OBVIOUS
  <2>1. CASE \E r \in Runs : Plan(r)
    BY <2>1, PlanType
  <2>2. CASE \E w \in Writers : Advance(w) \/ Crash(w)
    BY <2>2, AdvanceOK, TypeStep
  <2>3. CASE UNCHANGED vars
    BY <2>3 DEF vars, TypeOK
  <2> QED BY <2>1, <2>2, <2>3 DEF Next
<1> QED BY <1>1, InitType, PTL DEF Spec

\* -------------------------------------------------- markers pin exact row sets

\* The marker a writer holds, or a published one, is exact for the tables f.
ExactIn(f, m) ==
  /\ m.counts = m.run.counts
  /\ \A t \in Tables :
       IF m.run.counts[t] = 0
       THEN m.pin[t] = 0
       ELSE /\ m.pin[t] \in Snapshots(f[t])
            /\ OwnsExactly(f[t], m.pin[t], m.run, m.run.counts[t])

Holding == {"pbase", "publish", "verify", "verify_err"}

\* The inductive invariant: what a writer is about to publish is exact from the
\* moment its snapshots were found, and its counts are the declared ones before.
ExactInv ==
  /\ TypeOK
  /\ \A m \in DOMAIN markers : ExactIn(tbl, markers[m])
  /\ \A w \in Writers : wr[w].pc = "pin" => wr[w].counts = wr[w].id.counts
  /\ \A w \in Writers : wr[w].pc \in Holding => ExactIn(tbl, Mine(w))

\* An exact marker stays exact while other runs append to the tables.
LEMMA ExactStable ==
  ASSUME NEW w \in Writers, TypeOK, TableStep(w), NEW m, ExactIn(tbl, m)
  PROVE  ExactIn(tbl', m)
<1>1. CASE tbl' = tbl
  BY <1>1
<1>2. ASSUME NEW t \in Tables \cup {RunTable}, NEW keys \in SUBSET AnyKey,
             tbl' = [tbl EXCEPT ![t] = AppendKeys(tbl[t], wr[w].id, keys, wr[w].journal)]
      PROVE  ExactIn(tbl', m)
  <2>0. wr[w].id \in RunId /\ wr[w].journal \in Nat
    BY DEF TypeOK, Writer
  <2>1. /\ tbl \in [Tables \cup {RunTable} -> TableType]
        /\ tbl[t] \in TableType /\ WellFormed(tbl[t])
    BY DEF TypeOK
  <2>2. ASSUME NEW u \in Tables, m.run.counts[u] # 0
        PROVE  /\ m.pin[u] \in Snapshots(tbl'[u])
               /\ OwnsExactly(tbl'[u], m.pin[u], m.run, m.run.counts[u])
    <3>1. /\ m.pin[u] \in Snapshots(tbl[u])
          /\ OwnsExactly(tbl[u], m.pin[u], m.run, m.run.counts[u])
      BY <2>2 DEF ExactIn
    <3>2. CASE u # t
      <4>1. tbl'[u] = tbl[u]
        BY <1>2, <2>1, <3>2
      <4> QED BY <3>1, <4>1
    <3>3. CASE u = t
      <4>1. tbl'[u] = AppendKeys(tbl[u], wr[w].id, keys, wr[w].journal)
        BY <1>2, <2>1, <3>3
      <4> QED BY <2>0, <2>1, <3>1, <3>3, <4>1, OwnsExactlyStable
    <3> QED BY <3>2, <3>3
  <2> QED BY <2>2 DEF ExactIn
<1> QED BY <1>1, <1>2 DEF TableStep

\* A step of a submitter that ends in "pin" has just compared the counts, and
\* one that ends holding a marker has just found its snapshots or held it before.
LEMMA HoldingStep ==
  ASSUME NEW w \in Writers, TypeOK, Advance(w) \/ Crash(w)
  PROVE  /\ wr'[w].pc = "pin" => wr'[w].counts = wr'[w].id.counts
         /\ wr'[w].pc \in Holding =>
              \/ wr[w].pc \in Holding /\ Mine(w)' = Mine(w)
              \/ PinSnapshots(w) /\ wr[w].pc = "pin"
<1> DEFINE Goal == /\ wr'[w].pc = "pin" => wr'[w].counts = wr'[w].id.counts
                   /\ wr'[w].pc \in Holding =>
                        \/ wr[w].pc \in Holding /\ Mine(w)' = Mine(w)
                        \/ PinSnapshots(w) /\ wr[w].pc = "pin"
<1>0. wr \in [Writers -> Writer] /\ wr[w] \in Writer
  BY DEF TypeOK
<1>1. ASSUME NEW pc, pc \notin Holding \cup {"pin"}, Goto(w, pc) PROVE Goal
  <2>1. wr'[w].pc = pc
    BY <1>0, <1>1 DEF Goto, Writer
  <2> QED BY <1>1, <2>1
<1>2. ASSUME NextTable(w) PROVE Goal
  <2>1. wr'[w].pc = "stage"
    BY <1>2, NextTableOK
  <2> QED BY <2>1 DEF Holding
<1>3. CASE Start(w) \/ Preflight(w) \/ Recheck(w) \/ Guard(w)
  <2>1. \E pc \in {"preflight", "reuse", "failed", "strip", "guard", "manifest"} : Goto(w, pc)
    BY <1>3 DEF Start, Preflight, Recheck, Guard, ReadCommit
  <2> QED BY <1>1, <2>1 DEF Holding
<1>4. CASE Strip(w)
  <2>1. wr'[w].pc \in {"guard", "recheck"}
    BY <1>0, <1>4 DEF Strip, Writer
  <2> QED BY <2>1 DEF Holding
<1>5. CASE EnsureManifest(w)
  <2>1. wr'[w].pc \in {"stage", "mbase"}
    BY <1>0, <1>5 DEF EnsureManifest, Writer
  <2> QED BY <2>1 DEF Holding
<1>6. CASE Stage(w) \/ Settle(w)
  <2>1. NextTable(w) \/ \E pc \in {"confirm", "failed"} : Goto(w, pc)
    BY <1>6 DEF Stage, Settle
  <2> QED BY <1>1, <1>2, <2>1 DEF Holding
<1>7. CASE Confirm(w)
  <2>1. CASE NextTable(w)
    BY <1>2, <2>1
  <2>2. CASE Goto(w, "failed")
    BY <1>1, <2>2 DEF Holding
  <2>3. CASE wr' = [wr EXCEPT ![w] = [wr[w] EXCEPT !.pc = "base", !.journal = tbl[Table(w)].head]]
    <3>1. wr'[w].pc = "base"
      BY <1>0, <2>3 DEF Writer
    <3> QED BY <3>1 DEF Holding
  <2> QED BY <1>0, <1>7, <2>1, <2>2, <2>3 DEF Confirm
<1>8. CASE ReadBase(w)
  <2>1. wr'[w].pc \in {"mland", "land"}
    BY <1>0, <1>8 DEF ReadBase, Writer
  <2> QED BY <2>1 DEF Holding
<1>9. CASE (\E ok \in BOOLEAN : Land(w, ok)) \/ Raise(w)
  <2>1. \E pc \in {"mok", "merr", "ok", "err"} : Goto(w, pc)
    BY <1>9 DEF Land, Raise, MergeDone
  <2> QED BY <1>1, <2>1 DEF Holding
<1>10. CASE SettleManifest(w) \/ Verify(w) \/ Reuse(w) \/ Crash(w)
  <2>1. \E pc \in {"stage", "failed", "done", "reuse", "dead"} : Goto(w, pc)
    BY <1>10 DEF SettleManifest, Verify, Reuse, Crash
  <2> QED BY <1>1, <2>1 DEF Holding
<1>11. CASE CountTables(w)
  <2>1. CASE wr' = [wr EXCEPT ![w] = [wr[w] EXCEPT !.counts = wr[w].id.counts, !.pc = "pin"]]
    <3>1. /\ wr'[w].counts = wr[w].id.counts /\ wr'[w].id = wr[w].id
          /\ wr'[w].pc = "pin"
      BY <1>0, <2>1 DEF Writer
    <3> QED BY <3>1 DEF Holding
  <2>2. CASE wr' = [wr EXCEPT ![w] = [wr[w] EXCEPT !.pc = "failed"]]
    <3>1. wr'[w].pc = "failed"
      BY <1>0, <2>2 DEF Writer
    <3> QED BY <3>1 DEF Holding
  <2> QED BY <1>0, <1>11, <2>1, <2>2 DEF CountTables
<1>12. CASE PinSnapshots(w)
  <2>1. wr[w].pc = "pin"
    BY <1>12 DEF PinSnapshots
  <2>2. CASE Goto(w, "failed")
    BY <1>1, <2>2 DEF Holding
  <2>3. CASE \E pin : wr' = [wr EXCEPT ![w] = [wr[w] EXCEPT !.pin = pin, !.pc = "pbase"]]
    <3>1. wr'[w].pc = "pbase"
      BY <1>0, <2>3 DEF Writer
    <3> QED BY <1>12, <2>1, <3>1
  <2>4. Goto(w, "failed") \/
        \E pin : wr' = [wr EXCEPT ![w] = [wr[w] EXCEPT !.pin = pin, !.pc = "pbase"]]
    BY <1>12 DEF PinSnapshots
  <2> QED BY <2>2, <2>3, <2>4
<1>13. CASE ReadMarkerBase(w)
  <2>1. /\ wr[w].pc = "pbase" /\ wr'[w].pc = "publish"
        /\ wr'[w].id = wr[w].id /\ wr'[w].counts = wr[w].counts /\ wr'[w].pin = wr[w].pin
    BY <1>0, <1>13 DEF ReadMarkerBase, Writer
  <2> QED BY <2>1 DEF Holding, Mine
<1>14. CASE (\E ok \in BOOLEAN : Publish(w, ok)) \/ PublishRaises(w)
  <2>1. wr[w].pc = "publish" /\ \E pc \in {"verify", "verify_err"} : Goto(w, pc)
    BY <1>14 DEF Publish, PublishRaises
  <2>2. /\ wr'[w].pc \in {"verify", "verify_err"}
        /\ wr'[w].id = wr[w].id /\ wr'[w].counts = wr[w].counts /\ wr'[w].pin = wr[w].pin
    BY <1>0, <2>1 DEF Goto, Writer
  <2> QED BY <2>1, <2>2 DEF Holding, Mine
<1> QED
  BY <1>3, <1>4, <1>5, <1>6, <1>7, <1>8, <1>9, <1>10, <1>11, <1>12, <1>13, <1>14 DEF Advance

\* What PinSnapshots found is an exact marker.
LEMMA PinnedIsExact ==
  ASSUME NEW w \in Writers, TypeOK, PinSnapshots(w), wr[w].counts = wr[w].id.counts,
         wr'[w].pc \in Holding
  PROVE  ExactIn(tbl', Mine(w)')
<1>0. wr \in [Writers -> Writer] /\ wr[w] \in Writer
  BY DEF TypeOK
<1>1. ~Goto(w, "failed")
  BY <1>0 DEF Goto, Holding, Writer
<1>2. PICK pin \in [Tables -> (UNION {Snapshots(tbl[t]) : t \in Tables}) \cup {0}] :
        /\ \A t \in Tables : FoundOwned(tbl[t], wr[w].id, wr[w].counts[t], pin[t])
        /\ wr' = [wr EXCEPT ![w] = [wr[w] EXCEPT !.pin = pin, !.pc = "pbase"]]
  BY <1>0, <1>1 DEF PinSnapshots
<1>3. wr'[w].pin = pin /\ wr'[w].id = wr[w].id /\ wr'[w].counts = wr[w].counts
  BY <1>0, <1>2 DEF Writer
<1>4. tbl' = tbl
  BY DEF PinSnapshots, ReadOnly
<1>5. ASSUME NEW t \in Tables
      PROVE  IF wr[w].id.counts[t] = 0
             THEN pin[t] = 0
             ELSE /\ pin[t] \in Snapshots(tbl[t])
                  /\ OwnsExactly(tbl[t], pin[t], wr[w].id, wr[w].id.counts[t])
  <2>1. FoundOwned(tbl[t], wr[w].id, wr[w].id.counts[t], pin[t])
    BY <1>2
  <2>2. ActiveOwned(tbl[t], wr[w].id) \subseteq Snapshots(tbl[t])
    BY DEF ActiveOwned
  <2> QED BY <2>1, <2>2 DEF FoundOwned
<1> QED BY <1>3, <1>4, <1>5 DEF ExactIn, Mine

\* The invariant is inductive: a step of one submitter, first for the markers,
\* then for the submitters.
LEMMA ExactAdvance ==
  ASSUME NEW w \in Writers, ExactInv, Advance(w) \/ Crash(w)
  PROVE  ExactInv'
<1>0. TypeOK /\ wr \in [Writers -> Writer]
  BY DEF ExactInv, TypeOK
<1>1. /\ WriterOK(wr'[w]) /\ wr' = [wr EXCEPT ![w] = wr'[w]]
      /\ TableStep(w) /\ MarkerStep(w) /\ pins' = pins
  BY <1>0, AdvanceOK
<1>2. TypeOK'
  BY <1>0, <1>1, TypeStep
<1>3. \A m \in DOMAIN markers' : ExactIn(tbl', markers'[m])
  <2>1. markers \in Seq(Marker)
    BY <1>0 DEF TypeOK
  <2>2. \A m \in DOMAIN markers : ExactIn(tbl', markers[m])
    BY <1>0, <1>1, ExactStable DEF ExactInv
  <2>3. CASE markers' = markers
    BY <2>2, <2>3
  <2>4. CASE wr[w].pc = "publish" /\ markers' = Append(markers, Mine(w))
    <3>1. ExactIn(tbl', Mine(w))
      BY <1>0, <1>1, <2>4, ExactStable DEF ExactInv, Holding
    <3>2. \A m \in DOMAIN markers' : \/ m \in DOMAIN markers /\ markers'[m] = markers[m]
                                   \/ markers'[m] = Mine(w)
      BY <2>1, <2>4
    <3> QED BY <2>2, <3>1, <3>2
  <2> QED BY <1>1, <2>3, <2>4 DEF MarkerStep
<1>4. /\ wr'[w].pc = "pin" => wr'[w].counts = wr'[w].id.counts
      /\ wr'[w].pc \in Holding => \/ (wr[w].pc \in Holding /\ Mine(w)' = Mine(w))
                                 \/ (PinSnapshots(w) /\ wr[w].pc = "pin")
  BY <1>0, HoldingStep
<1>5. ASSUME NEW v \in Writers
      PROVE  /\ wr'[v].pc = "pin" => wr'[v].counts = wr'[v].id.counts
             /\ wr'[v].pc \in Holding => ExactIn(tbl', Mine(v)')
  <2>1. CASE v # w
    <3>1. wr'[v] = wr[v] /\ Mine(v)' = Mine(v)
      BY <1>0, <1>1, <2>1 DEF Mine
    <3>2. wr[v].pc = "pin" => wr[v].counts = wr[v].id.counts
      BY DEF ExactInv
    <3>3. wr[v].pc \in Holding => ExactIn(tbl', Mine(v))
      BY <1>0, <1>1, ExactStable DEF ExactInv
    <3> QED BY <3>1, <3>2, <3>3
  <2>2. CASE v = w
    <3>1. CASE wr[w].pc \in Holding /\ Mine(w)' = Mine(w)
      <4>1. ExactIn(tbl', Mine(w))
        BY <1>0, <1>1, <3>1, ExactStable DEF ExactInv
      <4> QED BY <1>4, <2>2, <3>1, <4>1
    <3>2. CASE PinSnapshots(w) /\ wr[w].pc = "pin" /\ wr'[w].pc \in Holding
      <4>1. ExactIn(tbl', Mine(w)')
        BY <1>0, <3>2, PinnedIsExact DEF ExactInv
      <4> QED BY <1>4, <2>2, <4>1
    <3> QED BY <1>4, <2>2, <3>1, <3>2
  <2> QED BY <2>1, <2>2
<1> QED BY <1>2, <1>3, <1>5 DEF ExactInv

\* Every marker pins exactly the rows its run declares.
THEOREM MarkersAreExact == Spec => []MarkerPinsExactRows
<1>1. Init => ExactInv
  <2> SUFFICES ASSUME Init PROVE ExactInv
    OBVIOUS
  <2>1. markers = <<>> /\ \A w \in Writers : wr[w].pc = "idle"
    BY DEF Init, IdleWriter
  <2> QED BY <2>1, InitType DEF ExactInv, Holding
<1>2. ExactInv /\ [Next]_vars => ExactInv'
  <2> SUFFICES ASSUME ExactInv, [Next]_vars PROVE ExactInv'
    OBVIOUS
  <2>1. CASE \E r \in Runs : Plan(r)
    <3>1. TypeOK'
      BY <2>1, PlanType DEF ExactInv
    <3>2. UNCHANGED <<tbl, markers, wr>>
      BY <2>1 DEF Plan
    <3> QED BY <3>1, <3>2 DEF ExactInv, ExactIn, Mine
  <2>2. CASE \E w \in Writers : Advance(w) \/ Crash(w)
    BY <2>2, ExactAdvance
  <2>3. CASE UNCHANGED vars
    BY <2>3 DEF vars, ExactInv, TypeOK, ExactIn, Mine
  <2> QED BY <2>1, <2>2, <2>3 DEF Next
<1>3. ExactInv => MarkerPinsExactRows
  BY DEF ExactInv, ExactIn, MarkerPinsExactRows
<1> QED BY <1>1, <1>2, <1>3, PTL DEF Spec

\* ------------------------------------------------------------- what a step does

\* A catalog that refuses the append of a MERGE whose base moved.
Optimistic == "lands" \notin StaleAppend

\* What one step of a submitter does to its own run, to the tables and to the
\* commit table, by the actions that matter here.
LEMMA StepShape ==
  ASSUME NEW w \in Writers, TypeOK, Advance(w) \/ Crash(w)
  PROVE  /\ wr[w].pc # "strip" => wr'[w].id = wr[w].id /\ wr'[w].keys = wr[w].keys
         /\ wr'[w].pc = "strip" => Mode[RunOf[w]] = "incremental"
         /\ wr'[w].pc = "pin" => CountTables(w)
         /\ tbl' # tbl => \E ok \in BOOLEAN : Land(w, ok)
         /\ markers' # markers => \E ok \in BOOLEAN : Publish(w, ok)
<1> DEFINE Same == wr'[w].id = wr[w].id /\ wr'[w].keys = wr[w].keys
           Goal == /\ wr[w].pc # "strip" => Same
                   /\ wr'[w].pc = "strip" => Mode[RunOf[w]] = "incremental"
                   /\ wr'[w].pc = "pin" => CountTables(w)
<1>0. wr \in [Writers -> Writer] /\ wr[w] \in Writer
  BY DEF TypeOK
<1>q. ReadOnly => tbl' = tbl /\ markers' = markers
  BY DEF ReadOnly
<1>g. ASSUME NEW pc, pc \notin {"strip", "pin"}, Goto(w, pc) PROVE Goal
  <2>1. wr'[w] = [wr[w] EXCEPT !.pc = pc]
    BY <1>0, <1>g DEF Goto
  <2>2. wr'[w].pc = pc /\ Same
    BY <1>0, <2>1 DEF Writer
  <2> QED BY <1>g, <2>2
<1>n. ASSUME NextTable(w) PROVE Goal
  <2>1. wr'[w] = [wr[w] EXCEPT !.pc = "stage", !.i = wr[w].i + 1]
    BY <1>0, <1>n DEF NextTable, Writer
  <2>2. wr'[w].pc = "stage" /\ Same
    BY <1>0, <2>1 DEF Writer
  <2> QED BY <2>2
<1>1. CASE Start(w) \/ Recheck(w) \/ Guard(w)
  <2>1. \E pc \in {"preflight", "reuse", "failed", "guard", "manifest"} : Goto(w, pc)
    BY <1>1 DEF Start, Recheck, Guard, ReadCommit
  <2>2. ReadOnly
    BY <1>1 DEF Start, Recheck, Guard, ReadCommit
  <2> QED BY <1>g, <1>q, <2>1, <2>2
<1>2. CASE Preflight(w)
  <2>1. CASE \E pc \in {"failed", "guard"} : Goto(w, pc)
    BY <1>2, <1>g, <1>q, <2>1 DEF Preflight
  <2>2. CASE Goto(w, "strip") /\ Mode[RunOf[w]] = "incremental"
    <3>1. wr'[w] = [wr[w] EXCEPT !.pc = "strip"]
      BY <1>0, <2>2 DEF Goto
    <3>2. wr'[w].pc = "strip" /\ Same
      BY <1>0, <3>1 DEF Writer
    <3> QED BY <1>2, <1>q, <2>2, <3>2 DEF Preflight
  <2> QED BY <1>2, <2>1, <2>2 DEF Preflight
<1>3. CASE Strip(w)
  <2>1. wr[w].pc = "strip" /\ wr'[w].pc \in {"guard", "recheck"}
    BY <1>0, <1>3 DEF Strip, Writer
  <2> QED BY <1>3, <1>q, <2>1 DEF Strip
<1>4. CASE EnsureManifest(w)
  <2>1. wr'[w].pc \in {"stage", "mbase"} /\ Same
    BY <1>0, <1>4 DEF EnsureManifest, Writer
  <2> QED BY <1>4, <1>q, <2>1 DEF EnsureManifest
<1>5. CASE Stage(w) \/ Settle(w)
  <2>1. NextTable(w) \/ \E pc \in {"confirm", "failed"} : Goto(w, pc)
    BY <1>5 DEF Stage, Settle
  <2> QED BY <1>5, <1>g, <1>n, <1>q, <2>1 DEF Stage, Settle
<1>6. CASE Confirm(w)
  <2>1. CASE NextTable(w)
    BY <1>6, <1>n, <1>q, <2>1 DEF Confirm
  <2>2. CASE Goto(w, "failed")
    BY <1>6, <1>g, <1>q, <2>2 DEF Confirm
  <2>3. CASE wr' = [wr EXCEPT ![w] = [wr[w] EXCEPT !.pc = "base", !.journal = tbl[Table(w)].head]]
    <3>1. wr'[w].pc = "base" /\ Same
      BY <1>0, <2>3 DEF Writer
    <3> QED BY <1>6, <1>q, <3>1 DEF Confirm
  <2> QED BY <1>0, <1>6, <2>1, <2>2, <2>3 DEF Confirm
<1>7. CASE ReadBase(w)
  <2>1. wr'[w].pc \in {"mland", "land"} /\ Same
    BY <1>0, <1>7 DEF ReadBase, Writer
  <2> QED BY <1>7, <1>q, <2>1 DEF ReadBase
<1>8. CASE \E ok \in BOOLEAN : Land(w, ok)
  <2>1. \E pc \in {"mok", "merr", "ok", "err"} : Goto(w, pc)
    BY <1>8 DEF Land, MergeDone
  <2> QED BY <1>8, <1>g, <2>1 DEF Land
<1>9. CASE Raise(w)
  <2>1. \E pc \in {"mok", "merr", "ok", "err"} : Goto(w, pc)
    BY <1>9 DEF Raise, MergeDone
  <2> QED BY <1>9, <1>g, <1>q, <2>1 DEF Raise
<1>10. CASE SettleManifest(w) \/ Verify(w) \/ Reuse(w) \/ Crash(w) \/ PublishRaises(w)
  <2>1. \E pc \in {"stage", "failed", "done", "reuse", "dead", "verify_err"} : Goto(w, pc)
    BY <1>10 DEF SettleManifest, Verify, Reuse, Crash, PublishRaises
  <2>2. ReadOnly
    BY <1>10 DEF SettleManifest, Verify, Reuse, Crash, PublishRaises
  <2> QED BY <1>g, <1>q, <2>1, <2>2
<1>11. CASE CountTables(w)
  <2>1. wr'[w].pc \in {"pin", "failed"} /\ Same
    BY <1>0, <1>11 DEF CountTables, Writer
  <2> QED BY <1>11, <1>q, <2>1 DEF CountTables
<1>12. CASE PinSnapshots(w)
  <2>1. CASE Goto(w, "failed")
    BY <1>12, <1>g, <1>q, <2>1 DEF PinSnapshots
  <2>2. CASE \E pin : wr' = [wr EXCEPT ![w] = [wr[w] EXCEPT !.pin = pin, !.pc = "pbase"]]
    <3>1. wr'[w].pc = "pbase" /\ Same
      BY <1>0, <2>2 DEF Writer
    <3> QED BY <1>12, <1>q, <3>1 DEF PinSnapshots
  <2>3. Goto(w, "failed") \/
        \E pin : wr' = [wr EXCEPT ![w] = [wr[w] EXCEPT !.pin = pin, !.pc = "pbase"]]
    BY <1>12 DEF PinSnapshots
  <2> QED BY <2>1, <2>2, <2>3
<1>13. CASE ReadMarkerBase(w)
  <2>1. wr'[w].pc = "publish" /\ Same
    BY <1>0, <1>13 DEF ReadMarkerBase, Writer
  <2> QED BY <1>13, <1>q, <2>1 DEF ReadMarkerBase
<1>14. CASE \E ok \in BOOLEAN : Publish(w, ok)
  <2>1. \E pc \in {"verify", "verify_err"} : Goto(w, pc)
    BY <1>14 DEF Publish
  <2> QED BY <1>14, <1>g, <2>1 DEF Publish
<1> QED
  BY <1>1, <1>2, <1>3, <1>4, <1>5, <1>6, <1>7, <1>8, <1>9, <1>10, <1>11, <1>12, <1>13, <1>14
  DEF Advance

\* ------------------------------------------------------------------ one marker

\* A marker is appended only when the commit table holds none of the run: the
\* MERGE looked at the head it lands on.
LEMMA PublishStep ==
  ASSUME Optimistic, NEW w \in Writers, TypeOK, Advance(w) \/ Crash(w), markers' # markers
  PROVE  /\ wr[w].pc = "publish" /\ wr[w].id \notin Committed
         /\ markers' = Append(markers, Mine(w)) /\ tbl' = tbl
<1>1. PICK ok \in BOOLEAN : Publish(w, ok)
  BY StepShape
<1>2. Len(markers) = wr[w].base /\ tbl' = tbl /\ wr[w].pc = "publish"
  BY <1>1 DEF Publish, Optimistic
<1>3. /\ ~ \E m \in 1..Len(markers) : markers[m].run = wr[w].id
      /\ markers' = Append(markers, Mine(w))
  BY <1>1, <1>2 DEF Publish, Mine
<1>4. DOMAIN markers = 1..Len(markers)
  BY DEF TypeOK
<1> QED BY <1>2, <1>3, <1>4 DEF Committed

Unique(s) == \A m, n \in DOMAIN s : s[m].run = s[n].run => m = n

\* One marker per run, when every MERGE sees the head it appends to.
THEOREM MarkersAreUnique == ASSUME Optimistic PROVE Spec => []OneMarkerPerRun
<1> DEFINE Inv == TypeOK /\ Unique(markers)
<1>1. Init => Inv
  BY InitType DEF Init, Unique
<1>2. Inv /\ [Next]_vars => Inv'
  <2> SUFFICES ASSUME Inv, [Next]_vars PROVE Unique(markers)' /\ TypeOK'
    OBVIOUS
  <2>1. CASE \E r \in Runs : Plan(r)
    BY <2>1, PlanType DEF Plan, Unique
  <2>2. ASSUME NEW w \in Writers, Advance(w) \/ Crash(w) PROVE Unique(markers)' /\ TypeOK'
    <3>1. TypeOK'
      BY <2>2, AdvanceOK, TypeStep
    <3>2. CASE markers' = markers
      BY <3>1, <3>2 DEF Unique
    <3>3. CASE markers' # markers
      <4>1. wr[w].id \notin Committed /\ markers' = Append(markers, Mine(w))
        BY <2>2, <3>3, PublishStep
      <4>2. markers \in Seq(Marker) /\ Mine(w) \in Marker /\ Mine(w).run = wr[w].id
        BY DEF TypeOK, Mine, Marker, Writer
      <4>3. \A m \in DOMAIN markers : markers[m].run # wr[w].id
        BY <4>1 DEF Committed
      <4>4. \A m \in DOMAIN markers' :
              \/ m \in DOMAIN markers /\ markers'[m] = markers[m]
              \/ m = Len(markers) + 1 /\ markers'[m] = Mine(w)
        BY <4>1, <4>2
      <4> QED BY <3>1, <4>2, <4>3, <4>4 DEF Unique
    <3> QED BY <3>2, <3>3
  <2>3. CASE UNCHANGED vars
    BY <2>3 DEF vars, TypeOK, Unique
  <2> QED BY <2>1, <2>2, <2>3 DEF Next
<1>3. Inv => OneMarkerPerRun
  <2> SUFFICES ASSUME Inv, NEW id \in Committed PROVE Cardinality(MarkersOf(id)) = 1
    BY DEF OneMarkerPerRun
  <2>1. PICK m \in DOMAIN markers : markers[m].run = id
    BY DEF Committed
  <2>2. MarkersOf(id) = {m}
    BY <2>1 DEF MarkersOf, Unique
  <2> QED BY <2>2, FS_Singleton
<1> QED BY <1>1, <1>2, <1>3, PTL DEF Spec

\* ------------------------------------------------------------ atomic visibility

\* No run is renamed: the planner's incremental runs, which drop keys of the
\* pinned lineage, are not among the runs.
NeverRenamed == \A r \in Runs : Mode[r] # "incremental"

\* Rows of table t: each is a key of its run, which has it once.
RowsOK(t, rows) ==
  /\ \A x \in rows : \E r \in Runs : x.run = NaturalId(r) /\ x.key \in Keys[r][t]
  /\ \A x, y \in rows : x.run = y.run /\ x.key = y.key => x = y

\* At the heads of the tables f, the run has as many rows as its manifest declares.
AllRows(f, id) == \A t \in Tables : Cardinality(RunRows(f[t], id)) = id.counts[t]

\* The inductive invariant: from the moment its rows were counted, a run is
\* whole, so a MERGE of a duplicate submitter has nothing to add to it.
WholeInv ==
  /\ TypeOK
  /\ \A w \in Writers : /\ wr[w].id = NaturalId(RunOf[w])
                        /\ wr[w].keys = Keys[RunOf[w]]
                        /\ wr[w].pc # "strip"
  /\ \A t \in Tables : RowsOK(t, Rows(tbl[t]))
  /\ \A w \in Writers : wr[w].pc \in {"pin"} \cup Holding => AllRows(tbl, wr[w].id)
  /\ \A id \in Committed : AllRows(tbl, id) /\ \E r \in Runs : id = NaturalId(r)

\* A set of as many rows as there are keys, each row of another key, has all keys.
LEMMA AllKeysPresent ==
  ASSUME NEW S, IsFiniteSet(S), NEW rows, \A x \in rows : x.key \in S,
         \A x, y \in rows : x.key = y.key => x = y, Cardinality(rows) = Cardinality(S)
  PROVE  \A k \in S : \E x \in rows : x.key = k
<1> DEFINE f == [x \in rows |-> x.key]
<1>1. f \in [rows -> S] /\ \A x, y \in rows : f[x] = f[y] => x = y
  OBVIOUS
<1>2. f \in Injection(rows, S)
  BY <1>1 DEF Injection, IsInjective
<1>3. f \in Surjection(rows, S)
  BY <1>2, FS_Injection
<1>4. \A k \in S : \E x \in rows : f[x] = k
  BY <1>3 DEF Surjection
<1> QED BY <1>4

\* The head of a table after an append: its rows and the new ones.
LEMMA AppendedRows ==
  ASSUME NEW T \in TableType, WellFormed(T), NEW id \in RunId,
         NEW keys \in SUBSET AnyKey, NEW journal \in Nat
  PROVE  Rows(AppendKeys(T, id, keys, journal)) =
           Rows(T) \cup {[run |-> id, key |-> k, sid |-> Len(T.snaps) + 1] : k \in keys}
<1> DEFINE sid == Len(T.snaps) + 1
           rows == Rows(T) \cup {[run |-> id, key |-> k, sid |-> sid] : k \in keys}
           snap == [parent |-> T.head, run |-> id, journal |-> journal,
                    undo |-> NoRun, rows |-> rows,
                    anc |-> AncestorsAt(T, T.head) \cup {sid}]
           U == AppendKeys(T, id, keys, journal)
<1>1. U = [snaps |-> Append(T.snaps, snap), head |-> sid]
  BY DEF AppendKeys, Commit
<1>2. snap.rows = rows
  OBVIOUS
<1>3. T.snaps \in Seq(Snapshot \cup {snap}) /\ snap \in Snapshot \cup {snap}
  BY DEF TableType
<1> HIDE DEF snap
<1>4. Append(T.snaps, snap)[Len(T.snaps) + 1] = snap /\ sid # 0
  BY <1>3
<1>5. U.snaps[U.head] = snap /\ U.head # 0
  BY <1>1, <1>4
<1> QED BY <1>2, <1>5 DEF Rows, RowsAt

\* A MERGE only adds keys that its run does not have at the head.
LEMMA LandStep ==
  ASSUME Optimistic, NEW w \in Writers, WholeInv, Advance(w) \/ Crash(w), tbl' # tbl
  PROVE  \E t \in Tables \cup {RunTable}, keys \in SUBSET AnyKey :
           /\ \A u \in Tables \ {t} : tbl'[u] = tbl[u]
           /\ t \in Tables =>
                /\ keys \subseteq Keys[RunOf[w]][t]
                /\ \A k \in keys : ~ \E x \in Rows(tbl[t]) : x.key = k /\ x.run = wr[w].id
                /\ Rows(tbl'[t]) = Rows(tbl[t]) \cup
                     {[run |-> wr[w].id, key |-> k, sid |-> Len(tbl[t].snaps) + 1] : k \in keys}
<1>0. /\ TypeOK /\ wr[w] \in Writer /\ wr[w].id \in RunId /\ wr[w].journal \in Nat
      /\ tbl \in [Tables \cup {RunTable} -> TableType] /\ wr[w].keys = Keys[RunOf[w]]
  BY DEF WholeInv, TypeOK, Writer
<1>1. PICK ok \in BOOLEAN : Land(w, ok)
  BY <1>0, StepShape
<1> DEFINE t == Target(w)
           keys == Unmatched(w)
<1>2. t \in Tables \cup {RunTable}
  <2>1. Len(TableOrder) \in Nat /\ \A n \in 1..Len(TableOrder) : TableOrder[n] \in Tables
    BY IngestConstants DEF Tables
  <2>2. wr[w].pc \in {"confirm", "base", "land", "ok", "err"} => wr[w].i \in 1..Len(TableOrder)
    <3>1. wr[w].i \in Nat \ {0}
      BY <1>0 DEF Writer
    <3> QED BY <1>0, <2>1, <3>1 DEF TypeOK
  <2> QED BY <1>1, <2>1, <2>2 DEF Land, Target, Table
<1>3. /\ tbl[t].head = wr[w].base
      /\ tbl' = [tbl EXCEPT ![t] = AppendKeys(tbl[t], wr[w].id, keys, wr[w].journal)]
  BY <1>0, <1>1, <1>2 DEF Land, Optimistic
<1>4. t = RunTable => keys \subseteq {RunTable}
  BY DEF Unmatched
<1>5. t # RunTable => /\ keys \subseteq wr[w].keys[t]
                      /\ \A k \in keys : ~ \E x \in RowsAt(tbl[t], wr[w].base) :
                           x.key = k /\ x.run = wr[w].id
  BY DEF Unmatched
<1>6. keys \in SUBSET AnyKey
  BY <1>0, <1>2, <1>4, <1>5 DEF Writer, AnyKey
<1> HIDE DEF t, keys
<1>7. \A u \in Tables \ {t} : tbl'[u] = tbl[u]
  BY <1>0, <1>3
<1>8. ASSUME t \in Tables
      PROVE  /\ keys \subseteq Keys[RunOf[w]][t]
             /\ \A k \in keys : ~ \E x \in Rows(tbl[t]) : x.key = k /\ x.run = wr[w].id
             /\ Rows(tbl'[t]) = Rows(tbl[t]) \cup
                  {[run |-> wr[w].id, key |-> k, sid |-> Len(tbl[t].snaps) + 1] : k \in keys}
  <2>1. t # RunTable
    BY <1>8, IngestConstants
  <2>2. tbl[t] \in TableType /\ WellFormed(tbl[t])
    BY <1>0, <1>2 DEF TypeOK
  <2>3. tbl'[t] = AppendKeys(tbl[t], wr[w].id, keys, wr[w].journal)
    BY <1>0, <1>2, <1>3
  <2> QED BY <1>0, <1>3, <1>5, <1>6, <2>1, <2>2, <2>3, AppendedRows DEF Rows
<1> QED BY <1>2, <1>6, <1>7, <1>8

\* The rows of a run that has all its rows stay as they are: a MERGE of another
\* run adds no row of it, and one of the same run finds every key there.
LEMMA WholeRunsKept ==
  ASSUME Optimistic, NEW w \in Writers, WholeInv, Advance(w) \/ Crash(w),
         NEW r \in Runs, AllRows(tbl, NaturalId(r)), NEW u \in Tables
  PROVE  RunRows(tbl'[u], NaturalId(r)) = RunRows(tbl[u], NaturalId(r))
<1> DEFINE id == NaturalId(r)
<1>1. CASE tbl' = tbl
  BY <1>1
<1>2. CASE tbl' # tbl
  <2>1. PICK t \in Tables \cup {RunTable}, keys \in SUBSET AnyKey :
          /\ \A v \in Tables \ {t} : tbl'[v] = tbl[v]
          /\ t \in Tables =>
               /\ keys \subseteq Keys[RunOf[w]][t]
               /\ \A k \in keys : ~ \E x \in Rows(tbl[t]) : x.key = k /\ x.run = wr[w].id
               /\ Rows(tbl'[t]) = Rows(tbl[t]) \cup
                    {[run |-> wr[w].id, key |-> k, sid |-> Len(tbl[t].snaps) + 1] : k \in keys}
    BY <1>2, LandStep
  <2>2. CASE u # t
    <3>1. tbl'[u] = tbl[u]
      BY <2>1, <2>2
    <3> QED BY <3>1
  <2>3. CASE u = t /\ wr[w].id # id
    BY <2>1, <2>3 DEF RunRows, RunRowsAt, Rows
  <2>4. CASE u = t /\ wr[w].id = id
    <3>1. RunOf[w] = r
      <4>1. wr[w].id = NaturalId(RunOf[w])
        BY DEF WholeInv
      <4> QED BY <2>4, <4>1 DEF NaturalId
    <3> DEFINE rows == RunRows(tbl[u], id)
    <3>2. \A x \in rows : x \in Rows(tbl[u]) /\ x.run = id
      BY DEF RunRows, RunRowsAt, Rows
    <3>3. \A x \in rows : x.key \in Keys[r][u]
      <4> SUFFICES ASSUME NEW x \in rows PROVE x.key \in Keys[r][u]
        OBVIOUS
      <4>1. PICK q \in Runs : x.run = NaturalId(q) /\ x.key \in Keys[q][u]
        BY <3>2 DEF WholeInv, RowsOK
      <4>2. q = r
        BY <3>2, <4>1 DEF NaturalId
      <4> QED BY <4>1, <4>2
    <3>4. \A x, y \in rows : x.key = y.key => x = y
      BY <3>2 DEF WholeInv, RowsOK
    <3>5. Cardinality(rows) = Cardinality(Keys[r][u])
      BY DEF AllRows, NaturalId
    <3> HIDE DEF rows
    <3>6. \A k \in Keys[r][u] : \E x \in rows : x.key = k
      BY <3>3, <3>4, <3>5, AllKeysPresent, IngestConstants
    <3>7. keys = {}
      BY <2>1, <2>4, <3>1, <3>2, <3>6
    <3>8. Rows(tbl'[u]) = Rows(tbl[u])
      BY <2>1, <2>4, <3>7
    <3> QED BY <3>8 DEF RunRows, RunRowsAt, Rows
  <2> QED BY <2>2, <2>3, <2>4
<1> QED BY <1>1, <1>2

\* A MERGE keeps every row a key of its run, once.
LEMMA RowsStayOK ==
  ASSUME Optimistic, NEW w \in Writers, WholeInv, Advance(w) \/ Crash(w), NEW u \in Tables
  PROVE  RowsOK(u, Rows(tbl'[u]))
<1>0. RowsOK(u, Rows(tbl[u]))
  BY DEF WholeInv
<1>1. CASE tbl' = tbl
  BY <1>0, <1>1
<1>2. CASE tbl' # tbl
  <2>1. PICK t \in Tables \cup {RunTable}, keys \in SUBSET AnyKey :
          /\ \A v \in Tables \ {t} : tbl'[v] = tbl[v]
          /\ t \in Tables =>
               /\ keys \subseteq Keys[RunOf[w]][t]
               /\ \A k \in keys : ~ \E x \in Rows(tbl[t]) : x.key = k /\ x.run = wr[w].id
               /\ Rows(tbl'[t]) = Rows(tbl[t]) \cup
                    {[run |-> wr[w].id, key |-> k, sid |-> Len(tbl[t].snaps) + 1] : k \in keys}
    BY <1>2, LandStep
  <2>2. CASE u # t
    <3>1. tbl'[u] = tbl[u]
      BY <2>1, <2>2
    <3> QED BY <1>0, <3>1
  <2>3. CASE u = t
    <3> DEFINE old == Rows(tbl[u])
               added == {[run |-> wr[w].id, key |-> k, sid |-> Len(tbl[u].snaps) + 1] : k \in keys}
    <3>1. Rows(tbl'[u]) = old \cup added
      BY <2>1, <2>3
    <3>2. \A x \in added : x.run = wr[w].id /\ x.key \in keys
      OBVIOUS
    <3>3. \A x, y \in added : x.key = y.key => x = y
      OBVIOUS
    <3>4. \A x \in added : \A y \in old : ~ (x.run = y.run /\ x.key = y.key)
      BY <2>1, <2>3, <3>2
    <3>5. \A x \in added : \E r \in Runs : x.run = NaturalId(r) /\ x.key \in Keys[r][u]
      <4>1. wr[w].id = NaturalId(RunOf[w]) /\ RunOf[w] \in Runs
        BY IngestConstants DEF WholeInv
      <4> QED BY <2>1, <2>3, <3>2, <4>1
    <3> HIDE DEF old, added
    <3>6. RowsOK(u, old)
      BY <1>0 DEF old
    <3>7. RowsOK(u, old \cup added)
      BY <3>3, <3>4, <3>5, <3>6 DEF RowsOK
    <3> QED BY <3>1, <3>7
  <2> QED BY <2>2, <2>3
<1> QED BY <1>1, <1>2

\* The step of a submitter preserves the invariant.
LEMMA WholeAdvance ==
  ASSUME Optimistic, NeverRenamed, NEW w \in Writers, WholeInv, Advance(w) \/ Crash(w)
  PROVE  WholeInv'
<1>0. TypeOK /\ wr \in [Writers -> Writer] /\ RunOf[w] \in Runs
  BY IngestConstants DEF WholeInv, TypeOK
<1>1. /\ wr' = [wr EXCEPT ![w] = wr'[w]] /\ MarkerStep(w) /\ TypeOK'
  BY <1>0, AdvanceOK, TypeStep
<1>2. \A v \in Writers \ {w} : wr'[v] = wr[v]
  BY <1>0, <1>1
<1>3. /\ wr'[w].id = wr[w].id /\ wr'[w].keys = wr[w].keys
      /\ wr'[w].pc # "strip"
  BY <1>0, StepShape DEF WholeInv, NeverRenamed
<1>4. ASSUME NEW r \in Runs, AllRows(tbl, NaturalId(r)) PROVE AllRows(tbl', NaturalId(r))
  <2>1. \A u \in Tables : RunRows(tbl'[u], NaturalId(r)) = RunRows(tbl[u], NaturalId(r))
    BY <1>4, WholeRunsKept
  <2> QED BY <1>4, <2>1 DEF AllRows
<1>5. ASSUME NEW v \in Writers
      PROVE  /\ wr'[v].id = NaturalId(RunOf[v])
             /\ wr'[v].keys = Keys[RunOf[v]]
             /\ wr'[v].pc # "strip"
  <2>1. CASE v = w
    BY <1>3, <2>1 DEF WholeInv
  <2>2. CASE v # w
    BY <1>2, <2>2 DEF WholeInv
  <2> QED BY <2>1, <2>2
<1>6. ASSUME NEW v \in Writers, wr'[v].pc \in {"pin"} \cup Holding
      PROVE  AllRows(tbl', wr'[v].id)
  <2>0. wr'[v].id = wr[v].id /\ wr[v].id = NaturalId(RunOf[v]) /\ RunOf[v] \in Runs
    BY <1>5, IngestConstants DEF WholeInv
  <2>1. CASE wr[v].pc \in {"pin"} \cup Holding
    <3>1. AllRows(tbl, NaturalId(RunOf[v]))
      BY <2>0, <2>1 DEF WholeInv
    <3>2. AllRows(tbl', NaturalId(RunOf[v]))
      BY <1>4, <2>0, <3>1
    <3> QED BY <2>0, <3>2
  <2>2. CASE wr[v].pc \notin {"pin"} \cup Holding
    <3>1. v = w
      BY <1>2, <1>6, <2>2
    <3>2. CountTables(w)
      BY <1>0, <1>6, <2>2, <3>1, StepShape, HoldingStep
    <3>3. [t \in Tables |-> Count(w, t)] = wr[w].id.counts /\ tbl' = tbl
      <4>1. wr' # [wr EXCEPT ![w] = [wr[w] EXCEPT !.pc = "failed"]]
        BY <1>0, <1>6, <3>1 DEF Writer, Holding
      <4> QED BY <1>0, <3>2, <4>1 DEF CountTables, ReadOnly
    <3>4. AllRows(tbl, wr[w].id)
      BY <3>3 DEF AllRows, Count
    <3>5. AllRows(tbl', NaturalId(RunOf[w]))
      BY <1>4, <2>0, <3>1, <3>4
    <3> QED BY <2>0, <3>1, <3>5
  <2> QED BY <2>1, <2>2
<1>7. ASSUME NEW id \in Committed' PROVE AllRows(tbl', id) /\ \E r \in Runs : id = NaturalId(r)
  <2>1. CASE id \in Committed
    BY <1>4, <2>1 DEF WholeInv
  <2>2. CASE id \notin Committed
    <3>1. wr[w].pc = "publish" /\ markers' = Append(markers, Mine(w))
      BY <1>1, <2>2 DEF MarkerStep, Committed
    <3>2. id = wr[w].id
      <4>1. markers \in Seq(Marker) /\ Mine(w) \in Marker /\ Mine(w).run = wr[w].id
        BY <1>0 DEF TypeOK, Mine, Marker, Writer
      <4>2. \A m \in DOMAIN markers' : \/ m \in DOMAIN markers /\ markers'[m] = markers[m]
                                     \/ markers'[m] = Mine(w)
        BY <3>1, <4>1
      <4> QED BY <2>2, <4>1, <4>2 DEF Committed
    <3>3. AllRows(tbl, wr[w].id) /\ wr[w].id = NaturalId(RunOf[w])
      BY <3>1 DEF WholeInv, Holding
    <3> QED BY <1>0, <1>4, <3>2, <3>3
  <2> QED BY <2>1, <2>2
<1>8. \A t \in Tables : RowsOK(t, Rows(tbl'[t]))
  BY RowsStayOK
<1> QED BY <1>1, <1>5, <1>6, <1>7, <1>8 DEF WholeInv

LEMMA WholeInit == Init => WholeInv
<1> SUFFICES ASSUME Init PROVE WholeInv
  OBVIOUS
<1>1. TypeOK
  BY InitType
<1>2. \A t \in Tables : Rows(tbl[t]) = {}
  BY DEF Init, Rows, RowsAt, EmptyTable
<1>3. \A w \in Writers : /\ wr[w].id = NaturalId(RunOf[w]) /\ wr[w].keys = Keys[RunOf[w]]
                         /\ wr[w].pc = "idle"
  BY DEF Init, IdleWriter
<1>4. Committed = {}
  BY DEF Init, Committed
<1> QED BY <1>1, <1>2, <1>3, <1>4 DEF WholeInv, RowsOK, Holding

\* The invariant holds of every state, and with it what the refinement needs.
LEMMA WholeNext ==
  ASSUME Optimistic, NeverRenamed, WholeInv, [Next]_vars PROVE WholeInv'
<1>1. CASE \E r \in Runs : Plan(r)
  <2>1. TypeOK'
    BY <1>1, PlanType DEF WholeInv
  <2>2. UNCHANGED <<tbl, markers, wr>>
    BY <1>1 DEF Plan
  <2> QED BY <2>1, <2>2 DEF WholeInv, AllRows, Committed
<1>2. CASE \E w \in Writers : Advance(w) \/ Crash(w)
  BY <1>2, WholeAdvance
<1>3. CASE UNCHANGED vars
  BY <1>3 DEF vars, WholeInv, TypeOK, AllRows, Committed
<1> QED BY <1>1, <1>2, <1>3 DEF Next

\* At the heads, a committed run has each of its keys once: what readers join.
THEOREM CommittedRunsAreExact ==
  ASSUME Optimistic, NeverRenamed PROVE Spec => []CommittedRowsExact
<1>1. WholeInv => CommittedRowsExact
  <2> SUFFICES ASSUME WholeInv, NEW id \in Committed, NEW t \in Tables
               PROVE  /\ Cardinality(RunRows(tbl[t], id)) = id.counts[t]
                      /\ \A x, y \in RunRows(tbl[t], id) : x.key = y.key => x = y
    BY DEF CommittedRowsExact
  <2>1. RowsOK(t, Rows(tbl[t])) /\ AllRows(tbl, id)
    BY DEF WholeInv
  <2> QED BY <2>1 DEF RowsOK, AllRows, RunRows, RunRowsAt, Rows
<1> QED BY <1>1, WholeInit, WholeNext, PTL DEF Spec

\* -------------------------------------------------------------- the refinement

\* A step that commits nothing leaves what readers see alone.
LEMMA QuietStep ==
  ASSUME Optimistic, NEW w \in Writers, WholeInv, Advance(w) \/ Crash(w), markers' = markers
  PROVE  VisibleRows' = VisibleRows
<1>1. Committed' = Committed
  BY DEF Committed
<1>2. ASSUME NEW id \in Committed, NEW t \in Tables
      PROVE  RunRows(tbl'[t], id) = RunRows(tbl[t], id)
  BY WholeRunsKept DEF WholeInv
<1> QED BY <1>1, <1>2 DEF VisibleRows

\* The step that appends a marker publishes its run, whole.
LEMMA MarkerPublishes ==
  ASSUME Optimistic, NEW w \in Writers, WholeInv, Advance(w) \/ Crash(w), markers' # markers
  PROVE  Atomic!Next
<1> DEFINE id == wr[w].id
<1>1. /\ wr[w].pc = "publish" /\ id \notin Committed
      /\ markers' = Append(markers, Mine(w)) /\ tbl' = tbl
  BY PublishStep DEF WholeInv
<1>2. Committed' = Committed \cup {id}
  <2>1. markers \in Seq(Marker) /\ Mine(w) \in Marker /\ Mine(w).run = id
    BY DEF WholeInv, TypeOK, Mine, Marker, Writer
  <2>2. /\ DOMAIN markers' = DOMAIN markers \cup {Len(markers) + 1}
        /\ \A m \in DOMAIN markers : markers'[m] = markers[m]
        /\ markers'[Len(markers) + 1] = Mine(w)
    BY <1>1, <2>1
  <2>3. Committed' = {markers'[m].run : m \in DOMAIN markers'}
    BY DEF Committed
  <2> QED BY <2>1, <2>2, <2>3 DEF Committed
<1>3. AllRows(tbl, id)
  BY <1>1 DEF WholeInv, Holding
<1>4. VisibleRows = [c \in Committed |-> [t \in Tables |-> RunRows(tbl[t], c)]]
  BY DEF VisibleRows
<1>5. VisibleRows' = [c \in Committed \cup {id} |-> [t \in Tables |-> RunRows(tbl[t], c)]]
  BY <1>1, <1>2 DEF VisibleRows
<1>6. Atomic!Whole(id, VisibleRows'[id])
  <2>1. VisibleRows'[id] = [t \in Tables |-> RunRows(tbl[t], id)]
    BY <1>5
  <2>2. \A S : Atomic!Cardinality(S) = Cardinality(S)
    BY DEF Atomic!Cardinality, Cardinality
  <2> QED BY <1>3, <2>1, <2>2 DEF Atomic!Whole, AllRows
<1>7. Atomic!PublishRun(id)
  BY <1>1, <1>4, <1>5, <1>6 DEF Atomic!PublishRun
<1> QED BY <1>5, <1>7 DEF Atomic!Next

\* Staging and publication implement atomic visibility: what readers see of a run
\* appears in one step, whole, and stays as it is.
THEOREM RunsAreAtomic ==
  ASSUME Optimistic, NeverRenamed PROVE Spec => RefinesAtomicRuns
<1>1. Init => WholeInv
  BY WholeInit
<1>2. WholeInv /\ [Next]_vars => WholeInv'
  BY WholeNext
<1>3. Init => Atomic!Init
  <2> SUFFICES ASSUME Init PROVE Atomic!Init
    OBVIOUS
  <2>1. Committed = {}
    BY DEF Init, Committed
  <2> QED BY <2>1 DEF Atomic!Init, VisibleRows
<1>4. WholeInv /\ [Next]_vars => [Atomic!Next]_VisibleRows
  <2> SUFFICES ASSUME WholeInv, [Next]_vars PROVE Atomic!Next \/ VisibleRows' = VisibleRows
    OBVIOUS
  <2>1. CASE \E w \in Writers : Advance(w) \/ Crash(w)
    BY <2>1, QuietStep, MarkerPublishes
  <2>2. CASE (\E r \in Runs : Plan(r)) \/ UNCHANGED vars
    <3>1. tbl' = tbl /\ markers' = markers
      BY <2>2 DEF Plan, vars
    <3> QED BY <3>1 DEF VisibleRows, Committed
  <2> QED BY <2>1, <2>2 DEF Next
<1> QED BY <1>1, <1>2, <1>3, <1>4, PTL DEF Spec, RefinesAtomicRuns, Atomic!Spec

\* ------------------------------------------------------------ the history of a table

EveryRow(T) == UNION {T.snaps[i].rows : i \in Snapshots(T)}
Undone(T, i, x) == \E k \in AncestorsAt(T, i) : T.snaps[k].undo = x.run /\ x.sid < k

\* Ancestors form a chain, which undo snapshots never leave; a snapshot has the rows
\* that its ancestors added, unless a later ancestor has undone their run.
Chained(T) ==
  \A i \in Snapshots(T) :
    LET s == T.snaps[i]
    IN  /\ s.anc = AncestorsAt(T, s.parent) \cup {i}
        /\ s.anc \subseteq 1..i
        /\ \A j \in s.anc : T.snaps[j].anc = {k \in s.anc : k <= j}
        /\ s.run # NoRun => s.undo = NoRun
        /\ s.undo # NoRun => i \in AncestorsAt(T, T.head)

RowsAdded(T) ==
  \A x \in EveryRow(T) :
    /\ x.sid \in Snapshots(T) /\ T.snaps[x.sid].run = x.run
    /\ \A i \in Snapshots(T) :
         x \in T.snaps[i].rows <=> x.sid \in T.snaps[i].anc /\ ~Undone(T, i, x)

History(T) == T \in TableType /\ WellFormed(T) /\ Chained(T) /\ RowsAdded(T)

LEMMA HistoryFacts ==
  ASSUME NEW T, History(T)
  PROVE  /\ T.snaps \in Seq(Snapshot) /\ Len(T.snaps) \in Nat /\ Snapshots(T) = 1..Len(T.snaps)
         /\ T.head \in Nat /\ T.head <= Len(T.snaps) /\ T = [snaps |-> T.snaps, head |-> T.head]
         /\ \A i \in Snapshots(T) :
              /\ i \in Nat \ {0} /\ T.snaps[i] \in Snapshot
              /\ T.snaps[i].parent \in Nat /\ T.snaps[i].parent < i
              /\ T.snaps[i].anc \subseteq 1..i /\ i \in T.snaps[i].anc
              /\ T.snaps[i].run \in RunId \cup {NoRun} /\ T.snaps[i].rows \subseteq Row
              /\ RowsAt(T, i) = T.snaps[i].rows /\ AncestorsAt(T, i) = T.snaps[i].anc
<1>1. T \in TableType /\ WellFormed(T) /\ Chained(T)
  BY DEF History
<1>2. T.snaps \in Seq(Snapshot) /\ T.head \in Nat /\ T = [snaps |-> T.snaps, head |-> T.head]
  BY <1>1 DEF TableType
<1>3. Len(T.snaps) \in Nat /\ Snapshots(T) = 1..Len(T.snaps) /\ T.head <= Len(T.snaps)
  BY <1>1, <1>2 DEF Snapshots, WellFormed
<1>4. ASSUME NEW i \in Snapshots(T)
      PROVE  /\ i \in Nat \ {0} /\ T.snaps[i] \in Snapshot
             /\ T.snaps[i].parent \in Nat /\ T.snaps[i].parent < i
             /\ T.snaps[i].anc \subseteq 1..i /\ i \in T.snaps[i].anc
             /\ T.snaps[i].run \in RunId \cup {NoRun} /\ T.snaps[i].rows \subseteq Row
             /\ RowsAt(T, i) = T.snaps[i].rows /\ AncestorsAt(T, i) = T.snaps[i].anc
  <2>1. i \in Nat \ {0} /\ T.snaps[i] \in Snapshot
    BY <1>2, <1>3
  <2>2. T.snaps[i].parent < i
    BY <1>1 DEF WellFormed
  <2>3. T.snaps[i].anc = AncestorsAt(T, T.snaps[i].parent) \cup {i} /\ T.snaps[i].anc \subseteq 1..i
    BY <1>1 DEF Chained
  <2> QED BY <2>1, <2>2, <2>3 DEF Snapshot, RowsAt, AncestorsAt
<1> QED BY <1>2, <1>3, <1>4

\* A snapshot that adds rows of its run, or one that takes those of a run away.
LEMMA HistoryCommit ==
  ASSUME NEW T, History(T), NEW r \in RunId \cup {NoRun}, NEW journal \in Nat,
         NEW undo \in RunId \cup {NoRun}, NEW rows \in SUBSET Row,
         r # NoRun => undo = NoRun,
         \A x \in rows : x \in Rows(T) \/ (x.sid = Len(T.snaps) + 1 /\ x.run = r),
         \A x \in Rows(T) : x \in rows <=> x.run # undo
  PROVE  History(Commit(T, r, journal, undo, rows))
<1> DEFINE new == Len(T.snaps) + 1
           anc == AncestorsAt(T, T.head) \cup {new}
           s == [parent |-> T.head, run |-> r, journal |-> journal, undo |-> undo, rows |-> rows,
                 anc |-> anc]
           U == Commit(T, r, journal, undo, rows)
<1>0. /\ T.snaps \in Seq(Snapshot) /\ Len(T.snaps) \in Nat /\ Snapshots(T) = 1..Len(T.snaps)
      /\ T.head \in Nat /\ T.head <= Len(T.snaps)
  BY HistoryFacts
<1>1. U = [snaps |-> Append(T.snaps, s), head |-> new]
  BY DEF Commit
<1>2. AncestorsAt(T, T.head) \subseteq 1..T.head /\ (T.head # 0 => T.head \in AncestorsAt(T, T.head))
  BY <1>0, HistoryFacts DEF AncestorsAt
<1>3. anc \subseteq 1..new /\ anc \in SUBSET Nat /\ new \in anc
  BY <1>0, <1>2
<1>4. s \in Snapshot
  BY <1>0, <1>3 DEF Snapshot
<1> HIDE DEF s
<1>5. /\ U.snaps \in Seq(Snapshot) /\ U.head = new /\ Snapshots(U) = Snapshots(T) \cup {new}
      /\ new \notin Snapshots(T) /\ U.snaps[new] = s
      /\ \A i \in Snapshots(T) : U.snaps[i] = T.snaps[i]
  BY <1>0, <1>1, <1>4 DEF Snapshots
<1>6. /\ s.parent = T.head /\ s.run = r /\ s.undo = undo /\ s.rows = rows /\ s.anc = anc
  BY DEF s
<1> HIDE DEF U
<1>7. U \in TableType
  BY <1>0, <1>1, <1>4 DEF TableType
<1>8. WellFormed(U)
  <2>1. U.head <= Len(U.snaps)
    BY <1>0, <1>1, <1>4
  <2>2. \A i \in Snapshots(U) : U.snaps[i].parent < i
    BY <1>0, <1>5, <1>6, HistoryFacts
  <2> QED BY <2>1, <2>2 DEF WellFormed
<1>9. ASSUME NEW i \in {0} \cup Snapshots(T)
      PROVE  AncestorsAt(U, i) = AncestorsAt(T, i) /\ RowsAt(U, i) = RowsAt(T, i)
  BY <1>5 DEF AncestorsAt, RowsAt
<1>10. AncestorsAt(U, new) = anc /\ RowsAt(U, new) = rows /\ T.head \in {0} \cup Snapshots(T)
  BY <1>0, <1>5, <1>6 DEF AncestorsAt, RowsAt
<1>11. Chained(U)
  <2>1. ASSUME NEW i \in Snapshots(T)
        PROVE  /\ U.snaps[i].anc = AncestorsAt(U, U.snaps[i].parent) \cup {i}
               /\ U.snaps[i].anc \subseteq 1..i
               /\ \A j \in U.snaps[i].anc : U.snaps[j].anc = {k \in U.snaps[i].anc : k <= j}
               /\ U.snaps[i].run # NoRun => U.snaps[i].undo = NoRun
               /\ U.snaps[i].undo # NoRun => i \in anc
    <3>1. U.snaps[i] = T.snaps[i]
      BY <1>5
    <3>2. T.snaps[i].parent \in {0} \cup Snapshots(T) /\ T.snaps[i].anc \subseteq Snapshots(T)
      BY <1>0, HistoryFacts
    <3>3. \A j \in T.snaps[i].anc : U.snaps[j] = T.snaps[j]
      BY <1>5, <3>2
    <3> QED BY <1>9, <3>1, <3>2, <3>3 DEF History, Chained
  <2>2. /\ s.anc = AncestorsAt(U, s.parent) \cup {new}
        /\ s.anc \subseteq 1..new
        /\ s.run # NoRun => s.undo = NoRun
        /\ new \in anc
    BY <1>3, <1>6, <1>9, <1>10
  <2>3. ASSUME NEW j \in anc PROVE U.snaps[j].anc = {k \in anc : k <= j}
    <3>1. CASE j = new
      BY <1>0, <1>3, <1>5, <1>6, <3>1
    <3>2. CASE j # new
      <4>1. j \in AncestorsAt(T, T.head) /\ T.head \in Snapshots(T)
        BY <1>0, <3>2 DEF AncestorsAt
      <4>2. j \in T.snaps[T.head].anc /\ j \in 1..T.head /\ AncestorsAt(T, T.head) = T.snaps[T.head].anc
        BY <1>2, <4>1, HistoryFacts
      <4>3. T.snaps[j].anc = {k \in T.snaps[T.head].anc : k <= j}
        BY <4>1, <4>2 DEF History, Chained
      <4>4. j \in Snapshots(T)
        BY <1>0, <4>2
      <4>5. U.snaps[j] = T.snaps[j] /\ j < new
        BY <1>0, <1>5, <4>4
      <4> QED BY <1>0, <4>2, <4>3, <4>5
    <3> QED BY <3>1, <3>2
  <2>4. ASSUME NEW i \in Snapshots(U)
        PROVE  /\ U.snaps[i].anc = AncestorsAt(U, U.snaps[i].parent) \cup {i}
               /\ U.snaps[i].anc \subseteq 1..i
               /\ \A j \in U.snaps[i].anc : U.snaps[j].anc = {k \in U.snaps[i].anc : k <= j}
               /\ U.snaps[i].run # NoRun => U.snaps[i].undo = NoRun
               /\ U.snaps[i].undo # NoRun => i \in anc
    <3>1. CASE i \in Snapshots(T)
      BY <2>1, <3>1
    <3>2. CASE i = new
      <4>1. U.snaps[i] = s /\ s.anc = anc
        BY <1>5, <1>6, <3>2
      <4> HIDE DEF anc, new
      <4> QED BY <2>2, <2>3, <3>2, <4>1
    <3> QED BY <1>5, <3>1, <3>2
  <2> QED BY <1>5, <1>10, <2>4 DEF Chained
<1>12. RowsAdded(U)
  <2>1. EveryRow(U) = EveryRow(T) \cup rows
    BY <1>5, <1>6 DEF EveryRow
  <2>2. Rows(T) \subseteq EveryRow(T)
    BY <1>10 DEF Rows, RowsAt, EveryRow
  <2>3. ASSUME NEW x \in EveryRow(T)
        PROVE  /\ x.sid \in Snapshots(U) /\ U.snaps[x.sid].run = x.run
               /\ \A i \in Snapshots(U) :
                    x \in U.snaps[i].rows <=> x.sid \in U.snaps[i].anc /\ ~Undone(U, i, x)
    <3>0. /\ x.sid \in Snapshots(T) /\ T.snaps[x.sid].run = x.run /\ x.run \in RunId
          /\ \A i \in Snapshots(T) :
                x \in T.snaps[i].rows <=> x.sid \in T.snaps[i].anc /\ ~Undone(T, i, x)
      <4>1. x \in Row
        BY HistoryFacts DEF EveryRow
      <4> QED BY <4>1 DEF Row, History, RowsAdded
    <3>1. ASSUME NEW i \in Snapshots(T)
          PROVE  x \in U.snaps[i].rows <=> x.sid \in U.snaps[i].anc /\ ~Undone(U, i, x)
      <4>1. AncestorsAt(T, i) \subseteq Snapshots(T)
        BY <1>0, HistoryFacts
      <4>2. Undone(U, i, x) <=> Undone(T, i, x)
        BY <1>5, <1>9, <4>1 DEF Undone
      <4> QED BY <1>5, <3>0, <4>2
    <3>2. x \in rows <=> x \in Rows(T) /\ x.run # undo
      BY <1>5, <3>0
    <3>3. x \in Rows(T) <=> x.sid \in AncestorsAt(T, T.head) /\ ~Undone(T, T.head, x)
      BY <1>10, <3>0 DEF Rows, RowsAt, AncestorsAt
    <3>4. x.sid \in anc <=> x.sid \in AncestorsAt(T, T.head)
      BY <1>5, <3>0
    <3>5. Undone(U, new, x) <=> Undone(T, T.head, x) \/ undo = x.run
      <4>1. AncestorsAt(T, T.head) \subseteq Snapshots(T) /\ x.sid < new
        BY <1>0, <1>2, <3>0
      <4>2. \A k \in AncestorsAt(T, T.head) : U.snaps[k] = T.snaps[k]
        BY <1>5, <4>1
      <4>3. U.snaps[new].undo = undo
        BY <1>5, <1>6
      <4> HIDE DEF new
      <4> QED BY <1>10, <4>1, <4>2, <4>3 DEF Undone
    <3>6. x \in U.snaps[new].rows <=> x.sid \in U.snaps[new].anc /\ ~Undone(U, new, x)
      BY <1>5, <1>6, <3>2, <3>3, <3>4, <3>5
    <3> QED BY <1>5, <3>0, <3>1, <3>6
  <2>4. ASSUME NEW x \in rows, x \notin Rows(T)
        PROVE  /\ x.sid \in Snapshots(U) /\ U.snaps[x.sid].run = x.run
               /\ \A i \in Snapshots(U) :
                    x \in U.snaps[i].rows <=> x.sid \in U.snaps[i].anc /\ ~Undone(U, i, x)
    <3>0. x.sid = new /\ x.run = r /\ x.run \in RunId /\ r # NoRun /\ undo = NoRun
      BY <2>4, RollbackConstants DEF Row
    <3>1. ASSUME NEW i \in Snapshots(T) PROVE x \notin U.snaps[i].rows /\ x.sid \notin U.snaps[i].anc
      <4>1. x.sid \notin U.snaps[i].anc
        BY <1>0, <1>5, <3>0, HistoryFacts
      <4>2. ASSUME x \in T.snaps[i].rows PROVE FALSE
        <5>1. x.sid \in Snapshots(T)
          BY <4>2 DEF EveryRow, History, RowsAdded
        <5> QED BY <1>5, <3>0, <5>1
      <4> QED BY <1>5, <4>1, <4>2
    <3>2. ~Undone(U, new, x)
      <4>1. \A k \in anc : ~(x.sid < k)
        BY <1>0, <1>3, <3>0
      <4> QED BY <1>10, <4>1 DEF Undone
    <3>3. x \in U.snaps[new].rows /\ x.sid \in U.snaps[new].anc
      BY <1>3, <1>5, <1>6, <3>0
    <3> QED BY <1>5, <1>6, <3>0, <3>1, <3>2, <3>3
  <2> QED BY <2>1, <2>2, <2>3, <2>4 DEF RowsAdded
<1> QED BY <1>7, <1>8, <1>11, <1>12 DEF History, U

\* Snapshots stay as they are while others are committed and heads are moved.
Grown(T, U) == \A i \in Snapshots(T) : i \in Snapshots(U) /\ U.snaps[i] = T.snaps[i]

LEMMA GrownFacts ==
  ASSUME NEW T, NEW U, Grown(T, U), NEW i \in {0} \cup Snapshots(T)
  PROVE  /\ i \in {0} \cup Snapshots(U)
         /\ RowsAt(U, i) = RowsAt(T, i) /\ AncestorsAt(U, i) = AncestorsAt(T, i)
BY DEF Grown, RowsAt, AncestorsAt

LEMMA CommitFacts ==
  ASSUME NEW T, History(T), NEW r, NEW journal, NEW undo, NEW rows
  PROVE  LET U == Commit(T, r, journal, undo, rows)
         IN  /\ Grown(T, U) /\ U.head = Len(T.snaps) + 1 /\ Len(U.snaps) = Len(T.snaps) + 1
             /\ Snapshots(U) = Snapshots(T) \cup {U.head} /\ U.head \notin Snapshots(T)
             /\ U.snaps[U.head].run = r /\ U.snaps[U.head].undo = undo
             /\ U.snaps[U.head].parent = T.head
             /\ RowsAt(U, U.head) = rows /\ Rows(U) = rows
<1> DEFINE new == Len(T.snaps) + 1
           s == [parent |-> T.head, run |-> r, journal |-> journal, undo |-> undo, rows |-> rows,
                 anc |-> AncestorsAt(T, T.head) \cup {new}]
           U == Commit(T, r, journal, undo, rows)
<1>1. T.snaps \in Seq(Snapshot) /\ Len(T.snaps) \in Nat /\ Snapshots(T) = 1..Len(T.snaps)
  BY HistoryFacts
<1>2. U = [snaps |-> Append(T.snaps, s), head |-> new]
  BY DEF Commit
<1>3. s.run = r /\ s.undo = undo /\ s.rows = rows /\ s.parent = T.head
  OBVIOUS
<1> HIDE DEF s
<1>4. /\ Append(T.snaps, s)[new] = s /\ Len(Append(T.snaps, s)) = new
      /\ \A i \in 1..Len(T.snaps) : Append(T.snaps, s)[i] = T.snaps[i]
      /\ DOMAIN Append(T.snaps, s) = 1..new
  BY <1>1
<1>5. 1..new = 1..Len(T.snaps) \cup {new} /\ new \notin 1..Len(T.snaps) /\ new # 0
  BY <1>1
<1> HIDE DEF U, new
<1> QED BY <1>1, <1>2, <1>3, <1>4, <1>5 DEF Snapshots, Grown, RowsAt, Rows, U, new

\* The rows a MERGE of run id adds for the keys it found unmatched.
AddedRows(T, id, keys) == {[run |-> id, key |-> k, sid |-> Len(T.snaps) + 1] : k \in keys}

LEMMA HistoryAppend ==
  ASSUME NEW T, History(T), NEW id \in RunId, NEW keys \in SUBSET AnyKey, NEW journal \in Nat,
         NEW U, U = AppendKeys(T, id, keys, journal), NEW added, added = AddedRows(T, id, keys)
  PROVE  /\ History(U) /\ Grown(T, U) /\ U.head = Len(U.snaps)
         /\ Snapshots(U) = Snapshots(T) \cup {U.head} /\ U.snaps[U.head].run = id
         /\ Rows(U) = Rows(T) \cup added
<1> DEFINE rows == Rows(T) \cup added
<1>1. U = Commit(T, id, journal, NoRun, rows)
  BY DEF AppendKeys, AddedRows
<1>2. Len(T.snaps) + 1 \in Nat /\ Rows(T) \subseteq Row
  BY HistoryFacts DEF Rows, RowsAt
<1>3. added \subseteq Row /\ \A x \in added : x.sid = Len(T.snaps) + 1 /\ x.run = id
  BY <1>2 DEF Row, AddedRows
<1>4. \A x \in Rows(T) : x.run # NoRun
  BY <1>2, RollbackConstants DEF Row
<1>5. id # NoRun
  BY RollbackConstants
<1>6. History(Commit(T, id, journal, NoRun, rows))
  BY <1>2, <1>3, <1>4, <1>5, HistoryCommit
<1> HIDE DEF rows
<1>7. /\ Grown(T, U) /\ U.head = Len(T.snaps) + 1 /\ Len(U.snaps) = Len(T.snaps) + 1
      /\ Snapshots(U) = Snapshots(T) \cup {U.head} /\ U.snaps[U.head].run = id /\ Rows(U) = rows
  BY <1>1, CommitFacts
<1> QED BY <1>1, <1>6, <1>7 DEF rows

\* The rows of a run are deleted.
LEMMA HistoryUndo ==
  ASSUME NEW T, History(T), NEW id \in RunId
  PROVE  LET U == Commit(T, NoRun, 0, id, WithoutRun(T, id))
         IN  /\ History(U) /\ Grown(T, U) /\ U.head \notin {0} \cup Snapshots(T)
             /\ Snapshots(U) = Snapshots(T) \cup {U.head}
             /\ U.snaps[U.head].run = NoRun /\ U.snaps[U.head].undo = id
             /\ Rows(U) = WithoutRun(T, id)
<1> DEFINE U == Commit(T, NoRun, 0, id, WithoutRun(T, id))
<1>1. Rows(T) \subseteq Row /\ WithoutRun(T, id) \in SUBSET Row
  BY HistoryFacts DEF Rows, RowsAt, WithoutRun
<1>2. History(U)
  BY <1>1, HistoryCommit DEF WithoutRun
<1>3. Len(T.snaps) \in Nat
  BY HistoryFacts
<1> QED BY <1>2, <1>3, CommitFacts

\* A stretch of one run's snapshots, from just above a target to a tip.
Stretch(T, tip, target, id) ==
  /\ tip \in Snapshots(T) /\ target \in {0} \cup T.snaps[tip].anc /\ target < tip
  /\ \A j \in T.snaps[tip].anc : target < j => T.snaps[j].run = id

\* Going back over it takes rows of that run away and no others.
LEMMA Unwound ==
  ASSUME NEW T, History(T), NEW id \in RunId, NEW tip, NEW target, Stretch(T, tip, target, id)
  PROVE  /\ AncestorsAt(T, target) = {k \in T.snaps[tip].anc : k <= target}
         /\ RowsAt(T, target) \subseteq T.snaps[tip].rows
         /\ \A x \in T.snaps[tip].rows : x.run = id \/ x \in RowsAt(T, target)
         /\ \A j \in T.snaps[tip].anc : target < j => T.snaps[j].undo = NoRun
<1>0. /\ tip \in Snapshots(T) /\ T.snaps[tip].anc \subseteq 1..tip /\ tip \in Nat /\ tip <= Len(T.snaps)
      /\ target \in {0} \cup Snapshots(T) /\ target \in Nat /\ NoRun \notin RunId
      /\ T.snaps[tip].anc \subseteq Snapshots(T)
      /\ Snapshots(T) = 1..Len(T.snaps) /\ Len(T.snaps) \in Nat
  BY HistoryFacts, RollbackConstants DEF Stretch
<1>1. \A j \in T.snaps[tip].anc : target < j => T.snaps[j].undo = NoRun /\ T.snaps[j].run = id
  BY <1>0 DEF Stretch, History, Chained
<1>2. AncestorsAt(T, target) = {k \in T.snaps[tip].anc : k <= target}
  <2>1. CASE target = 0
    BY <1>0, <2>1 DEF AncestorsAt
  <2>2. CASE target # 0
    <3>1. target \in T.snaps[tip].anc
      BY <2>2 DEF Stretch
    <3> QED BY <1>0, <2>2, <3>1 DEF AncestorsAt, History, Chained
  <2> QED BY <2>1, <2>2
<1>3. ASSUME NEW x \in EveryRow(T)
      PROVE  /\ x.sid \in Snapshots(T) /\ T.snaps[x.sid].run = x.run /\ x.run \in RunId
             /\ x \in T.snaps[tip].rows <=> x.sid \in T.snaps[tip].anc /\ ~Undone(T, tip, x)
             /\ x \in RowsAt(T, target) <=> x.sid \in AncestorsAt(T, target) /\ ~Undone(T, target, x)
  <2>1. x \in Row
    BY HistoryFacts DEF EveryRow
  <2>2. target # 0 => target \in Snapshots(T)
    BY <1>0
  <2> QED BY <1>0, <2>1, <2>2 DEF Row, History, RowsAdded, RowsAt, AncestorsAt
<1>4. RowsAt(T, target) \subseteq EveryRow(T) /\ T.snaps[tip].rows \subseteq EveryRow(T)
  BY <1>0 DEF EveryRow, RowsAt
<1>5. T.snaps[tip].anc = AncestorsAt(T, tip)
  BY <1>0, HistoryFacts
<1>6. ASSUME NEW x \in RowsAt(T, target) PROVE x \in T.snaps[tip].rows
  <2>1. x.sid \in T.snaps[tip].anc /\ x.run \in RunId
    BY <1>2, <1>3, <1>4
  <2>2. ASSUME NEW k \in T.snaps[tip].anc, T.snaps[k].undo = x.run, x.sid < k PROVE FALSE
    <3>1. CASE k <= target
      BY <1>2, <1>3, <1>4, <2>2, <3>1 DEF Undone
    <3>2. CASE target < k
      BY <1>0, <1>1, <2>1, <2>2, <3>2
    <3> QED BY <1>0, <3>1, <3>2
  <2> QED BY <1>3, <1>4, <1>5, <2>1, <2>2 DEF Undone
<1>7. ASSUME NEW x \in T.snaps[tip].rows, x.run # id PROVE x \in RowsAt(T, target)
  <2>1. x.sid \in T.snaps[tip].anc /\ T.snaps[x.sid].run = x.run
    BY <1>3, <1>4
  <2>2. x.sid <= target
    BY <1>0, <1>1, <1>7, <2>1
  <2> QED BY <1>2, <1>3, <1>4, <1>5, <2>1, <2>2 DEF Undone
<1> QED BY <1>1, <1>2, <1>6, <1>7

\* The head goes back over it.
LEMMA HistoryBack ==
  ASSUME NEW T, History(T), NEW id \in RunId, NEW target, Stretch(T, T.head, target, id)
  PROVE  LET U == [T EXCEPT !.head = target]
         IN  History(U) /\ Grown(T, U) /\ U.head = target /\ U.snaps = T.snaps
             /\ Rows(U) = RowsAt(T, target)
<1> DEFINE U == [T EXCEPT !.head = target]
<1>1. U.head = target /\ U.snaps = T.snaps /\ Snapshots(U) = Snapshots(T)
  BY HistoryFacts DEF Snapshots
<1>2. target \in Nat /\ target <= Len(T.snaps) /\ T.head \in Snapshots(T)
  BY HistoryFacts DEF Stretch
<1>3. U \in TableType /\ WellFormed(U)
  BY <1>1, <1>2 DEF History, TableType, WellFormed
<1>4. \A i \in Nat : RowsAt(U, i) = RowsAt(T, i) /\ AncestorsAt(U, i) = AncestorsAt(T, i)
  BY <1>1 DEF RowsAt, AncestorsAt
<1>5. Chained(U)
  <2>1. ASSUME NEW i \in Snapshots(T), T.snaps[i].undo # NoRun PROVE i \in AncestorsAt(U, U.head)
    <3>1. i \in T.snaps[T.head].anc
      BY <1>2, <2>1, HistoryFacts DEF History, Chained
    <3>2. ~(target < i) /\ i \in Nat
      BY <2>1, <3>1, Unwound, HistoryFacts
    <3> QED BY <1>1, <1>2, <1>4, <3>1, <3>2, Unwound
  <2>2. \A i \in Snapshots(T) : T.snaps[i].parent \in Nat
    BY HistoryFacts
  <2> QED BY <1>1, <1>4, <2>1, <2>2 DEF History, Chained
<1>6. RowsAdded(U)
  <2>1. EveryRow(U) = EveryRow(T)
    BY <1>1 DEF EveryRow
  <2>2. \A i \in Snapshots(T) : \A x : Undone(U, i, x) <=> Undone(T, i, x)
    BY <1>1, <1>4, HistoryFacts DEF Undone
  <2> QED BY <1>1, <2>1, <2>2 DEF History, RowsAdded
<1>7. Rows(U) = RowsAt(T, target) /\ Grown(T, U)
  BY <1>1, <1>2, <1>4 DEF Rows, Grown
<1> QED BY <1>1, <1>3, <1>5, <1>6, <1>7 DEF History

\* ----------------------------------------------------------------- planned actions

\* No row of the run at a snapshot, which is not its own either.
CleanAt(T, i, id) == RunRowsAt(T, i, id) = {} /\ (i # 0 => T.snaps[i].run # id)

Before == {p \in Nat \X Nat : p[1] < p[2]}

LEMMA Smallest ==
  ASSUME NEW N \in SUBSET Nat, N # {}
  PROVE  \E t \in N : \A u \in N : t <= u
<1>1. IsWellFoundedOn(Before, Nat)
  BY NatLessThanWellFounded DEF OpToRel, Before
<1>2. PICK t \in N : \A u \in N : ~(<<u, t>> \in Before)
  BY <1>1, WFMin
<1>3. \A u \in N : ~(u < t)
  BY <1>2 DEF Before
<1> QED BY <1>3

LEMMA Largest ==
  ASSUME NEW n \in Nat, NEW S \in SUBSET (1..n), S # {}
  PROVE  Latest(S) \in S /\ \A j \in S : j <= Latest(S)
<1> DEFINE N == {n - s : s \in S}
<1>1. N \in SUBSET Nat /\ N # {}
  <2>1. \A s \in S : n - s \in Nat
    OBVIOUS
  <2>2. PICK s \in S : TRUE
    OBVIOUS
  <2> QED BY <2>1, <2>2
<1> HIDE DEF N
<1>2. PICK x \in N : \A y \in N : x <= y
  BY <1>1, Smallest
<1>3. PICK i \in S : x = n - i
  BY <1>2 DEF N
<1>4. \A j \in S : n - j \in N
  BY DEF N
<1>5. \A j \in S : j <= i
  BY <1>2, <1>3, <1>4
<1> QED BY <1>5 DEF Latest

\* A snapshot above which every snapshot of the run has been undone is clean.
LEMMA CleanByUndo ==
  ASSUME NEW T, History(T), NEW id \in RunId, NEW i \in {0} \cup Snapshots(T),
         \A j \in AncestorsAt(T, i) : T.snaps[j].run = id =>
            \E k \in AncestorsAt(T, i) : T.snaps[k].undo = id /\ j < k
  PROVE  CleanAt(T, i, id)
<1>1. CASE i = 0
  BY <1>1 DEF CleanAt, RunRowsAt, RowsAt
<1>2. CASE i # 0
  <2>1. i \in Snapshots(T) /\ i \in Nat /\ AncestorsAt(T, i) \subseteq 1..i /\ i \in AncestorsAt(T, i)
        /\ RowsAt(T, i) = T.snaps[i].rows /\ T.snaps[i].rows \subseteq EveryRow(T)
        /\ AncestorsAt(T, i) = T.snaps[i].anc
    BY <1>2, HistoryFacts DEF EveryRow
  <2>2. T.snaps[i].run # id
    BY <2>1
  <2>3. ASSUME NEW x \in T.snaps[i].rows, x.run = id PROVE FALSE
    <3>1. /\ T.snaps[x.sid].run = id /\ x.sid \in AncestorsAt(T, i)
          /\ ~Undone(T, i, x)
      BY <2>1, <2>3 DEF History, RowsAdded
    <3> QED BY <2>3, <3>1 DEF Undone
  <2> QED BY <2>1, <2>2, <2>3 DEF CleanAt, RunRowsAt
<1> QED BY <1>1, <1>2

\* So is the snapshot that undoes the run.
LEMMA UndoneIsClean ==
  ASSUME NEW T, History(T), NEW id \in RunId, T.head # 0, T.snaps[T.head].undo = id
  PROVE  CleanAt(T, T.head, id)
<1>1. T.head \in Snapshots(T) /\ AncestorsAt(T, T.head) \subseteq 1..T.head /\ T.head \in AncestorsAt(T, T.head)
      /\ T.head \in Nat
  BY HistoryFacts
<1>2. T.snaps[T.head].run # id
  BY <1>1, RollbackConstants DEF History, Chained
<1>3. \A j \in AncestorsAt(T, T.head) : T.snaps[j].run = id => j < T.head
  BY <1>1, <1>2
<1> QED BY <1>1, <1>3, CleanByUndo

\* Where the command finds itself at its target, the table is clean.
LEMMA TargetIsClean ==
  ASSUME NEW T, History(T), NEW id \in RunId, NEW target, CleanAt(T, target, id),
         AtTarget(T, id, target)
  PROVE  CleanAt(T, T.head, id)
BY UndoneIsClean DEF AtTarget

\* The last rollback marker, which is on the chain of the head.
LEMMA CutoffFacts ==
  ASSUME NEW T, History(T), NEW id \in RunId
  PROVE  LET cut == Cutoff(RollbackMarkers(T, id))
         IN  /\ cut \in Nat
             /\ cut # 0 => /\ cut \in AncestorsAt(T, T.head)
                           /\ T.snaps[cut].undo = id /\ T.snaps[cut].run # id
             /\ \A k \in Snapshots(T) : T.snaps[k].undo = id => k <= cut
<1> DEFINE M == RollbackMarkers(T, id)
           cut == Cutoff(M)
<1>1. M \in SUBSET (1..Len(T.snaps)) /\ Len(T.snaps) \in Nat /\ NoRun \notin RunId
      /\ M \subseteq Snapshots(T)
  BY HistoryFacts, RollbackConstants DEF RollbackMarkers
<1>2. CASE M = {}
  BY <1>2 DEF Cutoff, RollbackMarkers
<1>3. CASE M # {}
  <2>1. cut \in M /\ \A j \in M : j <= cut
    <3>1. cut = Latest(M)
      BY <1>3 DEF Cutoff
    <3> HIDE DEF M, cut
    <3> QED BY <1>1, <1>3, <3>1, Largest
  <2> HIDE DEF cut
  <2>2. cut \in Snapshots(T) /\ T.snaps[cut].undo = id
    BY <2>1 DEF RollbackMarkers
  <2>3. cut \in AncestorsAt(T, T.head) /\ T.snaps[cut].run # id
    BY <1>1, <2>2 DEF History, Chained
  <2>4. \A k \in Snapshots(T) : T.snaps[k].undo = id => k <= cut
    BY <2>1 DEF RollbackMarkers
  <2> QED BY <1>1, <2>1, <2>2, <2>3, <2>4 DEF cut
<1> QED BY <1>2, <1>3

ActiveChain(T, id) ==
  {i \in AllOwned(T, id) : i \in AncestorsAt(T, T.head) /\ i > Cutoff(RollbackMarkers(T, id))}

LEMMA ChainSetFacts ==
  ASSUME NEW T, NEW id
  PROVE  /\ ChainSet(T, id) \subseteq AllOwned(T, id)
         /\ ActiveChain(T, id) # {} => ChainSet(T, id) = ActiveChain(T, id)
BY DEF ChainSet, ActiveChain, Component

\* Without snapshots of the run above the last marker the head is clean.
LEMMA InactiveIsClean ==
  ASSUME NEW T, History(T), NEW id \in RunId, ActiveChain(T, id) = {}
  PROVE  CleanAt(T, T.head, id)
<1> DEFINE cut == Cutoff(RollbackMarkers(T, id))
<1>1. /\ cut \in Nat
      /\ cut # 0 => /\ cut \in AncestorsAt(T, T.head)
                    /\ T.snaps[cut].undo = id /\ T.snaps[cut].run # id
  BY CutoffFacts
<1>2. T.head \in {0} \cup Snapshots(T) /\ AncestorsAt(T, T.head) \subseteq 1..Len(T.snaps)
      /\ Snapshots(T) = 1..Len(T.snaps) /\ Len(T.snaps) \in Nat
  <2>1. /\ T.head \in Nat /\ T.head <= Len(T.snaps) /\ Len(T.snaps) \in Nat
        /\ Snapshots(T) = 1..Len(T.snaps)
    BY HistoryFacts
  <2>2. CASE T.head = 0
    BY <2>1, <2>2 DEF AncestorsAt
  <2>3. CASE T.head # 0
    BY <2>1, <2>3, HistoryFacts
  <2> QED BY <2>2, <2>3
<1>3. ASSUME NEW j \in AncestorsAt(T, T.head), T.snaps[j].run = id
      PROVE  \E k \in AncestorsAt(T, T.head) : T.snaps[k].undo = id /\ j < k
  <2>1. ~(j > cut)
    BY <1>2, <1>3 DEF ActiveChain, AllOwned
  <2> HIDE DEF cut
  <2>2. j # cut /\ cut # 0 /\ j < cut
    BY <1>1, <1>2, <1>3, <2>1
  <2> QED BY <1>1, <2>2
<1> HIDE DEF cut
<1> QED BY <1>2, <1>3, CleanByUndo

\* A chain that the command accepts is one stretch of the run's snapshots above a
\* clean target; the head is its tip, or is clean.
LEMMA SoundChain ==
  ASSUME NEW T, History(T), NEW id \in RunId, ChainSet(T, id) # {},
         Sound(T, id, ChainSet(T, id)),
         NEW tip, NEW root, Tips(T, ChainSet(T, id)) = {tip}, Roots(T, ChainSet(T, id)) = {root}
  PROVE  /\ Stretch(T, tip, T.snaps[root].parent, id)
         /\ CleanAt(T, T.snaps[root].parent, id)
         /\ T.head # tip => CleanAt(T, T.head, id)
<1> DEFINE C == ChainSet(T, id)
           target == T.snaps[root].parent
           cut == Cutoff(RollbackMarkers(T, id))
<1>1. /\ tip \in C /\ root \in C /\ C \subseteq AllOwned(T, id) /\ AllOwned(T, id) \subseteq Snapshots(T)
      /\ \A i \in C : T.snaps[i].run = id
  BY ChainSetFacts DEF Tips, Roots, AllOwned
<1>2. /\ C = {j \in AncestorsAt(T, tip) : j >= root}
      /\ T.head = tip \/ AtTarget(T, id, target)
  BY DEF Sound
<1>3. /\ Snapshots(T) = 1..Len(T.snaps) /\ Len(T.snaps) \in Nat
      /\ tip \in Nat /\ root \in Nat /\ root # 0 /\ target \in Nat /\ target < root
      /\ AncestorsAt(T, tip) = T.snaps[tip].anc /\ T.snaps[tip].anc \subseteq 1..tip
      /\ tip \in T.snaps[tip].anc
      /\ T.snaps[root].anc \subseteq 1..root /\ root \in T.snaps[root].anc
      /\ target \in {0} \cup Snapshots(T)
  BY <1>1, HistoryFacts
<1> HIDE DEF C
<1>4. /\ T.snaps[root].anc = {k \in T.snaps[tip].anc : k <= root}
      /\ T.snaps[root].anc = AncestorsAt(T, target) \cup {root}
  BY <1>1, <1>2, <1>3 DEF History, Chained
<1>5. AncestorsAt(T, target) \subseteq 1..target /\ (target # 0 => target \in AncestorsAt(T, target))
  <2>1. CASE target = 0
    BY <2>1 DEF AncestorsAt
  <2>2. CASE target # 0
    BY <1>3, <2>2, HistoryFacts
  <2> QED BY <2>1, <2>2
<1> HIDE DEF target
<1>6. AncestorsAt(T, target) = {k \in T.snaps[tip].anc : k <= target}
      /\ \A k \in T.snaps[tip].anc : target < k => k \in C
  BY <1>2, <1>3, <1>4, <1>5
<1>7. Stretch(T, tip, target, id)
  BY <1>1, <1>2, <1>3, <1>5, <1>6 DEF Stretch
<1>8. /\ cut \in Nat
      /\ cut # 0 => /\ cut \in AncestorsAt(T, T.head)
                    /\ T.snaps[cut].undo = id /\ T.snaps[cut].run # id
      /\ \A k \in Snapshots(T) : T.snaps[k].undo = id => k <= cut
  BY CutoffFacts
<1> HIDE DEF cut
<1>9. CASE ActiveChain(T, id) # {}
  <2>1. C = {i \in AllOwned(T, id) : i \in AncestorsAt(T, T.head) /\ i > cut}
    BY <1>9, ChainSetFacts DEF ActiveChain, C, cut
  <2>2. tip \in AncestorsAt(T, T.head) /\ tip > cut /\ root > cut
    BY <1>1, <2>1
  <2>3. T.head \in Snapshots(T) /\ T.head \in Nat /\ tip <= T.head
    <3>1. T.head # 0
      BY <2>2 DEF AncestorsAt
    <3>2. T.head \in Snapshots(T) /\ T.head \in Nat
      BY <3>1, HistoryFacts
    <3>3. AncestorsAt(T, T.head) \subseteq 1..T.head
      BY <3>2, HistoryFacts
    <3> QED BY <1>3, <2>2, <3>2, <3>3
  <2>4. T.head = tip
    <3>1. T.head # target
      BY <1>3, <1>2, <1>1, <2>3
    <3>2. ~(T.snaps[T.head].undo = id)
      BY <1>3, <1>8, <2>2, <2>3
    <3> QED BY <1>2, <3>1, <3>2 DEF AtTarget, target
  <2>5. ASSUME NEW j \in AncestorsAt(T, target), T.snaps[j].run = id
        PROVE  \E k \in AncestorsAt(T, target) : T.snaps[k].undo = id /\ j < k
    <3>1. j \in T.snaps[tip].anc /\ j <= target /\ j \in Nat /\ j \in AllOwned(T, id)
      BY <1>3, <1>5, <1>6, <2>5 DEF AllOwned
    <3>2. j \notin C
      BY <1>2, <1>3, <3>1
    <3>3. ~(j > cut)
      BY <1>3, <2>1, <2>4, <3>1, <3>2
    <3>4. j # cut /\ cut # 0 /\ j < cut
      BY <1>8, <2>5, <3>1, <3>3, <1>5
    <3>5. cut \in T.snaps[tip].anc /\ ~(target < cut)
      BY <1>1, <1>3, <1>6, <1>8, <2>4, <3>4
    <3> QED BY <1>3, <1>6, <1>8, <3>4, <3>5
  <2>6. CleanAt(T, target, id)
    BY <1>3, <2>5, CleanByUndo DEF target
  <2> QED BY <1>7, <2>4, <2>6 DEF target
<1>10. CASE ActiveChain(T, id) = {}
  <2>1. CleanAt(T, T.head, id)
    BY <1>10, InactiveIsClean
  <2>2. T.head # tip
    BY <1>1, <1>3, <2>1 DEF CleanAt
  <2>3. target = 0 => CleanAt(T, target, id)
    BY DEF CleanAt, RunRowsAt, RowsAt
  <2>4. CleanAt(T, target, id)
    BY <1>2, <2>1, <2>2, <2>3 DEF AtTarget, target
  <2> QED BY <1>7, <2>1, <2>4 DEF target
<1> QED BY <1>9, <1>10

\* -------------------------------------------------------------------- submitters

\* The rows that others have at the head, and those that a run is computed from.
Others(t, id) == {x \in Rows(tbl[t]) : x.run # id}
BaseRows(r, t) == IF Pinned(r) THEN RowsAt(tbl[t], pins[r].heads[t]) ELSE {}

Staging == {"manifest", "mbase", "mland", "mok", "merr", "stage", "confirm", "base", "land",
            "ok", "err", "pin"}
Described == {"stage", "confirm", "base", "land", "ok", "err", "pin", "pbase", "publish"}

\* What the guards left: no rows of the run, none at all for a full generation.
Cleared(w) ==
  \A t \in IdentityTables :
    /\ RunRows(tbl[t], wr[w].id) = {}
    /\ Mode[RunOf[w]] = "full" => Rows(tbl[t]) = {}

\* While a run is staged the others' rows stay those of its base; its own are in
\* the newest snapshot.
OnBase(w) ==
  \A t \in IdentityTables :
    /\ Others(t, wr[w].id) = BaseRows(RunOf[w], t)
    /\ RunRows(tbl[t], wr[w].id) # {} =>
         /\ tbl[t].head = Len(tbl[t].snaps)
         /\ tbl[t].snaps[tbl[t].head].run = wr[w].id

\* What a marker is to pin, or has pinned.
Lineage(m) ==
  \A t \in IdentityTables :
    m.run.counts[t] > 0 =>
      /\ m.pin[t] \in Snapshots(tbl[t])
      /\ OtherRows(t, m.pin[t], m.run) = BaseRows(m.run.base, t)

\* What an Identity submitter relies on in phase pc.
OkAt(w, pc) ==
  /\ Pinned(RunOf[w]) /\ pc # "idle" => pins[RunOf[w]].planned
  /\ pc \in {"strip", "guard"} => Cleared(w)
  /\ pc \in Staging => OnBase(w)
  /\ pc \in Described => RunRows(tbl[RunTable], wr[w].id) # {}
  /\ pc = "pin" => \A t \in IdentityTables : wr[w].counts[t] = Count(w, t)
  /\ pc \in {"pbase", "publish"} => Lineage(Mine(w))

\* A run has keys in the tables of its kind only.
Kind(w) ==
  /\ wr[w].id.base = RunOf[w]
  /\ \A t \in Tables : ~(t \in IdentityTables <=> Generation(RunOf[w])) =>
       wr[w].keys[t] = {} /\ wr[w].id.counts[t] = 0

SubmitterOK(w) ==
  /\ Kind(w)
  /\ wr[w].pc \in {"base", "land"} => Expected(w) # 0
  /\ wr[w].pc \in {"strip", "recheck"} => Mode[RunOf[w]] = "incremental"
  /\ wr[w].pc = "pin" => wr[w].counts = wr[w].id.counts
  /\ Generation(RunOf[w]) => OkAt(w, wr[w].pc)

Histories == \A t \in Tables \cup {RunTable} : History(tbl[t])

PinsOK ==
  \A r \in Runs, t \in IdentityTables :
    pins[r].planned => pins[r].heads[t] \in {0} \cup Snapshots(tbl[t])

LEMMA IdentityFacts ==
  /\ IdentityTables \subseteq Tables /\ RunTable \notin Tables /\ NoRun \notin RunId
  /\ \A w \in Writers : RunOf[w] \in Runs
BY IngestConstants, RollbackConstants

\* A phase change that touches no table and no pin.
Moved(w, pc) ==
  /\ wr'[w].pc = pc /\ wr'[w].id = wr[w].id /\ wr'[w].keys = wr[w].keys
  /\ wr'[w].counts = wr[w].counts /\ wr'[w].pin = wr[w].pin

LEMMA GotoMoved ==
  ASSUME NEW w \in Writers, TypeOK, NEW pc, Goto(w, pc)
  PROVE  Moved(w, pc)
<1>1. wr \in [Writers -> Writer] /\ wr[w] \in Writer
  BY DEF TypeOK
<1>2. wr'[w] = [wr[w] EXCEPT !.pc = pc]
  BY <1>1 DEF Goto
<1> QED BY <1>1, <1>2 DEF Writer, Moved

LEMMA NextTableMoved ==
  ASSUME NEW w \in Writers, TypeOK, NextTable(w)
  PROVE  Moved(w, "stage")
<1>1. wr \in [Writers -> Writer] /\ wr[w] \in Writer
  BY DEF TypeOK
<1>2. wr'[w] = [wr[w] EXCEPT !.pc = "stage", !.i = wr[w].i + 1]
  BY <1>1 DEF NextTable, Writer
<1> QED BY <1>1, <1>2 DEF Writer, Moved

LEMMA MovedOK ==
  ASSUME NEW w \in Writers, SubmitterOK(w), NEW pc, Moved(w, pc), tbl' = tbl, pins' = pins,
         pc \in {"base", "land"} => Expected(w)' # 0,
         pc \in {"strip", "recheck"} => Mode[RunOf[w]] = "incremental",
         pc = "pin" => wr[w].counts = wr[w].id.counts,
         Generation(RunOf[w]) => OkAt(w, pc)
  PROVE  SubmitterOK(w)'
<1>1. wr'[w].id = wr[w].id /\ wr'[w].pc = pc /\ wr'[w].counts = wr[w].counts /\ wr'[w].pin = wr[w].pin
  BY DEF Moved
<1>2. Kind(w)'
  BY DEF Moved, SubmitterOK, Kind
<1>3. Cleared(w)' <=> Cleared(w)
  BY <1>1 DEF Cleared
<1>4. OnBase(w)' <=> OnBase(w)
  BY <1>1 DEF OnBase, Others, BaseRows
<1>5. Mine(w)' = Mine(w)
  BY <1>1 DEF Mine
<1>6. Lineage(Mine(w))' <=> Lineage(Mine(w))
  BY <1>5 DEF Lineage, OtherRows, BaseRows
<1>7. \A t \in IdentityTables : Count(w, t)' = Count(w, t)
  BY <1>1 DEF Count
<1>8. ASSUME Generation(RunOf[w]) PROVE OkAt(w, pc)'
  BY <1>1, <1>3, <1>4, <1>6, <1>7, <1>8 DEF OkAt
<1> QED BY <1>1, <1>2, <1>8 DEF SubmitterOK

\* A submitter that leaves for a phase where nothing is relied on.
LEMMA QuietGoto ==
  ASSUME NEW w \in Writers, TypeOK, SubmitterOK(w), tbl' = tbl, pins' = pins, NEW pc, Goto(w, pc),
         pc \in {"preflight", "reuse", "failed", "verify", "verify_err", "done", "dead"},
         \/ wr[w].pc # "idle"
         \/ Pinned(RunOf[w]) => pins[RunOf[w]].planned
  PROVE  SubmitterOK(w)'
<1>1. Pinned(RunOf[w]) => pins[RunOf[w]].planned
  BY DEF SubmitterOK, OkAt, Pinned, Generation
<1>2. OkAt(w, pc)
  BY <1>1 DEF OkAt, Staging, Described
<1> QED BY <1>2, GotoMoved, MovedOK

LEMMA NoMarkers ==
  ASSUME TypeOK, NEW id, Cardinality(MarkersOf(id)) = 0
  PROVE  MarkersOf(id) = {}
<1>1. DOMAIN markers = 1..Len(markers) /\ Len(markers) \in Nat
  BY DEF TypeOK
<1>2. IsFiniteSet(1..Len(markers)) /\ MarkersOf(id) \subseteq 1..Len(markers)
  BY <1>1, FS_Interval DEF MarkersOf
<1>3. IsFiniteSet(MarkersOf(id))
  BY <1>2, FS_Subset
<1> QED BY <1>3, FS_EmptySet

LEMMA NotPartial ==
  ASSUME NEW id, ~Partial(id), NEW t \in IdentityTables
  PROVE  RunRows(tbl[t], id) = {}
BY IdentityFacts DEF Partial

\* The steps of a submitter that touch no table, but for those that rewrite its run
\* or record what it found.
LEMMA QuietSubmitter ==
  ASSUME NEW w \in Writers, TypeOK, SubmitterOK(w),
         \/ Start(w) \/ Preflight(w) \/ Recheck(w) \/ Guard(w) \/ EnsureManifest(w)
         \/ Stage(w) \/ Confirm(w) \/ ReadBase(w) \/ Raise(w) \/ SettleManifest(w) \/ Settle(w)
         \/ ReadMarkerBase(w) \/ (\E ok \in BOOLEAN : Publish(w, ok)) \/ PublishRaises(w)
         \/ Verify(w) \/ Reuse(w) \/ Crash(w)
  PROVE  SubmitterOK(w)'
<1>0. wr \in [Writers -> Writer] /\ wr[w] \in Writer
  BY DEF TypeOK
<1>1. tbl' = tbl /\ pins' = pins
  BY DEF Start, Preflight, Recheck, Guard, EnsureManifest, Stage, Confirm, ReadBase, Raise,
         SettleManifest, Settle, ReadMarkerBase, Publish, PublishRaises, Verify, Reuse, Crash,
         ReadOnly, ReadCommit
<1>2. Generation(RunOf[w]) => OkAt(w, wr[w].pc)
  BY DEF SubmitterOK
<1>3. ASSUME NEW pc, Goto(w, pc), pc \in {"preflight", "reuse", "failed", "verify", "verify_err",
                                          "done", "dead"},
             Pinned(RunOf[w]) => pins[RunOf[w]].planned
      PROVE  SubmitterOK(w)'
  BY <1>1, <1>3, QuietGoto
<1>4. Pinned(RunOf[w]) /\ wr[w].pc # "idle" => pins[RunOf[w]].planned
  BY <1>2 DEF OkAt, Pinned, Generation
<1>5. CASE Start(w)
  <2>1. \E pc \in {"preflight", "reuse", "failed"} : Goto(w, pc)
    BY <1>5 DEF Start, ReadCommit
  <2> QED BY <1>3, <1>5, <2>1 DEF Start
<1>6. CASE Preflight(w)
  <2>1. CASE Goto(w, "failed")
    BY <1>3, <1>4, <1>6, <2>1 DEF Preflight
  <2>2. CASE ~Goto(w, "failed")
    <3>1. /\ wr[w].pc = "preflight"
          /\ Generation(RunOf[w]) => ~Partial(wr[w].id)
          /\ Mode[RunOf[w]] = "full" => Pristine
          /\ \/ Goto(w, "strip") /\ Mode[RunOf[w]] = "incremental"
             \/ Goto(w, "guard")
      BY <1>6, <2>2 DEF Preflight
    <3>2. Generation(RunOf[w]) => Cleared(w)
      BY <3>1, NotPartial DEF Cleared, Pristine
    <3>3. ASSUME NEW pc \in {"strip", "guard"}, Goto(w, pc),
                 pc = "strip" => Mode[RunOf[w]] = "incremental"
          PROVE  SubmitterOK(w)'
      <4>1. Moved(w, pc)
        BY <3>3, GotoMoved
      <4>2. Generation(RunOf[w]) => OkAt(w, pc)
        BY <1>4, <3>1, <3>2, <3>3 DEF OkAt, Staging, Described
      <4> QED BY <1>1, <3>3, <4>1, <4>2, MovedOK
    <3> QED BY <3>1, <3>3
  <2> QED BY <2>1, <2>2
<1>7. CASE Recheck(w)
  <2>1. wr[w].pc = "recheck" /\ Mode[RunOf[w]] = "incremental"
    BY <1>7 DEF Recheck, SubmitterOK
  <2>2. CASE \E pc \in {"failed", "reuse"} : Goto(w, pc)
    BY <1>3, <1>4, <2>1, <2>2
  <2>3. CASE Goto(w, "guard") /\ ~Goto(w, "failed") /\ ~Goto(w, "reuse")
    <3>1. MarkersOf(wr[w].id) = {} => ~Partial(wr[w].id)
      BY <1>7, <2>3 DEF Recheck
    <3>2. Cardinality(MarkersOf(wr[w].id)) = 0
      BY <1>7, <2>3 DEF Recheck, ReadCommit
    <3>3. ~Partial(wr[w].id)
      BY <3>1, <3>2, NoMarkers
    <3>4. Cleared(w)
      BY <2>1, <3>3, NotPartial DEF Cleared
    <3>5. OkAt(w, "guard")
      BY <1>4, <2>1, <3>4 DEF OkAt, Staging, Described
    <3> QED BY <1>1, <2>3, <3>5, GotoMoved, MovedOK
  <2> QED BY <1>7, <2>2, <2>3 DEF Recheck, ReadCommit
<1>8. CASE Guard(w)
  <2>1. CASE Goto(w, "failed")
    BY <1>3, <1>4, <1>8, <2>1 DEF Guard
  <2>2. CASE ~Goto(w, "failed")
    <3>1. /\ wr[w].pc = "guard" /\ Goto(w, "manifest")
          /\ Pinned(RunOf[w]) => \A t \in IdentityTables : tbl[t].head = pins[RunOf[w]].heads[t]
      BY <1>8, <2>2 DEF Guard
    <3>2. Generation(RunOf[w]) => OnBase(w)
      <4>1. SUFFICES ASSUME Generation(RunOf[w]), NEW t \in IdentityTables
                     PROVE  /\ Others(t, wr[w].id) = BaseRows(RunOf[w], t)
                            /\ RunRows(tbl[t], wr[w].id) = {}
        BY DEF OnBase
      <4>2. /\ RunRows(tbl[t], wr[w].id) = {}
            /\ Mode[RunOf[w]] = "full" => Rows(tbl[t]) = {}
        BY <1>2, <3>1, <4>1 DEF OkAt, Cleared
      <4>3. Others(t, wr[w].id) = Rows(tbl[t])
        BY <4>2 DEF Others, RunRows, RunRowsAt, Rows
      <4>4. CASE Pinned(RunOf[w])
        BY <3>1, <4>2, <4>3, <4>4 DEF BaseRows, Rows
      <4>5. CASE ~Pinned(RunOf[w])
        <5>1. Mode[RunOf[w]] = "full"
          BY <4>1, <4>5, IngestConstants DEF Generation, Pinned
        <5> QED BY <4>2, <4>3, <4>5, <5>1 DEF BaseRows
      <4> QED BY <4>4, <4>5
    <3>3. Generation(RunOf[w]) => OkAt(w, "manifest")
      BY <1>4, <3>1, <3>2 DEF OkAt, Staging, Described
    <3> QED BY <1>1, <3>1, <3>3, GotoMoved, MovedOK
  <2> QED BY <2>1, <2>2
<1>9. ASSUME wr[w].pc \in Staging \ {"pin"}, NEW pc \in Staging \ {"pin"}, Moved(w, pc),
             pc \in {"base", "land"} => Expected(w)' # 0,
             pc \in Described => wr[w].pc \in Described \/ RunRows(tbl[RunTable], wr[w].id) # {}
      PROVE  SubmitterOK(w)'
  <2>1. Generation(RunOf[w]) => OkAt(w, pc)
    BY <1>2, <1>4, <1>9 DEF OkAt, Staging, Described
  <2> QED BY <1>1, <1>9, <2>1, MovedOK DEF Staging
<1>10. CASE EnsureManifest(w)
  <2>1. CASE RunRows(tbl[RunTable], wr[w].id) # {}
    <3>1. Goto(w, "stage") /\ wr[w].pc = "manifest"
      BY <1>0, <1>10, <2>1 DEF EnsureManifest, Goto
    <3>2. Moved(w, "stage")
      BY <3>1, GotoMoved
    <3> QED BY <1>9, <2>1, <3>1, <3>2 DEF Staging, Described
  <2>2. CASE RunRows(tbl[RunTable], wr[w].id) = {}
    <3>1. wr[w].pc = "manifest" /\
          wr'[w] = [wr[w] EXCEPT !.pc = "mbase", !.journal = tbl[RunTable].head]
      BY <1>0, <1>10, <2>2 DEF EnsureManifest
    <3>2. Moved(w, "mbase")
      BY <1>0, <3>1 DEF Moved, Writer
    <3> QED BY <1>9, <3>1, <3>2 DEF Staging, Described
  <2> QED BY <2>1, <2>2
<1>11. CASE Stage(w) \/ Settle(w) \/ Confirm(w) \/ ReadBase(w) \/ Raise(w) \/ SettleManifest(w)
  <2>1. CASE Goto(w, "failed")
    BY <1>3, <1>4, <1>11, <2>1 DEF Stage, Settle, Confirm, ReadBase, Raise, SettleManifest
  <2>2. CASE NextTable(w) /\ wr[w].pc \in {"stage", "ok", "err", "confirm"}
    BY <1>9, <2>2, NextTableMoved DEF Staging, Described
  <2>3. CASE Stage(w) /\ Goto(w, "confirm")
    BY <1>9, <2>3, GotoMoved DEF Stage, Staging, Described
  <2>4. CASE Confirm(w) /\ ~NextTable(w) /\ ~Goto(w, "failed")
    <3>1. /\ wr[w].pc = "confirm" /\ Expected(w) # 0
          /\ wr' = [wr EXCEPT ![w] = [wr[w] EXCEPT !.pc = "base", !.journal = tbl[Table(w)].head]]
      BY <1>0, <2>4 DEF Confirm
    <3>2. wr'[w] = [wr[w] EXCEPT !.pc = "base", !.journal = tbl[Table(w)].head]
      BY <1>0, <3>1
    <3>3. Moved(w, "base") /\ wr'[w].i = wr[w].i
      BY <1>0, <3>2 DEF Moved, Writer
    <3>4. Expected(w)' = Expected(w)
      BY <3>3 DEF Moved, Expected, Table
    <3> QED BY <1>9, <3>1, <3>3, <3>4 DEF Staging, Described
  <2>5. CASE ReadBase(w)
    <3>1. PICK pc \in {"mland", "land"} :
            /\ wr'[w] = [wr[w] EXCEPT !.base = tbl[Target(w)].head, !.pc = pc]
            /\ pc = "land" => wr[w].pc = "base"
            /\ wr[w].pc \in {"mbase", "base"}
      BY <1>0, <2>5 DEF ReadBase
    <3>2. Moved(w, pc) /\ wr'[w].i = wr[w].i
      BY <1>0, <3>1 DEF Moved, Writer
    <3>3. pc = "land" => Expected(w) # 0
      BY <3>1 DEF SubmitterOK
    <3>4. Expected(w)' = Expected(w)
      BY <3>2 DEF Moved, Expected, Table
    <3> QED BY <1>9, <3>1, <3>2, <3>3, <3>4 DEF Staging, Described
  <2>6. CASE Raise(w)
    <3>1. PICK pc \in {"mok", "merr", "ok", "err"} :
            /\ Goto(w, pc)
            /\ pc \in {"ok", "err"} => wr[w].pc = "land"
            /\ wr[w].pc \in {"mland", "land"}
      BY <2>6 DEF Raise, MergeDone
    <3> QED BY <1>9, <3>1, GotoMoved DEF Staging, Described
  <2>7. CASE SettleManifest(w) /\ ~Goto(w, "failed")
    <3>1. /\ wr[w].pc \in {"mok", "merr"} /\ Goto(w, "stage")
          /\ Cardinality(RunRows(tbl[RunTable], wr[w].id)) = 1
      BY <2>7 DEF SettleManifest
    <3>2. RunRows(tbl[RunTable], wr[w].id) # {}
      BY <3>1, FS_EmptySet
    <3> QED BY <1>9, <3>1, <3>2, GotoMoved DEF Staging, Described
  <2> QED BY <1>11, <2>1, <2>2, <2>3, <2>4, <2>5, <2>6, <2>7 DEF Stage, Settle, Confirm
<1>12. CASE ReadMarkerBase(w)
  <2>1. wr[w].pc = "pbase" /\ wr'[w] = [wr[w] EXCEPT !.base = Len(markers), !.pc = "publish"]
    BY <1>0, <1>12 DEF ReadMarkerBase
  <2>2. Moved(w, "publish")
    BY <1>0, <2>1 DEF Moved, Writer
  <2>3. Generation(RunOf[w]) => OkAt(w, "publish")
    BY <1>2, <2>1 DEF OkAt, Staging, Described
  <2> QED BY <1>1, <2>2, <2>3, MovedOK
<1>13. CASE (\E ok \in BOOLEAN : Publish(w, ok)) \/ PublishRaises(w) \/ Verify(w) \/ Reuse(w) \/ Crash(w)
  <2>1. \E pc \in {"verify", "verify_err", "failed", "done", "reuse", "dead"} : Goto(w, pc)
    BY <1>13 DEF Publish, PublishRaises, Verify, Reuse, Crash
  <2>2. wr[w].pc # "idle"
    BY <1>13 DEF Publish, PublishRaises, Verify, Reuse, Crash
  <2> QED BY <1>3, <1>4, <2>1, <2>2
<1> QED BY <1>5, <1>6, <1>7, <1>8, <1>10, <1>11, <1>12, <1>13

\* Stripping renames the run at most, and keeps it out of other tables.
LEMMA StripSubmitter ==
  ASSUME NEW w \in Writers, TypeOK, SubmitterOK(w), Strip(w)
  PROVE  SubmitterOK(w)'
<1> DEFINE kept == [t \in Tables |-> wr[w].keys[t] \ Reusable(w, t)]
           id == [base |-> RunOf[w], counts |-> [t \in Tables |-> Cardinality(kept[t])]]
<1>0. wr \in [Writers -> Writer] /\ wr[w] \in Writer
  BY DEF TypeOK
<1>1. /\ wr[w].pc = "strip" /\ tbl' = tbl /\ pins' = pins
      /\ Mode[RunOf[w]] = "incremental"
      /\ Generation(RunOf[w]) => OkAt(w, "strip")
  BY DEF Strip, ReadOnly, SubmitterOK
<1>2. PICK foreign \in BOOLEAN, pc \in {"guard", "recheck"} :
        /\ wr' = [wr EXCEPT ![w] = [wr[w] EXCEPT !.keys = kept, !.id = id,
                                                 !.foreign = foreign, !.pc = pc]]
        /\ pc = "guard" => id = wr[w].id
  <2>1. PICK foreign \in BOOLEAN :
          wr' = [wr EXCEPT ![w] = [wr[w] EXCEPT !.keys = kept, !.id = id, !.foreign = foreign,
                                     !.pc = IF id = wr[w].id THEN "guard" ELSE "recheck"]]
    BY <1>0 DEF Strip
  <2> HIDE DEF kept, id
  <2> QED BY <2>1
<1>3. /\ \A t \in Tables : wr[w].keys[t] = {} => kept[t] = {} /\ id.counts[t] = 0
      /\ id.base = RunOf[w]
  BY FS_EmptySet
<1> HIDE DEF kept, id
<1>4. wr'[w].keys = kept /\ wr'[w].id = id /\ wr'[w].pc = pc
  BY <1>0, <1>2 DEF Writer
<1>5. Kind(w)'
  BY <1>3, <1>4 DEF SubmitterOK, Kind
<1>6. ASSUME Generation(RunOf[w]) PROVE OkAt(w, pc)'
  <2>1. Pinned(RunOf[w]) => pins[RunOf[w]].planned
    BY <1>1, <1>6 DEF OkAt
  <2>2. pc = "guard" => Cleared(w)'
    BY <1>1, <1>2, <1>4, <1>6 DEF OkAt, Cleared
  <2> QED BY <1>1, <1>2, <2>1, <2>2 DEF OkAt, Staging, Described
<1> QED BY <1>1, <1>2, <1>4, <1>5, <1>6 DEF SubmitterOK

\* Counting finds the declared rows.
LEMMA CountSubmitter ==
  ASSUME NEW w \in Writers, TypeOK, SubmitterOK(w), CountTables(w)
  PROVE  SubmitterOK(w)'
<1>0. wr \in [Writers -> Writer] /\ wr[w] \in Writer
  BY DEF TypeOK
<1>1. wr[w].pc = "stage" /\ tbl' = tbl /\ pins' = pins
  BY DEF CountTables, ReadOnly
<1>2. Generation(RunOf[w]) => OkAt(w, "stage")
  BY <1>1 DEF SubmitterOK
<1>3. CASE wr' = [wr EXCEPT ![w] = [wr[w] EXCEPT !.pc = "failed"]]
  <2>1. Goto(w, "failed")
    BY <1>0, <1>3 DEF Goto
  <2> QED BY <2>1, QuietGoto, <1>1, <1>2
<1>4. CASE /\ wr' = [wr EXCEPT ![w] = [wr[w] EXCEPT !.counts = wr[w].id.counts, !.pc = "pin"]]
           /\ [t \in Tables |-> Count(w, t)] = wr[w].id.counts
  <2>1. /\ wr'[w].counts = wr[w].id.counts /\ wr'[w].id = wr[w].id /\ wr'[w].keys = wr[w].keys
        /\ wr'[w].pc = "pin"
    BY <1>0, <1>4 DEF Writer
  <2>2. Kind(w)'
    BY <2>1 DEF SubmitterOK, Kind
  <2>3. \A t \in IdentityTables : wr'[w].counts[t] = Count(w, t)'
    BY <1>1, <1>4, <2>1, IdentityFacts DEF Count
  <2>4. OnBase(w)' <=> OnBase(w)
    BY <1>1, <2>1 DEF OnBase, Others, BaseRows
  <2>5. ASSUME Generation(RunOf[w]) PROVE OkAt(w, "pin")'
    BY <1>1, <1>2, <2>1, <2>3, <2>4, <2>5 DEF OkAt, Staging, Described
  <2> QED BY <2>1, <2>2, <2>5 DEF SubmitterOK
<1> QED
  <2>1. \/ [t \in Tables |-> Count(w, t)] = wr[w].id.counts
           /\ wr' = [wr EXCEPT ![w] = [wr[w] EXCEPT !.counts = [t \in Tables |-> Count(w, t)], !.pc = "pin"]]
        \/ wr' = [wr EXCEPT ![w] = [wr[w] EXCEPT !.pc = "failed"]]
    BY <1>0 DEF CountTables
  <2> QED BY <1>3, <1>4, <2>1

\* The newest snapshot is the one that is found, and it lies on the base.
LEMMA PinSubmitter ==
  ASSUME NEW w \in Writers, TypeOK, Histories, SubmitterOK(w), PinSnapshots(w)
  PROVE  SubmitterOK(w)'
<1>0. wr \in [Writers -> Writer] /\ wr[w] \in Writer /\ wr[w].id \in RunId
  BY DEF TypeOK, Writer
<1>1. wr[w].pc = "pin" /\ tbl' = tbl /\ pins' = pins /\ wr[w].counts = wr[w].id.counts
  BY DEF PinSnapshots, ReadOnly, SubmitterOK
<1>2. Generation(RunOf[w]) => OkAt(w, "pin")
  BY <1>1 DEF SubmitterOK
<1>3. CASE Goto(w, "failed")
  BY <1>1, <1>2, <1>3, QuietGoto
<1>4. CASE ~Goto(w, "failed")
  <2>1. PICK pin \in [Tables -> (UNION {Snapshots(tbl[t]) : t \in Tables}) \cup {0}] :
          /\ \A t \in Tables : FoundOwned(tbl[t], wr[w].id, wr[w].counts[t], pin[t])
          /\ wr' = [wr EXCEPT ![w] = [wr[w] EXCEPT !.pin = pin, !.pc = "pbase"]]
    BY <1>0, <1>4 DEF PinSnapshots
  <2>2. /\ wr'[w].pin = pin /\ wr'[w].id = wr[w].id /\ wr'[w].counts = wr[w].counts
        /\ wr'[w].pc = "pbase" /\ wr'[w].keys = wr[w].keys
    BY <1>0, <2>1 DEF Writer
  <2>3. Kind(w)'
    BY <2>2 DEF SubmitterOK, Kind
  <2>4. ASSUME Generation(RunOf[w]), NEW t \in IdentityTables, wr[w].id.counts[t] > 0
        PROVE  /\ pin[t] \in Snapshots(tbl[t])
               /\ OtherRows(t, pin[t], wr[w].id) = BaseRows(RunOf[w], t)
    <3> DEFINE T == tbl[t]
               id == wr[w].id
    <3>1. t \in Tables /\ History(T) /\ NoRun # id
      BY <1>0, IdentityFacts DEF Histories
    <3>2. wr[w].counts[t] # 0 /\ wr[w].counts[t] = Cardinality(RunRows(T, id))
      BY <1>1, <1>2, <2>4 DEF OkAt, Count
    <3>3. RunRows(T, id) # {}
      BY <3>2, FS_EmptySet
    <3>4. /\ T.head = Len(T.snaps) /\ T.snaps[T.head].run = id
          /\ Others(t, id) = BaseRows(RunOf[w], t)
      BY <1>2, <2>4, <3>3 DEF OkAt, OnBase, Staging
    <3>5. ActiveOwned(T, id) = {pin[t]}
      BY <2>1, <3>1, <3>2 DEF FoundOwned
    <3> HIDE DEF T, id
    <3>6. T.head # 0
      BY <3>3 DEF RunRows, RunRowsAt, RowsAt
    <3>7. T.head \in Snapshots(T) /\ T.head \in AncestorsAt(T, T.head) /\ Snapshots(T) = 1..T.head
          /\ T.head \in Nat
      BY <3>1, <3>4, <3>6, HistoryFacts
    <3>8. \A j \in Snapshots(T) : T.snaps[j].undo = id => j < T.head
      <4>1. T.snaps[T.head].undo # id
        BY <3>1, <3>4, <3>7, <1>0, RollbackConstants DEF History, Chained, id
      <4> QED BY <3>7, <4>1
    <3>9. T.head \in ActiveOwned(T, id)
      BY <3>3, <3>4, <3>7, <3>8 DEF ActiveOwned, RunRows
    <3>10. pin[t] = T.head
      BY <3>5, <3>9
    <3>11. OtherRows(t, T.head, id) = Others(t, id)
      BY DEF OtherRows, Others, Rows, T
    <3> QED BY <3>4, <3>7, <3>10, <3>11 DEF T, id
  <2>5. ASSUME Generation(RunOf[w]) PROVE Lineage(Mine(w))'
    <3>1. Mine(w)' = [run |-> wr[w].id, counts |-> wr[w].counts, pin |-> pin]
      BY <2>2 DEF Mine
    <3>2. wr[w].id.base = RunOf[w]
      BY DEF SubmitterOK, Kind
    <3> QED BY <1>1, <2>4, <2>5, <3>1, <3>2 DEF Lineage, OtherRows, BaseRows
  <2>6. ASSUME Generation(RunOf[w]) PROVE OkAt(w, "pbase")'
    BY <1>1, <1>2, <2>2, <2>5, <2>6 DEF OkAt, Staging, Described
  <2> QED BY <2>2, <2>3, <2>6 DEF SubmitterOK
<1> QED BY <1>3, <1>4

\* ------------------------------------------------------------------ landing a MERGE

LEMMA OnlyLandWrites ==
  ASSUME NEW w \in Writers, Advance(w) \/ Crash(w)
  PROVE  tbl' = tbl \/ \E ok \in BOOLEAN : Land(w, ok)
BY DEF Advance, Start, Preflight, Strip, Recheck, Guard, EnsureManifest, Stage, Confirm, ReadBase,
       Publish, Raise, SettleManifest, Settle, CountTables, PinSnapshots, ReadMarkerBase,
       PublishRaises, Verify, Reuse, Crash, ReadOnly, ReadCommit

\* A MERGE adds a snapshot and rows of its run to one table, of the run's kind.
Landed(w, t, added) ==
  /\ tbl' = [tbl EXCEPT ![t] = tbl'[t]]
  /\ \A u \in (Tables \cup {RunTable}) \ {t} : tbl'[u] = tbl[u]
  /\ History(tbl'[t]) /\ Grown(tbl[t], tbl'[t])
  /\ Snapshots(tbl'[t]) = Snapshots(tbl[t]) \cup {tbl'[t].head}
  /\ tbl'[t].head = Len(tbl'[t].snaps) /\ tbl'[t].snaps[tbl'[t].head].run = wr[w].id
  /\ Rows(tbl'[t]) = Rows(tbl[t]) \cup added /\ \A x \in added : x.run = wr[w].id
  /\ t # RunTable => (t \in IdentityTables <=> Generation(RunOf[w])) /\ wr[w].pc = "land"
  /\ t = RunTable => wr[w].pc = "mland"

LEMMA Landing ==
  ASSUME NEW w \in Writers, TypeOK, Histories, SubmitterOK(w), NEW ok \in BOOLEAN, Land(w, ok)
  PROVE  \E t \in Tables \cup {RunTable} : \E added : Landed(w, t, added)
<1> DEFINE t == Target(w)
           id == wr[w].id
           keys == Unmatched(w)
           T == tbl[t]
           U == AppendKeys(T, id, keys, wr[w].journal)
           added == AddedRows(T, id, keys)
<1>0. /\ tbl \in [Tables \cup {RunTable} -> TableType] /\ wr[w] \in Writer
      /\ id \in RunId /\ wr[w].journal \in Nat /\ id.base \in Runs
      /\ wr[w].pc \in Early => wr[w].i <= Len(TableOrder)
  BY DEF TypeOK, Writer, Early, RunId
<1>1. wr[w].pc \in {"mland", "land"} /\ tbl' = [tbl EXCEPT ![t] = U]
  BY DEF Land
<1>2. /\ t = RunTable => wr[w].pc = "mland"
      /\ t # RunTable => t \in Tables /\ wr[w].pc = "land" /\ id.counts[t] # 0
      /\ t \in Tables \cup {RunTable}
  <2>1. CASE wr[w].pc = "mland"
    BY <2>1 DEF Target
  <2>2. CASE wr[w].pc = "land"
    <3>1. wr[w].i \in 1..Len(TableOrder)
      BY <1>0, <2>2, IngestConstants DEF Early, Writer
    <3>2. Table(w) \in Tables /\ Target(w) = Table(w) /\ Expected(w) # 0
      BY <2>2, <3>1, IngestConstants DEF Table, Tables, Target, SubmitterOK
    <3> QED BY <2>2, <3>2, IdentityFacts DEF Expected
  <2> QED BY <1>1, <2>1, <2>2
<1>3. keys \in SUBSET AnyKey
  <2>1. CASE t = RunTable
    BY <2>1 DEF Unmatched, AnyKey
  <2>2. CASE t # RunTable
    BY <1>0, <1>2, <2>2 DEF Unmatched, Writer
  <2> QED BY <2>1, <2>2
<1>4. History(T)
  BY <1>2 DEF Histories
<1> HIDE DEF t, id, keys
<1>5. /\ History(U) /\ Grown(T, U) /\ U.head = Len(U.snaps)
      /\ Snapshots(U) = Snapshots(T) \cup {U.head} /\ U.snaps[U.head].run = id
      /\ Rows(U) = Rows(T) \cup added
  <2>1. wr[w].journal \in Nat /\ id \in RunId
    BY <1>0
  <2>2. PICK j : j = wr[w].journal
    OBVIOUS
  <2>3. U = AppendKeys(T, id, keys, j) /\ added = AddedRows(T, id, keys)
    BY <2>2
  <2>4. j \in Nat
    BY <2>1, <2>2
  <2> HIDE DEF T, U, added
  <2> QED BY <1>3, <1>4, <2>1, <2>3, <2>4, HistoryAppend
<1>6. t # RunTable => (t \in IdentityTables <=> Generation(RunOf[w]))
  BY <1>2 DEF SubmitterOK, Kind, id
<1>7. \A x \in added : x.run = id
  BY DEF AddedRows
<1> HIDE DEF U, added
<1>8. tbl'[t] = U /\ \A u \in (Tables \cup {RunTable}) \ {t} : tbl'[u] = tbl[u]
  BY <1>0, <1>1, <1>2
<1>9. Landed(w, t, added)
  BY <1>1, <1>2, <1>5, <1>6, <1>7, <1>8 DEF Landed, T, id
<1> QED BY <1>2, <1>9

LEMMA LandSubmitter ==
  ASSUME NEW w \in Writers, TypeOK, PinsOK, SubmitterOK(w), NEW ok \in BOOLEAN, Land(w, ok),
         NEW t \in Tables \cup {RunTable}, NEW added, Landed(w, t, added)
  PROVE  SubmitterOK(w)'
<1>1. /\ pins' = pins /\ wr[w].pc \in {"mland", "land"}
  BY DEF Land
<1>2. PICK pc \in {"mok", "merr", "ok", "err"} :
        Goto(w, pc) /\ (pc \in {"ok", "err"} <=> wr[w].pc = "land")
  BY DEF Land, MergeDone
<1>3. Moved(w, pc)
  BY <1>2, GotoMoved
<1>4. wr'[w].id = wr[w].id /\ wr'[w].pc = pc /\ Kind(w)'
  BY <1>3 DEF Moved, SubmitterOK, Kind
<1>5. ASSUME Generation(RunOf[w]) PROVE OkAt(w, pc)'
  <2>1. OkAt(w, wr[w].pc)
    BY <1>5 DEF SubmitterOK
  <2>2. OnBase(w) /\ (Pinned(RunOf[w]) => pins[RunOf[w]].planned)
    BY <1>1, <2>1 DEF OkAt, Staging
  <2>3. \A u \in IdentityTables : BaseRows(RunOf[w], u)' = BaseRows(RunOf[w], u)
    <3>1. SUFFICES ASSUME NEW u \in IdentityTables, Pinned(RunOf[w])
                   PROVE  RowsAt(tbl'[u], pins[RunOf[w]].heads[u]) = RowsAt(tbl[u], pins[RunOf[w]].heads[u])
      BY <1>1 DEF BaseRows
    <3>2. pins[RunOf[w]].heads[u] \in {0} \cup Snapshots(tbl[u])
      BY <2>2, <3>1, IdentityFacts DEF PinsOK
    <3>3. Grown(tbl[u], tbl'[u])
      BY IdentityFacts DEF Landed, Grown
    <3> QED BY <3>2, <3>3, GrownFacts
  <2>4. OnBase(w)'
    <3>1. SUFFICES ASSUME NEW u \in IdentityTables
                   PROVE  /\ Others(u, wr[w].id)' = BaseRows(RunOf[w], u)
                          /\ RunRows(tbl'[u], wr[w].id) # {} =>
                               /\ tbl'[u].head = Len(tbl'[u].snaps)
                               /\ tbl'[u].snaps[tbl'[u].head].run = wr[w].id
      BY <1>4, <2>3 DEF OnBase, Others
    <3>2. CASE u # t
      <4>1. tbl'[u] = tbl[u]
        BY <3>2, IdentityFacts DEF Landed
      <4>2. /\ Others(u, wr[w].id) = BaseRows(RunOf[w], u)
            /\ RunRows(tbl[u], wr[w].id) # {} =>
                 /\ tbl[u].head = Len(tbl[u].snaps)
                 /\ tbl[u].snaps[tbl[u].head].run = wr[w].id
        BY <2>2 DEF OnBase
      <4>3. Others(u, wr[w].id)' = Others(u, wr[w].id)
        BY <1>4, <4>1 DEF Others
      <4> QED BY <4>1, <4>2, <4>3
    <3>3. CASE u = t
      <4>1. {x \in Rows(tbl'[u]) : x.run # wr[w].id} = {x \in Rows(tbl[u]) : x.run # wr[w].id}
        BY <3>3 DEF Landed
      <4> QED BY <1>4, <2>2, <3>3, <4>1 DEF OnBase, Landed, Others
    <3> QED BY <3>2, <3>3
  <2>5. pc \in {"ok", "err"} => RunRows(tbl'[RunTable], wr[w].id) # {}
    <3>1. ASSUME pc \in {"ok", "err"} PROVE RunRows(tbl'[RunTable], wr[w].id) # {}
      <4>1. wr[w].pc = "land" /\ t # RunTable
        BY <1>2, <3>1 DEF Landed
      <4>2. RunRows(tbl[RunTable], wr[w].id) # {}
        BY <2>1, <4>1 DEF OkAt, Described
      <4> QED BY <4>1, <4>2 DEF Landed
    <3> QED BY <3>1
  <2> QED BY <1>1, <1>4, <2>2, <2>4, <2>5 DEF OkAt, Staging, Described
<1> QED BY <1>2, <1>4, <1>5 DEF SubmitterOK

\* ------------------------------------------------------------------- the invariant

\* Snapshots and pinned lineages stay.
Steady ==
  /\ \A t \in Tables \cup {RunTable} : Grown(tbl[t], tbl'[t])
  /\ \A r \in Runs : pins[r].planned => pins'[r] = pins[r]

MarkersOK ==
  \A m \in DOMAIN markers : Generation(markers[m].run.base) =>
    /\ Pinned(markers[m].run.base) => pins[markers[m].run.base].planned
    /\ Lineage(markers[m])

\* Identity tables hold snapshots of Identity runs, other tables of others.
Apart ==
  \A t \in Tables : \A i \in Snapshots(tbl[t]) :
    tbl[t].snaps[i].run # NoRun =>
      (t \in IdentityTables <=> Generation(tbl[t].snaps[i].run.base))

\* Identity submitters and invocations exclude one another.
Exclusive ==
  /\ \A v, w \in Writers :
       Running(v) /\ Generation(RunOf[v]) /\ Running(w) /\ Generation(RunOf[w]) => v = w
  /\ \A o, p \in Operators : InProgress(o) /\ InProgress(p) => o = p
  /\ \A o \in Operators, w \in Writers :
       InProgress(o) /\ Running(w) => ~Generation(RunOf[w])

\* A planned action goes back over the run's snapshots to one without its rows, and
\* an Identity table that is no longer at its tip is clean.
ActionOK(a, id) ==
  /\ Stretch(tbl[a.table], a.tip, a.target, id)
  /\ CleanAt(tbl[a.table], a.target, id)
  /\ a.table \in IdentityTables /\ tbl[a.table].head # a.tip =>
       CleanAt(tbl[a.table], tbl[a.table].head, id)

\* The actions left are those of the tables that may still hold rows of the run, the
\* run table among them.
InvocationOK(o) ==
  InProgress(o) =>
    /\ rb[o].id \in RunId /\ Generation(rb[o].id.base)
    /\ DOMAIN rb[o].plan # {} /\ DOMAIN rb[o].plan \subseteq DOMAIN RollbackOrder
    /\ \A n \in DOMAIN rb[o].plan :
         /\ rb[o].plan[n].table = RollbackOrder[n] /\ RollbackOrder[n] \in Eligible
         /\ ActionOK(rb[o].plan[n], rb[o].id)
    /\ \A t \in Eligible :
         \/ \E n \in DOMAIN rb[o].plan : RollbackOrder[n] = t
         \/ t \in IdentityTables /\ CleanAt(tbl[t], tbl[t].head, rb[o].id)
    /\ rb[o].pc = "move" => tbl[Todo(o).table].head = Todo(o).tip

\* An invocation has its phase, its run and its plan.
RbOK == rb = [o \in Operators |-> [pc |-> rb[o].pc, id |-> rb[o].id, plan |-> rb[o].plan]]

IdentityInv ==
  /\ TypeOK /\ Histories /\ PinsOK /\ Apart /\ Exclusive /\ MarkersOK /\ RollbackResumable
  /\ \A w \in Writers : SubmitterOK(w)
  /\ RbOK /\ \A o \in Operators : InvocationOK(o)

\* ------------------------------------------------------------- what a step leaves alone

LEMMA BaseKept ==
  ASSUME PinsOK, Steady, NEW r \in Runs, Pinned(r) => pins[r].planned, NEW t \in IdentityTables
  PROVE  BaseRows(r, t)' = BaseRows(r, t)
<1>1. SUFFICES ASSUME Pinned(r)
               PROVE  RowsAt(tbl'[t], pins'[r].heads[t]) = RowsAt(tbl[t], pins[r].heads[t])
  BY DEF BaseRows
<1>2. pins[r].heads[t] \in {0} \cup Snapshots(tbl[t]) /\ pins'[r] = pins[r]
  BY <1>1 DEF PinsOK, Steady
<1>3. Grown(tbl[t], tbl'[t])
  BY IdentityFacts DEF Steady
<1>4. RowsAt(tbl'[t], pins[r].heads[t]) = RowsAt(tbl[t], pins[r].heads[t])
  BY <1>2, <1>3, GrownFacts
<1> QED BY <1>2, <1>4

LEMMA LineageKept ==
  ASSUME PinsOK, Steady, NEW m, m.run.base \in Runs,
         Pinned(m.run.base) => pins[m.run.base].planned, Lineage(m)
  PROVE  Lineage(m)'
<1>1. SUFFICES ASSUME NEW t \in IdentityTables, m.run.counts[t] > 0
               PROVE  /\ m.pin[t] \in Snapshots(tbl'[t])
                      /\ OtherRows(t, m.pin[t], m.run)' = BaseRows(m.run.base, t)'
  BY DEF Lineage
<1>2. m.pin[t] \in Snapshots(tbl[t]) /\ OtherRows(t, m.pin[t], m.run) = BaseRows(m.run.base, t)
  BY <1>1 DEF Lineage
<1>3. Grown(tbl[t], tbl'[t])
  BY IdentityFacts DEF Steady
<1>4. RowsAt(tbl'[t], m.pin[t]) = RowsAt(tbl[t], m.pin[t])
  <2> DEFINE i == m.pin[t]
  <2>1. i \in {0} \cup Snapshots(tbl[t])
    BY <1>2
  <2> HIDE DEF i
  <2>2. RowsAt(tbl'[t], i) = RowsAt(tbl[t], i)
    BY <1>3, <2>1, GrownFacts
  <2> QED BY <2>2 DEF i
<1>5. m.pin[t] \in Snapshots(tbl'[t])
  BY <1>2, <1>3 DEF Grown
<1> QED BY <1>2, <1>4, <1>5, BaseKept DEF OtherRows

\* A submitter that another step does not concern.
LEMMA Bystander ==
  ASSUME NEW v \in Writers, TypeOK, SubmitterOK(v), wr'[v] = wr[v], PinsOK, Steady,
         Generation(RunOf[v]) /\ Running(v) =>
           /\ \A t \in IdentityTables : tbl'[t] = tbl[t]
           /\ RunRows(tbl[RunTable], wr[v].id) # {} => RunRows(tbl'[RunTable], wr[v].id) # {}
  PROVE  SubmitterOK(v)'
<1>0. Kind(v)' /\ RunOf[v] \in Runs
  BY IdentityFacts DEF SubmitterOK, Kind
<1>1. wr[v].pc \in {"base", "land"} => Expected(v)' # 0
  BY DEF SubmitterOK, Expected, Table
<1>2. ASSUME Generation(RunOf[v]) PROVE OkAt(v, wr[v].pc)'
  <2>1. OkAt(v, wr[v].pc)
    BY <1>2 DEF SubmitterOK
  <2>2. Pinned(RunOf[v]) /\ wr[v].pc # "idle" =>
          pins[RunOf[v]].planned /\ pins'[RunOf[v]] = pins[RunOf[v]]
    BY <1>0, <2>1 DEF OkAt, Steady
  <2>3. CASE ~Running(v)
    <3>1. wr[v].pc \in {"idle", "done", "failed", "dead"}
      BY <2>3 DEF Running, Stopped
    <3> QED BY <2>2, <3>1 DEF OkAt, Staging, Described
  <2>4. CASE Running(v)
    <3>1. /\ \A t \in IdentityTables : tbl'[t] = tbl[t]
          /\ RunRows(tbl[RunTable], wr[v].id) # {} => RunRows(tbl'[RunTable], wr[v].id) # {}
      BY <1>2, <2>4
    <3>2. Pinned(RunOf[v]) => pins'[RunOf[v]] = pins[RunOf[v]] /\ pins[RunOf[v]].planned
      BY <2>2, <2>4 DEF Running
    <3>3. \A t \in IdentityTables : BaseRows(RunOf[v], t)' = BaseRows(RunOf[v], t)
      BY <3>1, <3>2 DEF BaseRows
    <3>4. Cleared(v) => Cleared(v)'
      BY <3>1 DEF Cleared
    <3>5. OnBase(v) => OnBase(v)'
      BY <3>1, <3>3 DEF OnBase, Others
    <3>6. \A t \in IdentityTables : Count(v, t)' = Count(v, t)
      BY <3>1 DEF Count
    <3>7. Lineage(Mine(v)) => Lineage(Mine(v))'
      <4>1. Mine(v)' = Mine(v) /\ Mine(v).run.base = RunOf[v]
        BY DEF Mine, SubmitterOK, Kind
      <4> QED BY <3>1, <3>3, <4>1 DEF Lineage, OtherRows
    <3> QED BY <2>1, <3>1, <3>2, <3>4, <3>5, <3>6, <3>7 DEF OkAt
  <2> QED BY <2>3, <2>4
<1> QED BY <1>0, <1>1, <1>2 DEF SubmitterOK

LEMMA StretchKept ==
  ASSUME NEW T, NEW U, History(T), Grown(T, U), NEW id, NEW tip, NEW target,
         Stretch(T, tip, target, id), CleanAt(T, target, id)
  PROVE  Stretch(U, tip, target, id) /\ CleanAt(U, target, id)
<1>1. /\ tip \in Snapshots(T) /\ T.snaps[tip].anc \subseteq Snapshots(T)
      /\ target \in {0} \cup Snapshots(T)
  <2>1. tip \in Snapshots(T) /\ target \in {0} \cup T.snaps[tip].anc
    BY DEF Stretch
  <2> QED BY <2>1, HistoryFacts
<1>2. /\ tip \in Snapshots(U) /\ U.snaps[tip] = T.snaps[tip]
      /\ \A j \in T.snaps[tip].anc : U.snaps[j] = T.snaps[j]
      /\ RowsAt(U, target) = RowsAt(T, target)
      /\ target # 0 => U.snaps[target] = T.snaps[target]
  BY <1>1, GrownFacts DEF Grown
<1> QED BY <1>2 DEF Stretch, CleanAt, RunRowsAt

\* An invocation that another step does not concern.
LEMMA InvocationKept ==
  ASSUME NEW o \in Operators, Histories, Steady, InvocationOK(o), rb'[o] = rb[o],
         InProgress(o) => \A t \in IdentityTables : tbl'[t] = tbl[t],
         rb[o].pc = "move" => tbl' = tbl
  PROVE  InvocationOK(o)'
<1>1. SUFFICES ASSUME InProgress(o) PROVE InvocationOK(o)'
  BY DEF InvocationOK, InProgress
<1>2. ASSUME NEW n \in DOMAIN rb[o].plan PROVE ActionOK(rb[o].plan[n], rb[o].id)'
  <2> DEFINE a == rb[o].plan[n]
  <2>1. ActionOK(a, rb[o].id) /\ a.table \in Eligible /\ rb'[o].plan[n] = a
    BY <1>1 DEF InvocationOK
  <2>2. History(tbl[a.table]) /\ Grown(tbl[a.table], tbl'[a.table])
    BY <2>1, IdentityFacts DEF Histories, Steady, Eligible
  <2>3. Stretch(tbl'[a.table], a.tip, a.target, rb[o].id) /\ CleanAt(tbl'[a.table], a.target, rb[o].id)
    <3> DEFINE T == tbl[a.table]
    <3>1. Stretch(T, a.tip, a.target, rb[o].id) /\ CleanAt(T, a.target, rb[o].id)
      BY <2>1 DEF ActionOK
    <3> HIDE DEF a, T
    <3>2. History(T) /\ Grown(T, tbl'[a.table])
      BY <2>2 DEF T
    <3> QED BY <3>1, <3>2, StretchKept
  <2>4. a.table \in IdentityTables => tbl'[a.table] = tbl[a.table]
    BY <1>1
  <2> QED BY <2>1, <2>3, <2>4 DEF ActionOK
<1>3. \A t \in Eligible :
         \/ \E n \in DOMAIN rb[o].plan : RollbackOrder[n] = t
         \/ t \in IdentityTables /\ CleanAt(tbl'[t], tbl'[t].head, rb[o].id)
  BY <1>1 DEF InvocationOK
<1>4. Todo(o)' = Todo(o)
  BY DEF Todo, Place
<1>5. rb[o].pc = "move" => tbl'[Todo(o).table].head = Todo(o).tip
  BY <1>1 DEF InvocationOK
<1> QED BY <1>1, <1>2, <1>3, <1>4, <1>5 DEF InvocationOK

\* ------------------------------------------------------------- steps of the submitters

LEMMA GotoRb ==
  ASSUME RbOK, NEW o \in Operators, NEW pc, RbGoto(o, pc)
  PROVE  /\ RbOK' /\ rb'[o].pc = pc /\ rb'[o].id = rb[o].id /\ rb'[o].plan = rb[o].plan
         /\ \A p \in Operators : p # o => rb'[p] = rb[p]
<1>1. rb' = [rb EXCEPT ![o] = [pc |-> pc, id |-> rb[o].id, plan |-> rb[o].plan]]
  <2>1. rb[o] = [pc |-> rb[o].pc, id |-> rb[o].id, plan |-> rb[o].plan]
    BY DEF RbOK
  <2>2. [rb[o] EXCEPT !.pc = pc] = [pc |-> pc, id |-> rb[o].id, plan |-> rb[o].plan]
    BY <2>1
  <2> QED BY <2>2 DEF RbGoto
<1>2. DOMAIN rb = Operators
  BY DEF RbOK
<1> QED BY <1>1, <1>2 DEF RbOK

LEMMA NothingUnderMove ==
  ASSUME RbOK, NoRace, rb' = rb, NEW o \in Operators, rb[o].pc = "move"
  PROVE  tbl' = tbl
<1>1. ASSUME NEW p \in Operators, Move(p) PROVE FALSE
  <2>1. rb[p].pc = "move" /\ (RbGoto(p, "verify") \/ RbGoto(p, "refused"))
    BY <1>1 DEF Move
  <2> QED BY <2>1, GotoRb
<1> QED BY <1>1 DEF NoRace

LEMMA SubmitterStep ==
  ASSUME NEW w \in Writers, TypeOK, Histories, PinsOK, SubmitterOK(w), Advance(w) \/ Crash(w)
  PROVE  /\ SubmitterOK(w)' /\ pins' = pins
         /\ tbl' = tbl \/ \E t \in Tables \cup {RunTable} : \E added : Landed(w, t, added)
<1>1. pins' = pins
  BY AdvanceOK
<1>2. CASE \E ok \in BOOLEAN : Land(w, ok)
  <2>1. PICK ok \in BOOLEAN : Land(w, ok)
    BY <1>2
  <2>2. PICK t \in Tables \cup {RunTable} : \E added : Landed(w, t, added)
    BY <2>1, Landing
  <2>3. PICK added : Landed(w, t, added)
    BY <2>2
  <2> QED BY <1>1, <2>1, <2>3, LandSubmitter
<1>3. CASE ~\E ok \in BOOLEAN : Land(w, ok)
  <2>1. tbl' = tbl
    BY <1>3, OnlyLandWrites
  <2>2. CASE Strip(w) \/ CountTables(w) \/ PinSnapshots(w)
    BY <1>1, <2>1, <2>2, StripSubmitter, CountSubmitter, PinSubmitter
  <2>3. CASE ~(Strip(w) \/ CountTables(w) \/ PinSnapshots(w))
    <3>1. \/ Start(w) \/ Preflight(w) \/ Recheck(w) \/ Guard(w) \/ EnsureManifest(w)
          \/ Stage(w) \/ Confirm(w) \/ ReadBase(w) \/ Raise(w) \/ SettleManifest(w) \/ Settle(w)
          \/ ReadMarkerBase(w) \/ (\E ok \in BOOLEAN : Publish(w, ok)) \/ PublishRaises(w)
          \/ Verify(w) \/ Reuse(w) \/ Crash(w)
      BY <1>3, <2>3 DEF Advance
    <3> QED BY <1>1, <2>1, <3>1, QuietSubmitter
  <2> QED BY <2>2, <2>3
<1> QED BY <1>2, <1>3

LEMMA GrownRefl == ASSUME NEW T PROVE Grown(T, T)
BY DEF Grown

\* What a landed MERGE leaves alone.
LEMMA LandedFacts ==
  ASSUME NEW w \in Writers, IdentityInv, pins' = pins,
         NEW t \in Tables \cup {RunTable}, NEW added, Landed(w, t, added)
  PROVE  /\ Histories' /\ Steady /\ Apart'
         /\ Running(w)
         /\ ~Generation(RunOf[w]) => \A u \in IdentityTables : tbl'[u] = tbl[u]
         /\ \A id : RunRows(tbl[RunTable], id) # {} => RunRows(tbl'[RunTable], id) # {}
<1>0. TypeOK /\ Histories /\ Apart /\ SubmitterOK(w) /\ wr[w].id.base = RunOf[w]
  BY DEF IdentityInv, SubmitterOK, Kind
<1>1. /\ \A u \in (Tables \cup {RunTable}) \ {t} : tbl'[u] = tbl[u]
      /\ History(tbl'[t]) /\ Grown(tbl[t], tbl'[t])
  BY DEF Landed
<1>2. Histories'
  BY <1>0, <1>1 DEF Histories
<1>3. Steady
  <2>1. \A u \in Tables \cup {RunTable} : Grown(tbl[u], tbl'[u])
    BY <1>1, GrownRefl
  <2> QED BY <2>1 DEF Steady
<1>4. Apart'
  <2>1. SUFFICES ASSUME NEW u \in Tables, NEW i \in Snapshots(tbl'[u]), tbl'[u].snaps[i].run # NoRun
                 PROVE  u \in IdentityTables <=> Generation(tbl'[u].snaps[i].run.base)
    BY DEF Apart
  <2>2. CASE i \in Snapshots(tbl[u])
    <3>1. tbl'[u].snaps[i] = tbl[u].snaps[i]
      BY <1>3, <2>2 DEF Steady, Grown
    <3> QED BY <1>0, <2>1, <2>2, <3>1 DEF Apart
  <2>3. CASE i \notin Snapshots(tbl[u])
    <3>1. u = t
      BY <1>1, <2>1, <2>3
    <3>2. i = tbl'[t].head /\ tbl'[t].snaps[i].run = wr[w].id
      BY <2>1, <2>3, <3>1 DEF Landed
    <3>3. t \in IdentityTables <=> Generation(RunOf[w])
      BY <2>1, <3>1, IdentityFacts DEF Landed
    <3> QED BY <1>0, <3>1, <3>2, <3>3
  <2> QED BY <2>2, <2>3
<1>5. Running(w)
  BY DEF Landed, Running, Stopped
<1>6. ~Generation(RunOf[w]) => \A u \in IdentityTables : tbl'[u] = tbl[u]
  BY <1>1, IdentityFacts DEF Landed
<1>7. Rows(tbl[RunTable]) \subseteq Rows(tbl'[RunTable])
  BY <1>1 DEF Landed
<1> QED BY <1>2, <1>3, <1>4, <1>5, <1>6, <1>7 DEF RunRows, RunRowsAt, Rows

LEMMA QuietTables ==
  ASSUME IdentityInv, tbl' = tbl, \A r \in Runs : pins[r].planned => pins'[r] = pins[r]
  PROVE  Histories' /\ Steady /\ Apart'
BY GrownRefl DEF IdentityInv, Histories, Steady, Apart

LEMMA MarkersKept ==
  ASSUME IdentityInv, Steady, markers' = markers
  PROVE  MarkersOK'
<1>0. TypeOK /\ PinsOK /\ MarkersOK /\ markers \in Seq(Marker)
  BY DEF IdentityInv, TypeOK
<1>1. ASSUME NEW n \in DOMAIN markers, Generation(markers[n].run.base)
      PROVE  /\ Pinned(markers[n].run.base) => pins'[markers[n].run.base].planned
             /\ Lineage(markers[n])'
  <2>1. PICK m : m = markers[n]
    OBVIOUS
  <2>2. m \in Marker
    BY <1>0, <2>1
  <2>3. m.run.base \in Runs
    BY <2>2 DEF Marker, RunId
  <2>4. (Pinned(m.run.base) => pins[m.run.base].planned) /\ Lineage(m)
    BY <1>0, <1>1, <2>1 DEF MarkersOK
  <2>5. Lineage(m)' /\ (Pinned(m.run.base) => pins'[m.run.base].planned)
    BY <1>0, <2>3, <2>4, LineageKept DEF Steady
  <2> QED BY <2>1, <2>5 DEF Lineage, OtherRows
<1> QED BY <1>1 DEF MarkersOK

\* One of a run's markers keeps its lineage; a new one has that of its submitter.
LEMMA MarkersStep ==
  ASSUME NEW w \in Writers, IdentityInv, Steady, pins' = pins, MarkerStep(w)
  PROVE  MarkersOK'
<1>0. TypeOK /\ PinsOK /\ MarkersOK /\ SubmitterOK(w) /\ markers \in Seq(Marker)
      /\ wr[w].id.base = RunOf[w] /\ RunOf[w] \in Runs
  BY IdentityFacts DEF IdentityInv, TypeOK, SubmitterOK, Kind
<1>1. ASSUME NEW m, m.run.base \in Runs, Pinned(m.run.base) => pins[m.run.base].planned,
             Lineage(m)
      PROVE  (Pinned(m.run.base) => pins'[m.run.base].planned) /\ Lineage(m)'
  BY <1>0, <1>1, LineageKept
<1>2. ASSUME NEW n \in DOMAIN markers, Generation(markers[n].run.base)
      PROVE  /\ Pinned(markers[n].run.base) => pins'[markers[n].run.base].planned
             /\ \A m : m = markers[n] => Lineage(m)'
  <2>1. markers[n] \in Marker
    BY <1>0
  <2>2. markers[n].run.base \in Runs
    BY <2>1 DEF Marker, RunId
  <2>3. /\ Pinned(markers[n].run.base) => pins[markers[n].run.base].planned
        /\ Lineage(markers[n])
    BY <1>0, <1>2 DEF MarkersOK
  <2> QED BY <1>1, <2>2, <2>3
<1>3. CASE markers' = markers
  BY <1>3, MarkersKept
<1>4. CASE wr[w].pc = "publish" /\ markers' = Append(markers, Mine(w))
  <2>1. ASSUME NEW n \in DOMAIN markers', Generation(markers'[n].run.base)
        PROVE  /\ Pinned(markers'[n].run.base) => pins'[markers'[n].run.base].planned
               /\ Lineage(markers[n])'
    <3>1. PICK m : m = markers'[n]
      OBVIOUS
    <3>2. CASE n \in DOMAIN markers
      <4>1. m = markers[n]
        BY <1>0, <1>4, <3>1, <3>2
      <4> QED BY <1>2, <2>1, <3>1, <3>2, <4>1 DEF Lineage, OtherRows
    <3>3. CASE n \notin DOMAIN markers
      <4>1. m = Mine(w)
        BY <1>0, <1>4, <3>1, <3>3
      <4>2. m.run.base = RunOf[w] /\ Generation(RunOf[w])
        BY <1>0, <2>1, <3>1, <4>1 DEF Mine
      <4>3. OkAt(w, "publish")
        BY <1>0, <1>4, <4>2 DEF SubmitterOK
      <4>4. Lineage(m) /\ (Pinned(m.run.base) => pins[m.run.base].planned)
        BY <4>1, <4>2, <4>3 DEF OkAt
      <4>5. Lineage(m)' /\ (Pinned(m.run.base) => pins'[m.run.base].planned)
        BY <1>0, <1>1, <4>2, <4>4
      <4> QED BY <3>1, <4>5 DEF Lineage, OtherRows
    <3> QED BY <3>2, <3>3
  <2> QED BY <2>1 DEF MarkersOK
<1> QED BY <1>3, <1>4 DEF MarkerStep

LEMMA CommittedGrows ==
  ASSUME NEW w \in Writers, TypeOK, MarkerStep(w)
  PROVE  Committed \subseteq Committed'
<1>1. markers \in Seq(Marker)
  BY DEF TypeOK
<1>2. \A m \in DOMAIN markers : m \in DOMAIN markers' /\ markers'[m] = markers[m]
  BY <1>1 DEF MarkerStep
<1> QED BY <1>2 DEF Committed

\* Identity submitters start one at a time, and not beside an invocation.
LEMMA ExclusiveDrive ==
  ASSUME NEW w \in Writers, IdentityInv, Drive(w)
  PROVE  Exclusive'
<1>0. Exclusive /\ wr \in [Writers -> Writer] /\ wr' = [wr EXCEPT ![w] = wr'[w]] /\ rb' = rb
  BY AdvanceOK DEF IdentityInv, TypeOK, Drive
<1>1. \A v \in Writers \ {w} : Running(v)' <=> Running(v)
  BY <1>0 DEF Running
<1>2. \A o \in Operators : InProgress(o)' <=> InProgress(o)
  BY <1>0 DEF InProgress
<1>3. \/ Running(w)
      \/ wr[w].pc = "idle" /\ (Generation(RunOf[w]) =>
            Fenced(w) /\ \A o \in Operators : ~InProgress(o))
  <2>1. wr[w].pc \notin Stopped
    BY DEF Drive, Advance, Crash, Start, Preflight, Strip, Recheck, Guard, EnsureManifest, Stage,
       Confirm, ReadBase, Land, Publish, Raise, SettleManifest, Settle, CountTables, PinSnapshots,
       ReadMarkerBase, PublishRaises, Verify, Reuse, Stopped
  <2> QED BY <2>1 DEF Running, Drive
<1>4. \A v \in Writers \ {w} : ~(/\ Running(v) /\ Generation(RunOf[v])
                                 /\ Generation(RunOf[w]) /\ Running(w)')
  BY <1>0, <1>3 DEF Exclusive, Fenced
<1>5. \A o \in Operators : ~(InProgress(o) /\ Generation(RunOf[w]) /\ Running(w)')
  BY <1>0, <1>3 DEF Exclusive
<1> QED BY <1>0, <1>1, <1>2, <1>4, <1>5 DEF Exclusive

\* Rows of an uncommitted run lie above its manifest, which is staged first.
LEMMA ResumableLanded ==
  ASSUME NEW w \in Writers, IdentityInv, MarkerStep(w),
         NEW t \in Tables \cup {RunTable}, NEW added, Landed(w, t, added)
  PROVE  RollbackResumable'
<1>0. TypeOK /\ RollbackResumable /\ SubmitterOK(w) /\ Committed \subseteq Committed'
  BY CommittedGrows DEF IdentityInv
<1>1. Rows(tbl[RunTable]) \subseteq Rows(tbl'[RunTable])
  BY DEF Landed
<1>2. ASSUME NEW u \in IdentityTables, NEW x \in Rows(tbl'[u]), x.run \notin Committed'
      PROVE  RunRows(tbl[RunTable], x.run) # {}
  <2>1. CASE x \in Rows(tbl[u])
    BY <1>0, <1>2, <2>1 DEF RollbackResumable
  <2>2. CASE x \notin Rows(tbl[u])
    <3>1. u = t /\ x \in added /\ x.run = wr[w].id
      BY <1>2, <2>2, IdentityFacts DEF Landed
    <3>2. wr[w].pc = "land" /\ Generation(RunOf[w])
      BY <3>1, IdentityFacts DEF Landed
    <3> QED BY <1>0, <3>1, <3>2 DEF SubmitterOK, OkAt, Described
  <2> QED BY <2>1, <2>2
<1>3. \A id : RunRows(tbl[RunTable], id) # {} => RunRows(tbl'[RunTable], id) # {}
  BY <1>1 DEF RunRows, RunRowsAt, Rows
<1> QED BY <1>2, <1>3 DEF RollbackResumable

LEMMA DriveStep ==
  ASSUME NEW w \in Writers, IdentityInv, Drive(w), NoRace
  PROVE  IdentityInv'
<1>0. /\ TypeOK /\ Histories /\ PinsOK /\ Exclusive /\ RollbackResumable /\ RbOK
      /\ \A v \in Writers : SubmitterOK(v)
      /\ \A o \in Operators : InvocationOK(o)
  BY DEF IdentityInv
<1>1. (Advance(w) \/ Crash(w)) /\ rb' = rb /\ refs' = refs
  BY DEF Drive
<1>2. /\ WriterOK(wr'[w]) /\ wr' = [wr EXCEPT ![w] = wr'[w]] /\ TableStep(w) /\ MarkerStep(w)
      /\ pins' = pins
  BY <1>0, <1>1, AdvanceOK
<1>3. TypeOK'
  BY <1>0, <1>2, TypeStep
<1>4. \A v \in Writers \ {w} : wr'[v] = wr[v]
  BY <1>0, <1>2 DEF TypeOK
<1>5. /\ SubmitterOK(w)'
      /\ tbl' = tbl \/ \E t \in Tables \cup {RunTable} : \E added : Landed(w, t, added)
  BY <1>0, <1>1, SubmitterStep
<1>6. /\ Histories' /\ Steady /\ Apart' /\ RollbackResumable'
      /\ tbl' = tbl \/ Running(w)
      /\ ~Generation(RunOf[w]) => \A u \in IdentityTables : tbl'[u] = tbl[u]
      /\ \A id : RunRows(tbl[RunTable], id) # {} => RunRows(tbl'[RunTable], id) # {}
  <2>1. CASE tbl' = tbl
    <3>1. RollbackResumable'
      BY <1>0, <1>2, <2>1, CommittedGrows DEF RollbackResumable
    <3> QED BY <1>2, <2>1, <3>1, QuietTables
  <2>2. CASE tbl' # tbl
    <3>1. PICK t \in Tables \cup {RunTable} : \E added : Landed(w, t, added)
      BY <1>5, <2>2
    <3>2. PICK added : Landed(w, t, added)
      BY <3>1
    <3> QED BY <1>2, <3>2, LandedFacts, ResumableLanded
  <2> QED BY <2>1, <2>2
<1>7. PinsOK'
  <2>1. \A t \in IdentityTables : Snapshots(tbl[t]) \subseteq Snapshots(tbl'[t])
    BY <1>6, IdentityFacts DEF Steady, Grown
  <2> QED BY <1>0, <1>2, <2>1 DEF PinsOK
<1>8. ASSUME NEW v \in Writers \ {w} PROVE SubmitterOK(v)'
  <2>1. ASSUME Generation(RunOf[v]), Running(v), NEW t \in IdentityTables PROVE tbl'[t] = tbl[t]
    BY <1>0, <1>6, <2>1 DEF Exclusive
  <2> QED BY <1>0, <1>4, <1>6, <2>1, Bystander
<1>9. ASSUME NEW o \in Operators PROVE InvocationOK(o)'
  <2>1. ASSUME InProgress(o), NEW t \in IdentityTables PROVE tbl'[t] = tbl[t]
    BY <1>0, <1>6, <2>1 DEF Exclusive
  <2>2. rb[o].pc = "move" => tbl' = tbl
    BY <1>0, <1>1, NothingUnderMove
  <2> QED BY <1>0, <1>1, <1>6, <2>1, <2>2, InvocationKept
<1>10. RbOK'
  BY <1>0, <1>1 DEF RbOK
<1>11. MarkersOK' /\ Exclusive'
  BY <1>2, <1>6, MarkersStep, ExclusiveDrive
<1> QED BY <1>3, <1>5, <1>6, <1>7, <1>8, <1>9, <1>10, <1>11 DEF IdentityInv

\* The planner pins heads, which exist.
LEMMA PlanStep ==
  ASSUME NEW r \in Runs, IdentityInv, Plan(r), UNCHANGED <<rb, refs>>
  PROVE  IdentityInv'
<1>0. /\ TypeOK /\ Histories /\ PinsOK /\ Exclusive /\ RollbackResumable /\ RbOK /\ MarkersOK
      /\ \A v \in Writers : SubmitterOK(v)
      /\ \A o \in Operators : InvocationOK(o)
  BY DEF IdentityInv
<1>1. /\ tbl' = tbl /\ wr' = wr /\ markers' = markers /\ rb' = rb
      /\ ~pins[r].planned
      /\ pins' = [pins EXCEPT ![r] = [planned |-> TRUE,
                                      heads |-> [t \in IdentityTables |-> tbl[t].head],
                                      runs |-> Committed]]
  BY DEF Plan
<1>2. pins \in [Runs -> Pin]
  BY <1>0 DEF TypeOK
<1>3. \A q \in Runs : pins[q].planned => pins'[q] = pins[q]
  BY <1>1, <1>2
<1>4. Histories' /\ Steady /\ Apart'
  BY <1>1, <1>3, QuietTables
<1>5. PinsOK'
  <2>1. SUFFICES ASSUME NEW q \in Runs, NEW t \in IdentityTables, pins'[q].planned
                 PROVE  pins'[q].heads[t] \in {0} \cup Snapshots(tbl[t])
    BY <1>1 DEF PinsOK
  <2>2. CASE q = r
    <3>1. pins'[q].heads[t] = tbl[t].head
      BY <1>1, <1>2, <2>2
    <3>2. History(tbl[t])
      BY <1>0, IdentityFacts DEF Histories
    <3> QED BY <3>1, <3>2, HistoryFacts
  <2>3. CASE q # r
    BY <1>0, <1>1, <1>2, <2>1, <2>3 DEF PinsOK
  <2> QED BY <2>2, <2>3
<1>6. ASSUME NEW v \in Writers PROVE SubmitterOK(v)'
  BY <1>0, <1>1, <1>4, Bystander
<1>7. ASSUME NEW o \in Operators PROVE InvocationOK(o)'
  BY <1>0, <1>1, <1>4, InvocationKept
<1>8. MarkersOK'
  BY <1>1, <1>4, MarkersKept
<1>9. TypeOK' /\ RbOK' /\ RollbackResumable' /\ Exclusive'
  <2>1. TypeOK'
    BY <1>0, PlanType
  <2> QED BY <1>0, <1>1, <2>1 DEF RbOK, RollbackResumable, Committed, Exclusive, Running, InProgress
<1> QED BY <1>4, <1>5, <1>6, <1>7, <1>8, <1>9 DEF IdentityInv

\* -------------------------------------------------------------- steps of an invocation

LEMMA OrderFacts ==
  /\ Len(TableOrder) \in Nat /\ DOMAIN RollbackOrder = 1..(Len(TableOrder) + 1)
  /\ \A n \in DOMAIN RollbackOrder :
       /\ RollbackOrder[n] \in Tables \cup {RunTable}
       /\ RollbackOrder[n] = RunTable <=> n = Len(TableOrder) + 1
  /\ \A t \in Tables \cup {RunTable} : \E n \in DOMAIN RollbackOrder : RollbackOrder[n] = t
<1> DEFINE len == Len(TableOrder)
<1>1. len \in Nat /\ DOMAIN TableOrder = 1..len
  BY IngestConstants
<1>2. DOMAIN RollbackOrder = 1..(len + 1)
  BY DEF RollbackOrder
<1>3. /\ \A n \in 1..len : RollbackOrder[n] = TableOrder[len + 1 - n] /\ len + 1 - n \in 1..len
      /\ RollbackOrder[len + 1] = RunTable
  BY <1>1 DEF RollbackOrder
<1>4. \A n \in 1..len : RollbackOrder[n] \in Tables
  BY <1>1, <1>3 DEF Tables
<1>5. \A t \in Tables : \E n \in 1..len : RollbackOrder[n] = t
  <2>1. SUFFICES ASSUME NEW k \in 1..len PROVE \E n \in 1..len : RollbackOrder[n] = TableOrder[k]
    BY <1>1 DEF Tables
  <2>2. len + 1 - k \in 1..len /\ len + 1 - (len + 1 - k) = k
    BY <1>1
  <2> QED BY <1>3, <2>2
<1> HIDE DEF len
<1>6. \A n \in 1..(len + 1) : n \in 1..len \/ n = len + 1
  BY <1>1
<1>7. \A n \in 1..len : n \in 1..(len + 1) /\ n # len + 1
  BY <1>1
<1>8. len + 1 \in 1..(len + 1)
  BY <1>1
<1> QED BY <1>1, <1>2, <1>3, <1>4, <1>5, <1>6, <1>7, <1>8, IdentityFacts DEF len

\* The next action is that of the first table left; the run table is last.
LEMMA PlaceFacts ==
  ASSUME NEW o \in Operators, InvocationOK(o), InProgress(o)
  PROVE  /\ Place(o) \in DOMAIN rb[o].plan /\ \A n \in DOMAIN rb[o].plan : Place(o) <= n
         /\ Todo(o).table = RollbackOrder[Place(o)] /\ Todo(o).table \in Eligible
         /\ ActionOK(Todo(o), rb[o].id)
         /\ Todo(o).table = RunTable => DOMAIN rb[o].plan = {Place(o)}
<1>1. /\ DOMAIN rb[o].plan # {} /\ DOMAIN rb[o].plan \subseteq DOMAIN RollbackOrder
      /\ \A n \in DOMAIN rb[o].plan :
           /\ rb[o].plan[n].table = RollbackOrder[n] /\ RollbackOrder[n] \in Eligible
           /\ ActionOK(rb[o].plan[n], rb[o].id)
  BY DEF InvocationOK
<1>2. DOMAIN rb[o].plan \in SUBSET Nat
  BY <1>1, OrderFacts
<1>3. Place(o) \in DOMAIN rb[o].plan /\ \A n \in DOMAIN rb[o].plan : Place(o) <= n
  BY <1>1, <1>2, Smallest DEF Place
<1>4. Todo(o).table = RollbackOrder[Place(o)] /\ Todo(o).table \in Eligible /\ ActionOK(Todo(o), rb[o].id)
  BY <1>1, <1>3 DEF Todo
<1>5. ASSUME Todo(o).table = RunTable PROVE DOMAIN rb[o].plan = {Place(o)}
  <2>1. Place(o) = Len(TableOrder) + 1
    BY <1>1, <1>3, <1>4, <1>5, OrderFacts
  <2>2. \A n \in DOMAIN rb[o].plan : n = Place(o)
    BY <1>1, <1>3, <2>1, OrderFacts
  <2> QED BY <1>3, <2>2
<1> QED BY <1>3, <1>4, <1>5

\* An invocation that only moves on in its plan's first action.
LEMMA GotoInvocation ==
  ASSUME NEW o \in Operators, RbOK, InvocationOK(o), InProgress(o), tbl' = tbl,
         NEW pc, RbGoto(o, pc), pc = "move" => tbl[Todo(o).table].head = Todo(o).tip
  PROVE  InvocationOK(o)'
<1>1. rb'[o].pc = pc /\ rb'[o].id = rb[o].id /\ rb'[o].plan = rb[o].plan
  BY GotoRb
<1>2. Todo(o)' = Todo(o)
  BY <1>1 DEF Todo, Place
<1> QED BY <1>1, <1>2 DEF InvocationOK, ActionOK

\* One that has its first table clean turns to the rest.
LEMMA NextActionFacts ==
  ASSUME NEW o \in Operators, RbOK, Histories, InvocationOK(o), InProgress(o), tbl' = tbl,
         NextAction(o), AtTarget(tbl[Todo(o).table], rb[o].id, Todo(o).target)
  PROVE  /\ InvocationOK(o)' /\ RbOK' /\ \A p \in Operators \ {o} : rb'[p] = rb[p]
         /\ rb'[o].pc = "done" =>
              /\ rb'[o].id = rb[o].id
              /\ \A t \in Eligible : CleanAt(tbl[t], tbl[t].head, rb[o].id)
<1> DEFINE rest == DOMAIN rb[o].plan \ {Place(o)}
           left == [n \in rest |-> rb[o].plan[n]]
           pc == IF rest = {} THEN "done" ELSE "commit"
<1>1. rb' = [rb EXCEPT ![o] = [pc |-> pc, id |-> rb[o].id, plan |-> left]]
  BY DEF NextAction
<1> HIDE DEF left, pc
<1>2. /\ rb'[o].pc = pc /\ rb'[o].id = rb[o].id /\ rb'[o].plan = left
      /\ RbOK' /\ \A p \in Operators \ {o} : rb'[p] = rb[p]
  BY <1>1 DEF RbOK
<1>3. DOMAIN left = rest /\ \A n \in rest : left[n] = rb[o].plan[n]
  BY DEF left
<1>4. /\ rb[o].id \in RunId /\ Generation(rb[o].id.base)
      /\ DOMAIN rb[o].plan \subseteq DOMAIN RollbackOrder
      /\ \A n \in DOMAIN rb[o].plan :
           /\ rb[o].plan[n].table = RollbackOrder[n] /\ RollbackOrder[n] \in Eligible
           /\ ActionOK(rb[o].plan[n], rb[o].id)
      /\ \A t \in Eligible :
           \/ \E n \in DOMAIN rb[o].plan : RollbackOrder[n] = t
           \/ t \in IdentityTables /\ CleanAt(tbl[t], tbl[t].head, rb[o].id)
  BY DEF InvocationOK
<1>5. /\ Place(o) \in DOMAIN rb[o].plan
      /\ Todo(o).table = RollbackOrder[Place(o)] /\ Todo(o).table \in Eligible
      /\ ActionOK(Todo(o), rb[o].id)
      /\ Todo(o).table = RunTable => DOMAIN rb[o].plan = {Place(o)}
  BY PlaceFacts
<1>6. CleanAt(tbl[Todo(o).table], tbl[Todo(o).table].head, rb[o].id)
  <2> DEFINE T == tbl[Todo(o).table]
             target == Todo(o).target
  <2>1. History(T)
    BY <1>5, IdentityFacts DEF Histories, Eligible
  <2>2. CleanAt(T, target, rb[o].id) /\ AtTarget(T, rb[o].id, target)
    BY <1>5 DEF ActionOK
  <2> HIDE DEF T, target
  <2>3. CleanAt(T, T.head, rb[o].id)
    BY <1>4, <2>1, <2>2, TargetIsClean
  <2> QED BY <2>3 DEF T
<1>7. \A t \in Eligible :
        (\E n \in rest : RollbackOrder[n] = t) \/ CleanAt(tbl[t], tbl[t].head, rb[o].id)
  BY <1>4, <1>5, <1>6
<1>8. CASE rest = {}
  <2>1. rb'[o].pc = "done"
    BY <1>2, <1>8 DEF pc
  <2> QED BY <1>2, <1>7, <1>8, <2>1 DEF InvocationOK, InProgress, OpStopped
<1>9. CASE rest # {}
  <2>1. rb'[o].pc = "commit"
    BY <1>2, <1>9 DEF pc
  <2>2. Todo(o).table # RunTable
    BY <1>5, <1>9
  <2>3. \A t \in Eligible :
          \/ \E n \in rest : RollbackOrder[n] = t
          \/ t \in IdentityTables /\ CleanAt(tbl[t], tbl[t].head, rb[o].id)
    BY <1>4, <1>5, <1>7, <2>2 DEF Eligible
  <2> QED BY <1>2, <1>3, <1>4, <1>9, <2>1, <2>3 DEF InvocationOK, ActionOK
<1> QED BY <1>8, <1>9

LEMMA ExclusiveOperate ==
  ASSUME NEW o \in Operators, Exclusive, InProgress(o), wr' = wr,
         \A p \in Operators \ {o} : rb'[p] = rb[p]
  PROVE  Exclusive'
<1>1. \A p \in Operators : InProgress(p)' => InProgress(p)
  BY DEF InProgress
<1>2. \A v \in Writers : Running(v)' <=> Running(v)
  BY DEF Running
<1> QED BY <1>1, <1>2 DEF Exclusive

\* A step of an invocation that only reads.
LEMMA QuietOperate ==
  ASSUME NEW o \in Operators, IdentityInv, Quiet, RbOK', Exclusive', InvocationOK(o)',
         \A p \in Operators \ {o} : rb'[p] = rb[p]
  PROVE  IdentityInv'
<1>1. /\ tbl' = tbl /\ markers' = markers /\ pins' = pins /\ wr' = wr /\ refs' = refs
      /\ TypeOK /\ PinsOK /\ Histories /\ MarkersOK /\ RollbackResumable
  BY DEF IdentityInv, Quiet
<1>2. Histories' /\ Steady /\ Apart'
  BY <1>1, QuietTables
<1>3. TypeOK'
  BY <1>1 DEF TypeOK
<1>4. PinsOK' /\ RollbackResumable' /\ MarkersOK'
  BY <1>1, <1>2, MarkersKept DEF PinsOK, RollbackResumable, Committed
<1>5. ASSUME NEW v \in Writers PROVE SubmitterOK(v)'
  BY <1>1, <1>2, Bystander DEF IdentityInv
<1>6. ASSUME NEW p \in Operators PROVE InvocationOK(p)'
  <2>1. CASE p = o
    BY <2>1
  <2>2. CASE p # o
    BY <1>1, <1>2, <2>2, InvocationKept DEF IdentityInv
  <2> QED BY <2>1, <2>2
<1> QED BY <1>2, <1>3, <1>4, <1>5, <1>6 DEF IdentityInv

LEMMA QuietOperateStep ==
  ASSUME NEW o \in Operators, IdentityInv,
         CheckCommit(o) \/ CheckState(o) \/ RecheckHead(o) \/ VerifyMove(o) \/ OpCrash(o)
  PROVE  IdentityInv'
<1>0. RbOK /\ Histories /\ Exclusive /\ InvocationOK(o)
  BY DEF IdentityInv
<1>1. InProgress(o) /\ Quiet
  BY DEF CheckCommit, CheckState, RecheckHead, VerifyMove, OpCrash, InProgress, OpStopped
<1>2. tbl' = tbl /\ wr' = wr
  BY <1>1 DEF Quiet
<1>3. ASSUME NEW pc, RbGoto(o, pc), pc = "move" => tbl[Todo(o).table].head = Todo(o).tip
      PROVE  IdentityInv'
  <2>1. InvocationOK(o)'
    BY <1>0, <1>1, <1>2, <1>3, GotoInvocation
  <2>2. RbOK' /\ \A p \in Operators \ {o} : rb'[p] = rb[p]
    BY <1>0, <1>3, GotoRb
  <2>3. Exclusive'
    BY <1>0, <1>1, <1>2, <2>2, ExclusiveOperate
  <2> QED BY <1>1, <2>1, <2>2, <2>3, QuietOperate
<1>4. ASSUME NextAction(o), AtTarget(tbl[Todo(o).table], rb[o].id, Todo(o).target)
      PROVE  IdentityInv'
  <2>1. InvocationOK(o)' /\ RbOK' /\ \A p \in Operators \ {o} : rb'[p] = rb[p]
    BY <1>0, <1>1, <1>2, <1>4, NextActionFacts
  <2>2. Exclusive'
    BY <1>0, <1>1, <1>2, <2>1, ExclusiveOperate
  <2> QED BY <1>1, <2>1, <2>2, QuietOperate
<1>5. CASE CheckCommit(o)
  <2>1. \E pc \in {"refused", "state"} : RbGoto(o, pc)
    BY <1>5 DEF CheckCommit
  <2> QED BY <1>3, <2>1
<1>6. CASE CheckState(o)
  <2>1. \/ \E pc \in {"refused", "recheck"} : RbGoto(o, pc)
        \/ AtTarget(tbl[Todo(o).table], rb[o].id, Todo(o).target) /\ NextAction(o)
    BY <1>6 DEF CheckState
  <2> QED BY <1>3, <1>4, <2>1
<1>7. CASE RecheckHead(o)
  <2>1. \/ RbGoto(o, "refused")
        \/ RbGoto(o, "move") /\ tbl[Todo(o).table].head = Todo(o).tip
    BY <1>7 DEF RecheckHead
  <2> QED BY <1>3, <2>1
<1>8. CASE VerifyMove(o)
  <2>1. \/ RbGoto(o, "refused")
        \/ AtTarget(tbl[Todo(o).table], rb[o].id, Todo(o).target) /\ NextAction(o)
    BY <1>8 DEF VerifyMove
  <2> QED BY <1>3, <1>4, <2>1
<1>9. CASE OpCrash(o)
  BY <1>3, <1>9 DEF OpCrash
<1> QED BY <1>5, <1>6, <1>7, <1>8, <1>9

\* What a move does to its table: rows of the run go, others stay.
MovedBack(o) ==
  LET t == Todo(o).table
      id == rb[o].id
  IN  /\ tbl' = [tbl EXCEPT ![t] = tbl'[t]]
      /\ \A u \in (Tables \cup {RunTable}) \ {t} : tbl'[u] = tbl[u]
      /\ History(tbl'[t]) /\ Grown(tbl[t], tbl'[t])
      /\ \A i \in Snapshots(tbl'[t]) \ Snapshots(tbl[t]) : tbl'[t].snaps[i].run = NoRun
      /\ CleanAt(tbl'[t], tbl'[t].head, id)
      /\ Rows(tbl'[t]) \subseteq Rows(tbl[t])
      /\ \A x \in Rows(tbl[t]) : x.run = id \/ x \in Rows(tbl'[t])

LEMMA MoveFacts ==
  ASSUME NEW o \in Operators, IdentityInv, Move(o)
  PROVE  /\ InProgress(o) /\ Todo(o).table \in Eligible
         /\ \/ tbl' = tbl /\ RbGoto(o, "refused")
            \/ MovedBack(o) /\ RbGoto(o, "verify")
<1> DEFINE t == Todo(o).table
           T == tbl[t]
           target == Todo(o).target
           id == rb[o].id
           B == [T EXCEPT !.head = target]
           D == Commit(T, NoRun, 0, id, WithoutRun(T, id))
<1>0. TypeOK /\ Histories /\ InvocationOK(o) /\ DOMAIN tbl = Tables \cup {RunTable}
  BY DEF IdentityInv, TypeOK
<1>1. rb[o].pc = "move" /\ InProgress(o)
  BY DEF Move, InProgress, OpStopped
<1>2. /\ t \in Eligible /\ ActionOK(Todo(o), id) /\ id \in RunId
      /\ T.head = Todo(o).tip
  BY <1>0, <1>1, PlaceFacts DEF InvocationOK
<1>3. /\ t \in Tables \cup {RunTable} /\ History(T)
      /\ Stretch(T, T.head, target, id) /\ CleanAt(T, target, id)
  BY <1>0, <1>2, IdentityFacts DEF Eligible, Histories, ActionOK
<1>4. \/ tbl' = [tbl EXCEPT ![t] = D] /\ RbGoto(o, "verify")
      \/ tbl' = [tbl EXCEPT ![t] = B] /\ RbGoto(o, "verify")
      \/ tbl' = tbl /\ RbGoto(o, "refused")
  BY DEF Move
<1> HIDE DEF t, target, id
<1>5. CASE tbl' = [tbl EXCEPT ![t] = D] /\ RbGoto(o, "verify")
  <2> HIDE DEF T
  <2>1. /\ History(D) /\ Grown(T, D) /\ D.head \notin {0} \cup Snapshots(T)
        /\ Snapshots(D) = Snapshots(T) \cup {D.head}
        /\ D.snaps[D.head].run = NoRun /\ D.snaps[D.head].undo = id
        /\ Rows(D) = WithoutRun(T, id)
    BY <1>2, <1>3, HistoryUndo
  <2> HIDE DEF D
  <2>2. CleanAt(D, D.head, id)
    BY <1>2, <2>1, UndoneIsClean
  <2>3. tbl'[t] = D /\ \A u \in (Tables \cup {RunTable}) \ {t} : tbl'[u] = tbl[u]
    BY <1>0, <1>3, <1>5
  <2>4. MovedBack(o)
    BY <1>5, <2>1, <2>2, <2>3 DEF MovedBack, WithoutRun, t, T, id
  <2> QED BY <1>1, <1>2, <1>5, <2>4 DEF t
<1>6. CASE tbl' = [tbl EXCEPT ![t] = B] /\ RbGoto(o, "verify")
  <2> HIDE DEF T
  <2>1. /\ History(B) /\ Grown(T, B) /\ B.head = target /\ B.snaps = T.snaps
        /\ Rows(B) = RowsAt(T, target)
    BY <1>2, <1>3, HistoryBack
  <2> HIDE DEF B
  <2>2. /\ T.head \in Snapshots(T) /\ Rows(T) = T.snaps[T.head].rows
        /\ target \in {0} \cup Snapshots(T)
    <3>1. T.head \in Snapshots(T) /\ target \in {0} \cup T.snaps[T.head].anc
      BY <1>3 DEF Stretch
    <3> QED BY <1>3, <3>1, HistoryFacts DEF Rows
  <2>3. /\ RowsAt(T, target) \subseteq T.snaps[T.head].rows
        /\ \A x \in T.snaps[T.head].rows : x.run = id \/ x \in RowsAt(T, target)
    BY <1>2, <1>3, Unwound
  <2>4. CleanAt(B, B.head, id)
    BY <1>3, <2>1 DEF CleanAt, RunRowsAt, RowsAt
  <2>5. tbl'[t] = B /\ \A u \in (Tables \cup {RunTable}) \ {t} : tbl'[u] = tbl[u]
    BY <1>0, <1>3, <1>6
  <2>6. Snapshots(B) = Snapshots(T)
    BY <2>1 DEF Snapshots
  <2>7. MovedBack(o)
    BY <1>6, <2>1, <2>2, <2>3, <2>4, <2>5, <2>6 DEF MovedBack, t, T, id
  <2> QED BY <1>1, <1>2, <1>6, <2>7 DEF t
<1> QED BY <1>1, <1>2, <1>4, <1>5, <1>6 DEF t

LEMMA MoveStep ==
  ASSUME NEW o \in Operators, IdentityInv, Move(o)
  PROVE  IdentityInv'
<1>0. /\ TypeOK /\ Histories /\ PinsOK /\ Apart /\ Exclusive /\ MarkersOK /\ RollbackResumable
      /\ RbOK /\ InvocationOK(o)
      /\ \A v \in Writers : SubmitterOK(v)
      /\ tbl \in [Tables \cup {RunTable} -> TableType]
  BY DEF IdentityInv, TypeOK
<1>1. /\ markers' = markers /\ pins' = pins /\ wr' = wr /\ refs' = refs
      /\ rb[o].pc = "move" /\ InProgress(o) /\ Todo(o).table \in Eligible
  BY MoveFacts DEF Move
<1>2. CASE tbl' = tbl /\ RbGoto(o, "refused")
  <2>1. InvocationOK(o)'
    BY <1>0, <1>1, <1>2, GotoInvocation
  <2>2. RbOK' /\ \A p \in Operators \ {o} : rb'[p] = rb[p]
    BY <1>0, <1>2, GotoRb
  <2>3. Exclusive'
    BY <1>0, <1>1, <2>2, ExclusiveOperate
  <2> QED BY <1>1, <1>2, <2>1, <2>2, <2>3, QuietOperate DEF Quiet
<1>3. CASE MovedBack(o) /\ RbGoto(o, "verify")
  <2> DEFINE t == Todo(o).table
             id == rb[o].id
  <2>1. /\ tbl' = [tbl EXCEPT ![t] = tbl'[t]]
        /\ \A u \in (Tables \cup {RunTable}) \ {t} : tbl'[u] = tbl[u]
        /\ History(tbl'[t]) /\ Grown(tbl[t], tbl'[t])
        /\ \A i \in Snapshots(tbl'[t]) \ Snapshots(tbl[t]) : tbl'[t].snaps[i].run = NoRun
        /\ CleanAt(tbl'[t], tbl'[t].head, id)
        /\ Rows(tbl'[t]) \subseteq Rows(tbl[t])
        /\ \A x \in Rows(tbl[t]) : x.run = id \/ x \in Rows(tbl'[t])
    BY <1>3 DEF MovedBack
  <2>2. /\ DOMAIN rb[o].plan \subseteq DOMAIN RollbackOrder /\ id \in RunId
        /\ \A n \in DOMAIN rb[o].plan :
             /\ rb[o].plan[n].table = RollbackOrder[n] /\ RollbackOrder[n] \in Eligible
             /\ ActionOK(rb[o].plan[n], id)
        /\ \A u \in Eligible :
             \/ \E n \in DOMAIN rb[o].plan : RollbackOrder[n] = u
             \/ u \in IdentityTables /\ CleanAt(tbl[u], tbl[u].head, id)
        /\ DOMAIN rb[o].plan # {} /\ Generation(id.base)
    BY <1>0, <1>1 DEF InvocationOK
  <2>3. t = RunTable => \A u \in IdentityTables : CleanAt(tbl[u], tbl[u].head, id)
    <3>1. t = RunTable => DOMAIN rb[o].plan = {Place(o)} /\ RollbackOrder[Place(o)] = RunTable
      BY <1>0, <1>1, PlaceFacts
    <3> QED BY <2>2, <3>1, IdentityFacts DEF Eligible
  <2>4. rb'[o].pc = "verify" /\ rb'[o].id = id /\ rb'[o].plan = rb[o].plan
        /\ RbOK' /\ \A p \in Operators \ {o} : rb'[p] = rb[p]
    BY <1>0, <1>3, GotoRb
  <2> HIDE DEF t, id
  <2>5. t \in Tables \cup {RunTable}
    BY <1>1, IdentityFacts DEF Eligible, t
  <2>6. Histories' /\ Steady
    BY <1>0, <1>1, <2>1, GrownRefl DEF Histories, Steady
  <2>7. Apart'
    <3>1. SUFFICES ASSUME NEW u \in Tables, NEW i \in Snapshots(tbl'[u]),
                          tbl'[u].snaps[i].run # NoRun
                   PROVE  u \in IdentityTables <=> Generation(tbl'[u].snaps[i].run.base)
      BY DEF Apart
    <3>2. i \in Snapshots(tbl[u]) /\ tbl'[u].snaps[i] = tbl[u].snaps[i]
      BY <2>1, <2>6, <3>1 DEF Steady, Grown
    <3> QED BY <1>0, <3>1, <3>2 DEF Apart
  <2>8. TypeOK'
    <3>1. tbl'[t] \in TableType /\ \A u \in Tables \cup {RunTable} : WellFormed(tbl'[u])
      BY <2>1, <2>6 DEF Histories, History
    <3>2. tbl' \in [Tables \cup {RunTable} -> TableType]
      BY <1>0, <2>1, <3>1
    <3> QED BY <1>0, <1>1, <3>1, <3>2 DEF TypeOK
  <2>9. PinsOK'
    <3>1. \A u \in IdentityTables : Snapshots(tbl[u]) \subseteq Snapshots(tbl'[u])
      BY <2>6, IdentityFacts DEF Steady, Grown
    <3> QED BY <1>0, <1>1, <3>1 DEF PinsOK
  <2>10. MarkersOK' /\ Exclusive'
    BY <1>0, <1>1, <2>4, <2>6, MarkersKept, ExclusiveOperate
  <2>11. ASSUME NEW v \in Writers PROVE SubmitterOK(v)'
    <3>1. ~(Generation(RunOf[v]) /\ Running(v))
      BY <1>0, <1>1 DEF Exclusive
    <3> QED BY <1>0, <1>1, <2>6, <3>1, Bystander
  <2>12. RollbackResumable'
    <3>1. SUFFICES ASSUME NEW u \in IdentityTables, NEW x \in Rows(tbl'[u]), x.run \notin Committed
                   PROVE  RunRows(tbl'[RunTable], x.run) # {}
      BY <1>1 DEF RollbackResumable, Committed
    <3>2. x \in Rows(tbl[u])
      BY <2>1, <3>1, IdentityFacts
    <3>3. RunRows(tbl[RunTable], x.run) # {}
      BY <1>0, <3>1, <3>2 DEF RollbackResumable
    <3>4. CASE t # RunTable
      BY <2>1, <3>3, <3>4
    <3>5. CASE t = RunTable
      <4>1. CleanAt(tbl[u], tbl[u].head, id)
        BY <2>3, <3>5
      <4>2. x.run # id
        BY <3>2, <4>1 DEF CleanAt, RunRowsAt, Rows
      <4>3. PICK y \in Rows(tbl[RunTable]) : y.run = x.run
        BY <3>3 DEF RunRows, RunRowsAt, Rows
      <4>4. y \in Rows(tbl'[RunTable])
        BY <2>1, <3>5, <4>2, <4>3
      <4> QED BY <4>3, <4>4 DEF RunRows, RunRowsAt, Rows
    <3> QED BY <3>4, <3>5
  <2>13. InvocationOK(o)'
    <3>1. ASSUME NEW n \in DOMAIN rb[o].plan PROVE ActionOK(rb[o].plan[n], id)'
      <4> DEFINE a == rb[o].plan[n]
      <4>1. ActionOK(a, id) /\ a.table \in Eligible /\ rb'[o].plan[n] = a /\ rb'[o].id = id
        BY <2>2, <2>4
      <4>2. History(tbl[a.table]) /\ Grown(tbl[a.table], tbl'[a.table])
        BY <1>0, <2>6, <4>1, IdentityFacts DEF Histories, Steady, Eligible
      <4>3. Stretch(tbl'[a.table], a.tip, a.target, id) /\ CleanAt(tbl'[a.table], a.target, id)
        <5> DEFINE T == tbl[a.table]
        <5>1. Stretch(T, a.tip, a.target, id) /\ CleanAt(T, a.target, id)
          BY <4>1 DEF ActionOK
        <5> HIDE DEF a, T
        <5>2. History(T) /\ Grown(T, tbl'[a.table])
          BY <4>2 DEF T
        <5> QED BY <5>1, <5>2, StretchKept
      <4>4. a.table \in IdentityTables /\ tbl'[a.table].head # a.tip =>
              CleanAt(tbl'[a.table], tbl'[a.table].head, id)
        <5>1. CASE a.table = t
          BY <2>1, <5>1
        <5>2. CASE a.table # t
          <6>1. a.table \in IdentityTables => tbl'[a.table] = tbl[a.table]
            BY <2>1, <5>2, IdentityFacts
          <6> QED BY <4>1, <6>1 DEF ActionOK
        <5> QED BY <5>1, <5>2
      <4> QED BY <4>1, <4>3, <4>4 DEF ActionOK, id
    <3>2. \A u \in Eligible :
             \/ \E n \in DOMAIN rb[o].plan : RollbackOrder[n] = u
             \/ u \in IdentityTables /\ CleanAt(tbl'[u], tbl'[u].head, id)
      <4>1. \A u \in IdentityTables : u = t \/ tbl'[u] = tbl[u]
        BY <2>1, IdentityFacts
      <4> QED BY <2>1, <2>2, <4>1
    <3>3. ASSUME NEW n \in DOMAIN rb'[o].plan PROVE ActionOK(rb[o].plan[n], rb[o].id)'
      BY <2>4, <3>1 DEF ActionOK, id
    <3> QED BY <2>2, <2>4, <3>2, <3>3 DEF InvocationOK
  <2>14. ASSUME NEW p \in Operators PROVE InvocationOK(p)'
    <3>1. CASE p = o
      BY <2>13, <3>1
    <3>2. CASE p # o
      <4>1. ~InProgress(p) /\ rb'[p] = rb[p]
        BY <1>0, <1>1, <2>4, <3>2 DEF Exclusive
      <4> QED BY <4>1 DEF InvocationOK, InProgress
    <3> QED BY <3>1, <3>2
  <2> QED BY <2>4, <2>6, <2>7, <2>8, <2>9, <2>10, <2>11, <2>12, <2>14 DEF IdentityInv
<1> QED BY <1>2, <1>3, MoveFacts

LEMMA OnlyElement ==
  ASSUME NEW n \in Nat, NEW S \in SUBSET (1..n), Cardinality(S) = 1
  PROVE  \E x : S = {x}
<1>1. IsFiniteSet(1..n) /\ S \subseteq 1..n
  BY FS_Interval
<1>2. IsFiniteSet(S)
  <2> DEFINE D == 1..n
  <2>1. IsFiniteSet(D) /\ S \subseteq D
    BY <1>1
  <2> HIDE DEF D
  <2> QED BY <2>1, FS_Subset
<1> QED BY <1>2, FS_Singleton

\* A plannable table: its action, or no row of the run.
LEMMA PlannedTable ==
  ASSUME NEW id \in RunId, Histories, NEW t \in Eligible,
         ChainSet(tbl[t], id) # {} => Sound(tbl[t], id, ChainSet(tbl[t], id))
  PROVE  /\ ChainSet(tbl[t], id) # {} => ActionOK(ActionOf(t, id), id)
         /\ ChainSet(tbl[t], id) = {} => CleanAt(tbl[t], tbl[t].head, id)
<1> DEFINE T == tbl[t]
           C == ChainSet(T, id)
<1>1. History(T)
  BY IdentityFacts DEF Histories, Eligible
<1>2. Len(T.snaps) \in Nat /\ C \subseteq 1..Len(T.snaps)
  BY <1>1, HistoryFacts, ChainSetFacts DEF AllOwned
<1>3. CASE C # {}
  <2>1. Sound(T, id, C)
    BY <1>3
  <2>2. Cardinality(Tips(T, C)) = 1 /\ Cardinality(Roots(T, C)) = 1
    BY <2>1 DEF Sound
  <2>3. Tips(T, C) \subseteq C /\ Roots(T, C) \subseteq C
    BY DEF Tips, Roots
  <2> HIDE DEF T, C
  <2>4. PICK tip : Tips(T, C) = {tip}
    <3>1. Tips(T, C) \in SUBSET (1..Len(T.snaps))
      BY <1>2, <2>3
    <3> QED BY <1>2, <2>2, <3>1, OnlyElement
  <2>5. PICK root : Roots(T, C) = {root}
    <3>1. Roots(T, C) \in SUBSET (1..Len(T.snaps))
      BY <1>2, <2>3
    <3> QED BY <1>2, <2>2, <3>1, OnlyElement
  <2>6. /\ Stretch(T, tip, T.snaps[root].parent, id)
        /\ CleanAt(T, T.snaps[root].parent, id)
        /\ T.head # tip => CleanAt(T, T.head, id)
    BY <1>1, <1>3, <2>1, <2>4, <2>5, SoundChain DEF C
  <2>7. /\ ActionOf(t, id).table = t /\ ActionOf(t, id).tip = tip
        /\ ActionOf(t, id).target = T.snaps[root].parent
    BY <2>4, <2>5 DEF ActionOf, T, C
  <2> QED BY <1>3, <2>6, <2>7 DEF ActionOK, T, C
<1>4. CASE C = {}
  <2>1. ActiveChain(T, id) = {}
    BY <1>4, ChainSetFacts
  <2> HIDE DEF T
  <2>2. CleanAt(T, T.head, id)
    BY <1>1, <2>1, InactiveIsClean
  <2> QED BY <1>4, <2>2 DEF T, C
<1> QED BY <1>3, <1>4

LEMMA InvokeStep ==
  ASSUME NEW o \in Operators, IdentityInv, Invoke(o)
  PROVE  IdentityInv'
<1>0. TypeOK /\ Histories /\ Exclusive /\ RbOK /\ DOMAIN rb = Operators
  BY DEF IdentityInv, RbOK
<1>1. PICK id \in FailedIds : Generation(id.base) /\ Inventory(o, id)
  BY DEF Invoke
<1>2. /\ \A w \in Writers : Running(w) => ~Generation(RunOf[w])
      /\ \A p \in Operators : ~InProgress(p)
      /\ Quiet /\ tbl' = tbl /\ wr' = wr
  BY <1>1 DEF Invoke, Inventory, Quiet
<1>3. id \in RunId
  BY <1>0 DEF FailedIds, TypeOK, Writer
<1>4. PICK pc, plan : /\ rb' = [rb EXCEPT ![o] = [pc |-> pc, id |-> id, plan |-> plan]]
                      /\ \/ pc = "refused"
                         \/ pc = "commit" /\ plan = PlanFor(id) /\ Plannable(id)
  <2>1. rb' = [rb EXCEPT ![o] =
                 IF Plannable(id) THEN [pc |-> "commit", id |-> id, plan |-> PlanFor(id)]
                                  ELSE [pc |-> "refused", id |-> id, plan |-> rb[o].plan]]
    BY <1>1 DEF Inventory
  <2>2. CASE Plannable(id)
    BY <2>1, <2>2
  <2>3. CASE ~Plannable(id)
    BY <2>1, <2>3
  <2> QED BY <2>2, <2>3
<1>5. /\ rb'[o].pc = pc /\ rb'[o].id = id /\ rb'[o].plan = plan /\ RbOK'
      /\ \A p \in Operators \ {o} : rb'[p] = rb[p]
  BY <1>0, <1>4 DEF RbOK
<1>6. Exclusive'
  <2>1. \A p \in Operators : InProgress(p)' => p = o
    BY <1>2, <1>5 DEF InProgress
  <2>2. \A v \in Writers : Running(v)' <=> Running(v)
    BY <1>2 DEF Running
  <2> QED BY <1>0, <1>2, <2>1, <2>2 DEF Exclusive
<1>7. InvocationOK(o)'
  <2>1. CASE pc = "refused"
    BY <1>5, <2>1 DEF InvocationOK, InProgress, OpStopped
  <2>2. CASE pc = "commit" /\ plan = PlanFor(id) /\ Plannable(id)
    <3>1. /\ DOMAIN plan = Affected(id) /\ Affected(id) \subseteq DOMAIN RollbackOrder
          /\ \A n \in Affected(id) : plan[n] = ActionOf(RollbackOrder[n], id)
      BY <2>2 DEF PlanFor, Affected
    <3>2. \A n \in Affected(id) :
            RollbackOrder[n] \in Eligible /\ ChainSet(tbl[RollbackOrder[n]], id) # {}
      BY DEF Affected
    <3>3. ASSUME NEW t \in Eligible
          PROVE  /\ ChainSet(tbl[t], id) # {} =>
                      /\ ActionOK(ActionOf(t, id), id)
                      /\ \E n \in Affected(id) : RollbackOrder[n] = t
                 /\ ChainSet(tbl[t], id) = {} => CleanAt(tbl[t], tbl[t].head, id)
      <4>1. ChainSet(tbl[t], id) # {} => Sound(tbl[t], id, ChainSet(tbl[t], id))
        BY <2>2 DEF Plannable
      <4>2. PICK n \in DOMAIN RollbackOrder : RollbackOrder[n] = t
        BY OrderFacts, IdentityFacts DEF Eligible
      <4> QED BY <1>0, <1>3, <4>1, <4>2, PlannedTable DEF Affected
    <3>4. Affected(id) # {}
      BY <2>2, <3>3 DEF Plannable
    <3>5. ASSUME NEW n \in Affected(id)
          PROVE  plan[n].table = RollbackOrder[n] /\ ActionOK(plan[n], id)
      <4>1. plan[n] = ActionOf(RollbackOrder[n], id)
        BY <3>1
      <4>2. ActionOf(RollbackOrder[n], id).table = RollbackOrder[n]
        BY DEF ActionOf
      <4>3. ActionOK(ActionOf(RollbackOrder[n], id), id)
        BY <3>2, <3>3
      <4> QED BY <4>1, <4>2, <4>3
    <3>6. RunRows(tbl[RunTable], id) # {}
      BY <2>2 DEF Plannable
    <3>7. \A t \in Eligible :
            \/ \E n \in Affected(id) : RollbackOrder[n] = t
            \/ t \in IdentityTables /\ CleanAt(tbl[t], tbl[t].head, id)
      <4>1. ~CleanAt(tbl[RunTable], tbl[RunTable].head, id)
        BY <3>6 DEF CleanAt, RunRows
      <4> QED BY <3>3, <4>1 DEF Eligible
    <3>8. ASSUME NEW n \in DOMAIN plan PROVE ActionOK(rb[o].plan[n], rb[o].id)'
      BY <1>2, <1>5, <3>1, <3>5 DEF ActionOK
    <3> QED BY <1>1, <1>2, <1>3, <1>5, <2>2, <3>1, <3>2, <3>4, <3>5, <3>7, <3>8 DEF InvocationOK
  <2> QED BY <1>4, <2>1, <2>2
<1> QED BY <1>2, <1>5, <1>6, <1>7, QuietOperate

\* Steps that change none of this, tags set by others among them.
LEMMA IdleStep ==
  ASSUME IdentityInv, UNCHANGED <<tbl, markers, pins, wr, rb>>
  PROVE  IdentityInv'
<1>1. /\ TypeOK /\ PinsOK /\ Histories /\ RollbackResumable /\ Exclusive /\ RbOK
      /\ \A v \in Writers : SubmitterOK(v)
      /\ \A o \in Operators : InvocationOK(o)
  BY DEF IdentityInv
<1>2. Histories' /\ Steady /\ Apart'
  BY QuietTables
<1>3. TypeOK' /\ PinsOK' /\ RollbackResumable' /\ Exclusive' /\ RbOK'
  BY <1>1 DEF TypeOK, PinsOK, RollbackResumable, Committed, Exclusive, Running, InProgress, RbOK
<1>4. MarkersOK'
  BY <1>2, MarkersKept
<1>5. ASSUME NEW v \in Writers PROVE SubmitterOK(v)'
  BY <1>1, <1>2, Bystander
<1>6. ASSUME NEW o \in Operators PROVE InvocationOK(o)'
  BY <1>1, <1>2, InvocationKept
<1> QED BY <1>2, <1>3, <1>4, <1>5, <1>6 DEF IdentityInv

LEMMA IdentityStart == RollbackInit => IdentityInv
<1> SUFFICES ASSUME RollbackInit PROVE IdentityInv
  OBVIOUS
<1>1. /\ tbl = [t \in Tables \cup {RunTable} |-> EmptyTable] /\ markers = <<>>
      /\ pins = [r \in Runs |-> NoPin] /\ wr = [w \in Writers |-> IdleWriter(w)]
      /\ rb = [o \in Operators |-> [pc |-> "idle", id |-> NoId, plan |-> <<>>]]
  BY DEF RollbackInit, Init
<1>2. TypeOK
  BY InitType DEF RollbackInit
<1>3. EmptyTable.head = 0 /\ EmptyTable.snaps = <<>> /\ Snapshots(EmptyTable) = {}
      /\ Rows(EmptyTable) = {}
  BY DEF EmptyTable, Snapshots, Rows, RowsAt
<1>4. Histories
  <2>1. EveryRow(EmptyTable) = {}
    BY <1>3 DEF EveryRow
  <2>2. ASSUME NEW t \in Tables \cup {RunTable} PROVE History(tbl[t])
    <3>1. tbl[t] = EmptyTable
      BY <1>1
    <3> QED BY <1>2, <1>3, <2>1, <3>1 DEF TypeOK, History, Chained, RowsAdded
  <2> QED BY <2>2 DEF Histories
<1>5. PinsOK /\ Apart /\ RollbackResumable
  <2>1. \A t \in IdentityTables : tbl[t] = EmptyTable
    BY <1>1, IdentityFacts
  <2>2. \A r \in Runs : ~pins[r].planned
    BY <1>1 DEF NoPin
  <2>3. \A t \in Tables : tbl[t] = EmptyTable
    BY <1>1
  <2> QED BY <1>3, <2>1, <2>2, <2>3 DEF PinsOK, Apart, RollbackResumable
<1>6. /\ \A w \in Writers : wr[w].pc = "idle" /\ ~Running(w)
      /\ \A o \in Operators : ~InProgress(o)
      /\ RbOK
  BY <1>1 DEF IdleWriter, Running, InProgress, OpStopped, RbOK
<1>7. Exclusive /\ \A o \in Operators : InvocationOK(o)
  BY <1>6 DEF Exclusive, InvocationOK
<1>8. MarkersOK
  BY <1>1 DEF MarkersOK
<1>9. ASSUME NEW w \in Writers PROVE SubmitterOK(w)
  <2>1. wr[w].keys = Keys[RunOf[w]] /\ wr[w].id = NaturalId(RunOf[w]) /\ RunOf[w] \in Runs
    BY <1>1, IdentityFacts DEF IdleWriter
  <2>2. ASSUME NEW t \in Tables, ~(t \in IdentityTables <=> Generation(RunOf[w]))
        PROVE  wr[w].keys[t] = {} /\ wr[w].id.counts[t] = 0
    <3>1. Keys[RunOf[w]][t] = {}
      BY <2>1, <2>2, RollbackConstants
    <3>2. wr[w].id.counts[t] = Cardinality(Keys[RunOf[w]][t])
      BY <2>1 DEF NaturalId
    <3> QED BY <2>1, <3>1, <3>2, FS_EmptySet
  <2>3. Kind(w)
    BY <2>1, <2>2 DEF Kind, NaturalId
  <2> QED BY <1>6, <2>3 DEF SubmitterOK, OkAt, Staging, Described
<1> QED BY <1>2, <1>4, <1>5, <1>6, <1>7, <1>8, <1>9 DEF IdentityInv

LEMMA IdentityNext == IdentityInv /\ [RollbackNext]_rvars => IdentityInv'
<1> SUFFICES ASSUME IdentityInv, [RollbackNext]_rvars PROVE IdentityInv'
  OBVIOUS
<1>1. CASE UNCHANGED rvars
  BY <1>1, IdleStep DEF rvars
<1>2. CASE RollbackNext
  <2>1. ASSUME NEW r \in Runs, Plan(r), UNCHANGED <<rb, refs>> PROVE IdentityInv'
    BY <2>1, PlanStep
  <2>2. ASSUME NEW w \in Writers, Drive(w) PROVE IdentityInv'
    BY <1>2, <2>2, DriveStep DEF RollbackNext
  <2>3. ASSUME NEW o \in Operators, Invoke(o) PROVE IdentityInv'
    BY <2>3, InvokeStep
  <2>4. ASSUME NEW o \in Operators, Operate(o) \/ OpCrash(o) PROVE IdentityInv'
    BY <2>4, MoveStep, QuietOperateStep DEF Operate
  <2>5. ASSUME NEW t \in Eligible, Tag(t) PROVE IdentityInv'
    BY <2>5, IdleStep DEF Tag
  <2> QED BY <1>2, <2>1, <2>2, <2>3, <2>4, <2>5 DEF RollbackNext
<1> QED BY <1>1, <1>2

LEMMA IdentityHolds == RollbackSpec => []IdentityInv
BY IdentityStart, IdentityNext, PTL DEF RollbackSpec

\* ------------------------------------------------------------------------- theorems

\* A committed full generation holds only its own rows, an incremental or curation run
\* sits on the lineage it pinned: the guards of stage_and_commit find it so, and no one
\* else writes Identity tables until the marker is published.
THEOREM IdentityRunsOnBase == RollbackSpec => []IdentityOnPinnedLineage
<1>1. IdentityInv => IdentityOnPinnedLineage
  <2> SUFFICES ASSUME IdentityInv PROVE IdentityOnPinnedLineage
    OBVIOUS
  <2>1. MarkersOK
    BY DEF IdentityInv
  <2> QED BY <2>1 DEF MarkersOK, Lineage, BaseRows, Pinned, Generation, IdentityOnPinnedLineage
<1> QED BY <1>1, IdentityHolds, PTL

\* While rows of an uncommitted run remain in an Identity table its manifest remains, so
\* that rollback-failed-run can be invoked again after a crash.
THEOREM RollbackCanResume == RollbackSpec => []RollbackResumable
<1>1. IdentityInv => RollbackResumable
  BY DEF IdentityInv
<1> QED BY <1>1, IdentityHolds, PTL

\* Moving a table back takes rows of the failed run and of no other run.
THEOREM RollbackSparesOthers == RollbackSpec => RollbackSparesOtherRuns
<1> DEFINE Spares == \A o \in Operators :
             rb[o].pc = "move" =>
               \A t \in Eligible : \A x \in Rows(tbl[t]) :
                 x \in Rows(tbl'[t]) \/ x.run = rb[o].id
<1>1. IdentityInv /\ [RollbackNext]_rvars => [Spares]_rvars
  <2> SUFFICES ASSUME IdentityInv, RollbackNext, NEW o \in Operators, rb[o].pc = "move",
                      NEW t \in Eligible, NEW x \in Rows(tbl[t])
               PROVE  x \in Rows(tbl'[t]) \/ x.run = rb[o].id
    OBVIOUS
  <2>1. RbOK /\ Exclusive /\ InProgress(o) /\ t \in Tables \cup {RunTable}
    BY IdentityFacts DEF IdentityInv, InProgress, OpStopped, Eligible
  <2>2. CASE tbl' = tbl
    BY <2>2
  <2>3. CASE tbl' # tbl
    <3>1. PICK p \in Operators : Move(p)
      BY <2>3 DEF RollbackNext, NoRace
    <3>2. InProgress(p) /\ (tbl' = tbl \/ MovedBack(p))
      BY <3>1, MoveFacts
    <3>3. p = o
      BY <2>1, <3>2 DEF Exclusive
    <3> QED BY <2>1, <2>3, <3>2, <3>3 DEF MovedBack
  <2> QED BY <2>2, <2>3
<1> QED BY <1>1, IdentityHolds, PTL DEF RollbackSpec, RollbackSparesOtherRuns

\* An invocation that completes leaves no row and no head of the failed run, so that the
\* run can be submitted again.
THEOREM RollbackCleans == RollbackSpec => DoneMeansClean
<1> DEFINE Cleans == \A o \in Operators :
             rb[o].pc # "done" /\ rb'[o].pc = "done" =>
               /\ \A t \in IdentityTables \cup {RunTable} : RunRows(tbl'[t], rb[o].id) = {}
               /\ ~Partial(rb[o].id)'
<1>1. IdentityInv /\ [RollbackNext]_rvars => [Cleans]_rvars
  <2> SUFFICES ASSUME IdentityInv, RollbackNext, NEW o \in Operators,
                      rb[o].pc # "done", rb'[o].pc = "done"
               PROVE  /\ \A t \in IdentityTables \cup {RunTable} : RunRows(tbl'[t], rb[o].id) = {}
                      /\ ~Partial(rb[o].id)'
    OBVIOUS
  <2>0. /\ RbOK /\ Histories /\ Apart /\ InvocationOK(o) /\ TypeOK
    BY DEF IdentityInv
  <2>1. ~ \E p \in Operators : Invoke(p)
    <3>1. ASSUME NEW p \in Operators, Invoke(p) PROVE rb'[o].pc \in {rb[o].pc, "commit", "refused"}
      <4>1. PICK id : Inventory(p, id)
        BY <3>1 DEF Invoke
      <4>2. \/ rb' = [rb EXCEPT ![p] = [pc |-> "commit", id |-> id, plan |-> PlanFor(id)]]
            \/ rb' = [rb EXCEPT ![p] = [pc |-> "refused", id |-> id, plan |-> rb[p].plan]]
        BY <4>1 DEF Inventory
      <4>3. DOMAIN rb = Operators
        BY <2>0 DEF RbOK
      <4> QED BY <4>2, <4>3
    <3> QED BY <3>1
  <2>2. PICK p \in Operators : Operate(p) \/ OpCrash(p)
    <3>1. ~(\E r \in Runs : Plan(r) /\ UNCHANGED <<rb, refs>>)
      OBVIOUS
    <3>2. ~(\E w \in Writers : Drive(w)) /\ ~(\E t \in Eligible : Tag(t))
      BY DEF Drive, Tag
    <3> QED BY <2>1, <3>1, <3>2 DEF RollbackNext
  <2>3. ASSUME NEW pc, pc # "done", RbGoto(p, pc) PROVE FALSE
    BY <2>0, <2>3, GotoRb
  <2>4. /\ NextAction(p) /\ AtTarget(tbl[Todo(p).table], rb[p].id, Todo(p).target)
        /\ Quiet /\ InProgress(p)
    BY <2>2, <2>3 DEF Operate, OpCrash, CheckCommit, CheckState, RecheckHead, Move, VerifyMove,
                      InProgress, OpStopped
  <2>5. tbl' = tbl /\ InvocationOK(p)
    BY <2>4 DEF Quiet, IdentityInv
  <2>6. /\ \A q \in Operators \ {p} : rb'[q] = rb[q]
        /\ rb'[p].pc = "done" =>
             rb'[p].id = rb[p].id /\ \A t \in Eligible : CleanAt(tbl[t], tbl[t].head, rb[p].id)
    BY <2>0, <2>4, <2>5, NextActionFacts
  <2>7. p = o
    BY <2>6
  <2> DEFINE id == rb[o].id
  <2>8. /\ rb'[o].id = id /\ \A t \in Eligible : CleanAt(tbl[t], tbl[t].head, id)
        /\ id \in RunId /\ Generation(id.base)
    BY <2>4, <2>5, <2>6, <2>7 DEF InvocationOK
  <2> HIDE DEF id
  <2>9. ASSUME NEW t \in Tables
        PROVE  RunRows(tbl[t], id) = {} /\ ~(tbl[t].head # 0 /\ tbl[t].snaps[tbl[t].head].run = id)
    <3>1. CASE t \in IdentityTables
      BY <2>8, <3>1 DEF Eligible, CleanAt, RunRows
    <3>2. CASE t \notin IdentityTables
      <4>1. \A i \in Snapshots(tbl[t]) : tbl[t].snaps[i].run # id
        BY <2>0, <2>8, <3>2, IdentityFacts DEF Apart
      <4>2. History(tbl[t])
        BY <2>0 DEF Histories
      <4>3. tbl[t].head \in {0} \cup Snapshots(tbl[t])
            /\ AncestorsAt(tbl[t], tbl[t].head) \subseteq Snapshots(tbl[t])
        <5>1. tbl[t].head \in {0} \cup Snapshots(tbl[t])
          BY <4>2, HistoryFacts
        <5> QED BY <4>2, <5>1, HistoryFacts DEF AncestorsAt
      <4>4. CleanAt(tbl[t], tbl[t].head, id)
        BY <2>8, <4>1, <4>2, <4>3, CleanByUndo
      <4> QED BY <4>4 DEF CleanAt, RunRows
    <3> QED BY <3>1, <3>2
  <2>10. \A t \in Eligible : RunRows(tbl[t], id) = {}
    BY <2>8 DEF CleanAt, RunRows
  <2> QED BY <2>5, <2>8, <2>9, <2>10 DEF Partial, Eligible, id
<1> QED BY <1>1, IdentityHolds, PTL DEF RollbackSpec, DoneMeansClean
=============================================================================
