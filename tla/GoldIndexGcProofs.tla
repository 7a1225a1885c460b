-------------------------- MODULE GoldIndexGcProofs --------------------------
(* Retention keeps what it deletes restorable, for any number of operations, *)
(* promotions, snapshots and deaths.  Launchers list Jobs one at a time and  *)
(* the alias does not move between a final check and its deletes: these are  *)
(* the bounds LaunchRace and QuietDelete of GoldIndexGc.                     *)
EXTENDS GoldIndexGcProps, TLAPS

OneLauncher == LaunchRace = FALSE
AliasQuiet == QuietDelete = TRUE

Rest == {"idle", "failed", "killed", "done"}
Phases == Rest \cup
  {"listed", "start", "inspect", "snapshot", "await", "archive", "recheck", "delete",
   "settled", "result", "restore", "restored", "clone", "cloned", "unsafe", "fallback",
   "refill", "resnapped", "finally", "drop", "cleaned", "replace", "retire", "validate"}
SnapRec ==
  [state : {"absent", "IN_PROGRESS", "SUCCESS", "FAILED"}, set : SUBSET Index,
   global : BOOLEAN, by : Job \cup {"none", "clone"}, uuid : Nat]
Receipt == [set : SUBSET Index, uuid : Nat]
Memory == [had : SUBSET Index, todo : SUBSET Index, uuid : Nat, ok : BOOLEAN]

GcType ==
  /\ idx \in [Index -> {"absent", "restoring", "open"}]
  /\ snap \in [Snapshot -> SnapRec]
  /\ made \in Nat
  /\ arch \in [Snapshot -> Receipt]
  /\ jpc \in [Job -> Phases]
  /\ mem \in [Job -> Memory]

\* A Job that is listed or created; while there is one there is no other.
Busy(j) == jpc[j] \notin Rest
Alone == \A j, k \in Job : Busy(j) /\ Busy(k) => j = k

\* A snapshot that ended well, with these indices and this UUID.
Sound(s, set, uuid) ==
  /\ snap[s].state = "SUCCESS" /\ ~snap[s].global
  /\ snap[s].set = set /\ snap[s].uuid = uuid

\* The receipt that an index deleted now can be restored from.
Covered(i) ==
  \/ Written("replacement")
  \/ Written("source") /\ i \in arch["source"].set

\* Snapshots and receipts have UUIDs; those of the replacement hold the old index.
StoreOK ==
  /\ \A s \in Snapshot : /\ snap[s].state # "absent" => snap[s].uuid # 0
                         /\ Written(s) => arch[s].uuid # 0
  /\ snap["replacement"].state # "absent" => snap["replacement"].set = {Old}
  /\ Written("replacement") => arch["replacement"].set = {Old}
  /\ ReceiptPinsSnapshot
  /\ \A i \in Index \ Existing : Covered(i)

\* What Job j knows in phase p, remembering m.
PhaseOK(j, p, m) ==
  /\ j \in Archiver =>
       /\ m.had \subseteq Targets[j] /\ m.todo \subseteq Targets[j]
       /\ p = "inspect" /\ Written("source") => Targets[j] \subseteq arch["source"].set
       /\ p = "archive" =>
            m.uuid # 0 /\ (Written("source") \/ Sound("source", Targets[j], m.uuid))
       /\ p \in {"recheck", "delete"} =>
            Written("source") /\ Targets[j] \subseteq arch["source"].set
  /\ j \in Compactor =>
       /\ m.ok => Sound("replacement", {Old}, m.uuid)
       /\ p \notin Rest => Written("source")
       /\ p = "replace" => m.ok
       /\ p \in {"refill", "resnapped", "finally", "drop"} => Covered(Old)
       /\ p = "cleaned" => Old \notin Existing

\* The inductive invariant of archives.
GcInv ==
  /\ GcType /\ Alone /\ StoreOK
  /\ \A j \in Job : PhaseOK(j, jpc[j], mem[j])

JobStep(j) ==
  \/ Launch(j) \/ Dies(j)
  \/ j \in Archiver /\ ArchiveDelete(j)
  \/ j \in Drill /\ RestoreDrillStep(j)
  \/ j \in Compactor /\ Compact(j)

\* What a step of Job j leaves alone, and what it establishes of j.
Frame(j, p, m) ==
  /\ p \in Phases /\ m \in Memory
  /\ jpc' = [jpc EXCEPT ![j] = p] /\ mem' = [mem EXCEPT ![j] = m]

\* Receipts stay, and so does a replacement that ended well.
Lasting ==
  /\ \A s \in Snapshot : Written(s) => arch'[s] = arch[s]
  /\ \A set, uuid : Sound("replacement", set, uuid) => Sound("replacement", set, uuid)'

Post(j) ==
  \E p, m : Frame(j, p, m) /\ GcType' /\ StoreOK' /\ Lasting /\ PhaseOK(j, p, m)'

\* A step that moves a Job on and leaves cluster and receipts alone.
LEMMA QuietStep ==
  ASSUME GcInv, NEW j \in Job, NEW p \in Phases, NEW m \in Memory, PhaseOK(j, p, m),
         jpc' = [jpc EXCEPT ![j] = p], mem' = [mem EXCEPT ![j] = m],
         UNCHANGED <<idx, snap, made, arch>>
  PROVE  Post(j)
<1>1. GcType'
  BY DEF GcInv, GcType
<1>2. StoreOK'
  BY DEF GcInv, StoreOK, Written, ReceiptPinsSnapshot, Pinned, SnapOK, Covered, Existing
<1>3. Lasting
  BY DEF Lasting, Sound
<1>4. PhaseOK(j, p, m)'
  BY DEF PhaseOK, Written, Sound, Covered, Existing
<1> QED BY <1>1, <1>2, <1>3, <1>4 DEF Post, Frame

LEMMA DecideStep ==
  ASSUME GcInv, NEW j \in Job, NEW p \in Phases, PhaseOK(j, p, mem[j]), Decide(j, p)
  PROVE  Post(j)
<1>1. mem' = [mem EXCEPT ![j] = mem[j]] /\ mem[j] \in Memory
  BY DEF GcInv, GcType, Decide
<1>2. jpc' = [jpc EXCEPT ![j] = p] /\ UNCHANGED <<idx, snap, made, arch>>
  BY DEF Decide, To, aliasVars
<1> QED BY <1>1, <1>2, QuietStep

\* Launching, submitting again and dying.
LEMMA LaunchStep == ASSUME GcInv, NEW j \in Job, Launch(j) \/ Dies(j) PROVE Post(j)
<1>0. GcType /\ PhaseOK(j, jpc[j], mem[j]) /\ mem[j] \in Memory
  BY DEF GcInv, GcType
<1>1. CASE ListJobs(j)
  <2>1. PhaseOK(j, "listed", mem[j])
    BY <1>0, <1>1, GcConstants DEF PhaseOK, ListJobs
  <2> QED BY <1>1, <2>1, DecideStep DEF ListJobs, Phases
<1>2. CASE CreateJob(j)
  <2>1. PhaseOK(j, "start", mem[j])
    BY <1>0, <1>2 DEF PhaseOK, CreateJob, Rest
  <2> QED BY <1>2, <2>1, DecideStep DEF CreateJob, Phases
<1>3. CASE Resubmit(j)
  <2>1. Fresh \in Memory /\ PhaseOK(j, "idle", Fresh)
    BY DEF Fresh, Memory, PhaseOK, Rest
  <2>2. /\ jpc' = [jpc EXCEPT ![j] = "idle"] /\ mem' = [mem EXCEPT ![j] = Fresh]
        /\ UNCHANGED <<idx, snap, made, arch>>
    BY <1>3 DEF Resubmit, To, aliasVars
  <2> QED BY <2>1, <2>2, QuietStep DEF Phases, Rest
<1>4. CASE Dies(j)
  <2>1. PhaseOK(j, "killed", mem[j])
    BY <1>0 DEF PhaseOK, Rest
  <2>2. /\ jpc' = [jpc EXCEPT ![j] = "killed"] /\ mem' = [mem EXCEPT ![j] = mem[j]]
        /\ UNCHANGED <<idx, snap, made, arch>>
    BY <1>0, <1>4 DEF Dies, To, aliasVars, GcType
  <2> QED BY <1>0, <2>1, <2>2, QuietStep DEF Phases, Rest
<1> QED BY <1>1, <1>2, <1>3, <1>4 DEF Launch

\* ------------------------------------------------- steps that change the store

\* A snapshot is started only under a name that is free.
LEMMA StartStep ==
  ASSUME GcInv, NEW j \in Job, NEW p \in {"await", "cloned", "resnapped"},
         PhaseOK(j, p, mem[j]), NEW s \in Snapshot, NEW set \in SUBSET Index,
         NEW global \in BOOLEAN, NEW by \in Job \cup {"none", "clone"},
         snap[s].state = "absent", s = "replacement" => set = {Old},
         Start(s, set, global, by), To(j, p), UNCHANGED <<idx, arch, mem>>
  PROVE  Post(j)
<1> DEFINE new == [state |-> "IN_PROGRESS", set |-> set, global |-> global, by |-> by,
                   uuid |-> made + 1]
<1>0. GcType /\ StoreOK /\ p \in Phases
  BY DEF GcInv, Phases
<1>1. /\ snap' = [snap EXCEPT ![s] = new] /\ made' = made + 1 /\ made \in Nat
      /\ jpc' = [jpc EXCEPT ![j] = p] /\ UNCHANGED <<idx, arch, mem>>
  BY <1>0 DEF Start, To, GcType
<1>2. new \in SnapRec /\ new.uuid # 0 /\ new.set = set /\ new.state = "IN_PROGRESS"
  BY <1>1 DEF SnapRec
<1> HIDE DEF new
<1>3. \A t \in Snapshot : snap'[t] = IF t = s THEN new ELSE snap[t]
  BY <1>0, <1>1 DEF GcType
<1>4. GcType'
  BY <1>0, <1>1, <1>2 DEF GcType
<1>5. \A t \in Snapshot : SnapOK(t) => snap'[t] = snap[t]
  BY <1>3 DEF SnapOK
<1>6. \A t \in Snapshot : SnapOK(t) => SnapOK(t)'
  BY <1>1, <1>5 DEF SnapOK
<1>7. StoreOK'
  <2>1. "source" \in Snapshot /\ "replacement" \in Snapshot
    BY DEF Snapshot
  <2>2. ReceiptPinsSnapshot'
    BY <1>0, <1>1, <1>6, <2>1 DEF StoreOK, ReceiptPinsSnapshot, Pinned, Written
  <2>3. \A i \in (Index \ Existing)' : Covered(i)'
    BY <1>0, <1>1 DEF StoreOK, Covered, Written, Existing
  <2>4. \A t \in Snapshot : /\ snap'[t].state # "absent" => snap'[t].uuid # 0
                            /\ Written(t)' => arch'[t].uuid # 0
    BY <1>0, <1>1, <1>2, <1>3 DEF StoreOK, Written
  <2>5. snap'["replacement"].state # "absent" => snap'["replacement"].set = {Old}
    BY <1>0, <1>2, <1>3, <2>1 DEF StoreOK
  <2>6. Written("replacement")' => arch'["replacement"].set = {Old}
    BY <1>0, <1>1 DEF StoreOK, Written
  <2> QED BY <2>2, <2>3, <2>4, <2>5, <2>6 DEF StoreOK
<1>8. Lasting
  BY <1>1, <1>3 DEF Lasting, Sound, Snapshot
<1>9. PICK m \in Memory : m = mem[j]
  BY <1>0 DEF GcType
<1>10. PhaseOK(j, p, m)'
  <2>1. PhaseOK(j, p, m)
    BY <1>9
  <2> QED BY <1>1, <1>8, <2>1 DEF PhaseOK, Lasting, Covered, Written, Rest
<1>11. Frame(j, p, m)
  BY <1>0, <1>1, <1>9 DEF Frame, GcType
<1> QED BY <1>4, <1>7, <1>8, <1>10, <1>11 DEF Post

\* A receipt is published of a snapshot that ended well, under a free name or
\* with the contents that are there.
LEMMA ArchiveStep ==
  ASSUME GcInv, NEW j \in Job, NEW s \in Snapshot, NEW set \in SUBSET Index,
         NEW next \in Phases, Archive(j, s, set, next), mem[j].uuid # 0,
         s = "replacement" => set = {Old},
         Written(s) \/ Sound(s, set, mem[j].uuid),
         PhaseOK(j, "failed", mem[j]),
         NEW keep, keep => j \in Compactor /\ next = "retire" /\ Written("source"),
         ~keep => j \in Archiver /\ j \notin Compactor /\ next = "recheck" /\ s = "source"
                  /\ set = Targets[j]
  PROVE  Post(j)
<1> DEFINE receipt == [set |-> set, uuid |-> mem[j].uuid]
<1>0. GcType /\ StoreOK /\ mem[j] \in Memory /\ mem[j].uuid \in Nat
  BY DEF GcInv, GcType, Memory
<1>1. CASE arch[s] \notin {NoReceipt, receipt}
  <2>1. Decide(j, "failed")
    BY <1>1 DEF Archive
  <2> QED BY <2>1, DecideStep DEF Phases, Rest
<1>2. CASE arch[s] \in {NoReceipt, receipt}
  <2>1. /\ arch' = [arch EXCEPT ![s] = receipt] /\ jpc' = [jpc EXCEPT ![j] = next]
        /\ UNCHANGED <<idx, snap, made, mem>>
    BY <1>2 DEF Archive, To, aliasVars
  <2>2. receipt \in Receipt /\ receipt # NoReceipt /\ receipt.set = set
        /\ receipt.uuid = mem[j].uuid
    BY <1>0 DEF Receipt, NoReceipt
  <2>3. Written(s) => arch[s] = receipt
    BY <1>2 DEF Written
  <2> HIDE DEF receipt
  <2>4. \A t \in Snapshot : arch'[t] = IF t = s THEN receipt ELSE arch[t]
    BY <1>0, <2>1 DEF GcType
  <2>5. GcType'
    BY <1>0, <2>1, <2>2 DEF GcType
  <2>6. \A t \in Snapshot : /\ Written(t) => arch'[t] = arch[t]
                            /\ Written(t)' <=> Written(t) \/ t = s
    BY <2>2, <2>3, <2>4 DEF Written
  <2>7. Lasting
    BY <2>1, <2>6 DEF Lasting, Sound
  <2>8. "source" \in Snapshot /\ "replacement" \in Snapshot
    BY DEF Snapshot
  <2>9. \A t \in Snapshot : Written(t) /\ SnapOK(t) => SnapOK(t)'
    BY <2>1, <2>6 DEF SnapOK
  <2>10. ~Written(s) => SnapOK(s)'
    BY <2>1, <2>2, <2>4 DEF SnapOK, Sound
  <2>11. ReceiptPinsSnapshot'
    BY <1>0, <2>6, <2>8, <2>9, <2>10 DEF StoreOK, ReceiptPinsSnapshot, Pinned
  <2>12. ASSUME NEW i, Covered(i) PROVE Covered(i)'
    <3>1. CASE Written("replacement")
      BY <2>6, <2>8, <3>1 DEF Covered
    <3>2. CASE Written("source") /\ i \in arch["source"].set
      <4>1. arch'["source"] = arch["source"] /\ Written("source")'
        BY <2>6, <2>8, <3>2
      <4> QED BY <3>2, <4>1 DEF Covered
    <3> QED BY <2>12, <3>1, <3>2 DEF Covered
  <2>13. StoreOK'
    <3>1. \A i \in (Index \ Existing)' : Covered(i)'
      BY <1>0, <2>1, <2>12 DEF StoreOK, Existing
    <3>2. \A t \in Snapshot : /\ snap'[t].state # "absent" => snap'[t].uuid # 0
                              /\ Written(t)' => arch'[t].uuid # 0
      BY <1>0, <2>1, <2>2, <2>4, <2>6 DEF StoreOK
    <3>3. snap'["replacement"].state # "absent" => snap'["replacement"].set = {Old}
      BY <1>0, <2>1 DEF StoreOK
    <3>4. Written("replacement")' => arch'["replacement"].set = {Old}
      BY <1>0, <2>2, <2>4, <2>6, <2>8 DEF StoreOK
    <3> QED BY <2>11, <3>1, <3>2, <3>3, <3>4 DEF StoreOK
  <2>14. PICK m \in Memory : m = mem[j]
    BY <1>0
  <2>15. PhaseOK(j, next, m)'
    <3>1. CASE keep
      <4>1. j \notin Archiver
        BY <3>1, GcConstants
      <4>2. (m.ok => Sound("replacement", {Old}, m.uuid)) /\ Written("source")'
        BY <2>6, <2>8, <2>14, <3>1 DEF PhaseOK
      <4> QED BY <2>7, <3>1, <4>1, <4>2 DEF PhaseOK, Lasting, Rest
    <3>2. CASE ~keep
      <4>1. Written("source")' /\ arch'["source"].set = Targets[j]
        BY <2>2, <2>4, <2>6, <2>8, <3>2
      <4>2. m.had \subseteq Targets[j] /\ m.todo \subseteq Targets[j]
        BY <2>14, <3>2 DEF PhaseOK
      <4> QED BY <3>2, <4>1, <4>2 DEF PhaseOK
    <3> QED BY <3>1, <3>2
  <2>16. Frame(j, next, m)
    BY <1>0, <2>1, <2>14 DEF Frame, GcType
  <2> QED BY <2>5, <2>7, <2>13, <2>15, <2>16 DEF Post
<1> QED BY <1>1, <1>2

\* An index is deleted only where a receipt covers it.
LEMMA DropStep ==
  ASSUME GcInv, NEW j \in Job, NEW i \in Index, Covered(i), DropIndex(i),
         NEW p \in Phases, NEW m \in Memory,
         PhaseOK(j, p, m) \/ (p = "cleaned" /\ i = Old /\ PhaseOK(j, "drop", m)),
         jpc' = [jpc EXCEPT ![j] = p], mem' = [mem EXCEPT ![j] = m],
         UNCHANGED <<snap, made, arch>>
  PROVE  Post(j)
<1>0. GcType /\ StoreOK
  BY DEF GcInv
<1>1. idx' = [idx EXCEPT ![i] = "absent"]
  BY DEF DropIndex
<1>2. Existing' = Existing \ {i}
  BY <1>0, <1>1 DEF Existing, GcType
<1>3. GcType'
  BY <1>0, <1>1 DEF GcType
<1>4. StoreOK'
  BY <1>0, <1>2 DEF StoreOK, Written, ReceiptPinsSnapshot, Pinned, SnapOK, Covered
<1>5. Lasting
  BY DEF Lasting, Sound
<1>6. PhaseOK(j, p, m)'
  BY <1>2 DEF PhaseOK, Written, Sound, Covered, Rest
<1> QED BY <1>3, <1>4, <1>5, <1>6 DEF Post, Frame

\* The previous index comes back.
LEMMA RestoreStep ==
  ASSUME GcInv, NEW j \in Job, RestoreOld, NEW p \in Phases \ {"cleaned"}, NEW m \in Memory,
         PhaseOK(j, p, m), jpc' = [jpc EXCEPT ![j] = p], mem' = [mem EXCEPT ![j] = m],
         UNCHANGED <<snap, made, arch>>
  PROVE  Post(j)
<1>0. GcType /\ StoreOK
  BY DEF GcInv
<1>1. idx' = [idx EXCEPT ![Old] = "restoring"]
  BY DEF RestoreOld
<1>2. Existing \subseteq Existing'
  BY <1>0, <1>1 DEF Existing, GcType
<1>3. GcType'
  BY <1>0, <1>1 DEF GcType
<1>4. StoreOK'
  BY <1>0, <1>2 DEF StoreOK, Written, ReceiptPinsSnapshot, Pinned, SnapOK, Covered
<1>5. Lasting
  BY DEF Lasting, Sound
<1>6. PhaseOK(j, p, m)'
  BY DEF PhaseOK, Written, Sound, Covered
<1> QED BY <1>3, <1>4, <1>5, <1>6 DEF Post, Frame

\* A snapshot goes away when no receipt needs it: a clone that is not safe, or
\* the source behind the receipt of its replacement.
LEMMA RetireStep ==
  ASSUME GcInv, NEW j \in Job, NEW s \in Snapshot, snap' = [snap EXCEPT ![s] = NoSnap],
         \/ s = "replacement" /\ snap[s].global
         \/ s = "source" /\ Pinned("replacement"),
         NEW p \in Phases, j \in Compactor, PhaseOK(j, p, mem[j]),
         jpc' = [jpc EXCEPT ![j] = p], UNCHANGED <<idx, made, arch, mem>>
  PROVE  Post(j)
<1>0. GcType /\ StoreOK /\ j \notin Archiver
  BY GcConstants DEF GcInv
<1>1. NoSnap \in SnapRec /\ NoSnap.state = "absent"
  BY DEF NoSnap, SnapRec
<1>2. \A t \in Snapshot : snap'[t] = IF t = s THEN NoSnap ELSE snap[t]
  BY <1>0 DEF GcType
<1>3. GcType'
  BY <1>0, <1>1 DEF GcType
<1>4. "source" \in Snapshot /\ "replacement" \in Snapshot /\ "source" # "replacement"
  BY DEF Snapshot
<1>5. SnapOK("replacement") => s = "source"
  BY DEF SnapOK
<1>6. SnapOK("replacement") => SnapOK("replacement")'
  BY <1>2, <1>4, <1>5 DEF SnapOK
<1>7. s = "replacement" /\ SnapOK("source") => SnapOK("source")'
  BY <1>2, <1>4 DEF SnapOK
<1>8. ReceiptPinsSnapshot'
  BY <1>0, <1>4, <1>5, <1>6, <1>7 DEF StoreOK, ReceiptPinsSnapshot, Pinned, Written
<1>9. StoreOK'
  <2>1. \A i \in (Index \ Existing)' : Covered(i)'
    BY <1>0 DEF StoreOK, Existing, Covered, Written
  <2>2. \A t \in Snapshot : /\ snap'[t].state # "absent" => snap'[t].uuid # 0
                            /\ Written(t)' => arch'[t].uuid # 0
    BY <1>0, <1>1, <1>2 DEF StoreOK, Written
  <2>3. /\ snap'["replacement"].state # "absent" => snap'["replacement"].set = {Old}
        /\ Written("replacement")' => arch'["replacement"].set = {Old}
    BY <1>0, <1>1, <1>2, <1>4 DEF StoreOK, Written
  <2> QED BY <1>8, <2>1, <2>2, <2>3 DEF StoreOK
<1>10. Lasting
  BY <1>2, <1>4 DEF Lasting, Sound
<1>11. PICK m \in Memory : m = mem[j]
  BY <1>0 DEF GcType
<1>12. PhaseOK(j, p, m)'
  <2>1. PhaseOK(j, p, m)
    BY <1>11
  <2> QED BY <1>0, <1>10, <2>1 DEF PhaseOK, Lasting, Covered, Written, Existing
<1>13. Frame(j, p, m)
  BY <1>0, <1>11 DEF Frame, GcType
<1> QED BY <1>3, <1>9, <1>10, <1>12, <1>13 DEF Post

\* ------------------------------------------------------------ the steps of Jobs

\* Any operation publishes its result.
LEMMA ResultStep == ASSUME GcInv, NEW j \in Job, PublishResult(j) PROVE Post(j)
<1>0. GcType /\ mem[j] \in Memory /\ PhaseOK(j, jpc[j], mem[j])
  BY DEF GcInv, GcType
<1>1. PhaseOK(j, "done", mem[j]) /\ "done" \in Phases
  BY <1>0 DEF PhaseOK, Phases, Rest
<1>2. /\ jpc' = [jpc EXCEPT ![j] = "done"] /\ mem' = [mem EXCEPT ![j] = mem[j]]
      /\ UNCHANGED <<idx, snap, made, arch>>
  BY <1>0 DEF PublishResult, To, aliasVars, GcType
<1> QED BY <1>0, <1>1, <1>2, QuietStep

LEMMA ArchiverStep == ASSUME GcInv, NEW a \in Archiver, ArchiveDelete(a) PROVE Post(a)
<1>0. /\ GcType /\ StoreOK /\ a \in Job /\ mem[a] \in Memory /\ PhaseOK(a, jpc[a], mem[a])
      /\ a \notin Compactor /\ "source" \in Snapshot
      /\ Targets[a] \in SUBSET Index
  BY GcConstants DEF GcInv, GcType, Job, Snapshot
<1>m. mem[a].had \subseteq Targets[a] /\ mem[a].todo \subseteq Targets[a]
  BY <1>0 DEF PhaseOK
<1>d. ASSUME NEW p \in Phases \ {"inspect", "archive", "recheck", "delete"}, Decide(a, p)
      PROVE  Post(a)
  <2>1. PhaseOK(a, p, mem[a])
    BY <1>0, <1>m DEF PhaseOK
  <2> QED BY <1>0, <1>d, <2>1, DecideStep
<1>q. ASSUME NEW p \in Phases, NEW m \in Memory, PhaseOK(a, p, m), To(a, p),
             mem' = [mem EXCEPT ![a] = m], UNCHANGED <<idx, snap, made, arch>>
      PROVE  Post(a)
  BY <1>0, <1>q, QuietStep DEF To
<1>1. CASE Discover(a)
  <2>1. CASE \E p \in {"failed", "done"} : Decide(a, p)
    BY <1>d, <2>1 DEF Phases, Rest
  <2>2. CASE Decide(a, "inspect") /\ (Written("source") => Targets[a] \subseteq arch["source"].set)
    <3>1. PhaseOK(a, "inspect", mem[a])
      BY <1>0, <1>m, <2>2 DEF PhaseOK
    <3> QED BY <1>0, <2>2, <3>1, DecideStep DEF Phases
  <2> QED BY <1>1, <2>1, <2>2 DEF Discover
<1>2. CASE Inspect(a)
  <2> DEFINE had == Targets[a] \cap Existing
             m == [mem[a] EXCEPT !.had = had]
  <2>1. CASE \E p \in {"failed", "result"} : Decide(a, p)
    BY <1>d, <2>1 DEF Phases, Rest
  <2>2. CASE /\ To(a, IF Written("source") THEN "recheck" ELSE "snapshot")
             /\ mem' = [mem EXCEPT ![a].had = had]
             /\ UNCHANGED <<aliasVars, snap, made, arch, results, deaths>>
    <3>1. m \in Memory /\ m.had = had /\ m.todo = mem[a].todo
      BY <1>0 DEF Memory, Existing
    <3>2. mem' = [mem EXCEPT ![a] = m]
      BY <1>0, <2>2 DEF GcType
    <3>3. UNCHANGED <<idx, snap, made, arch>>
      BY <2>2 DEF aliasVars
    <3> HIDE DEF m
    <3>4. jpc[a] = "inspect"
      BY <1>2 DEF Inspect
    <3>5. CASE Written("source")
      <4>1. PhaseOK(a, "recheck", m)
        BY <1>0, <1>m, <3>1, <3>4, <3>5 DEF PhaseOK
      <4> QED BY <1>q, <2>2, <3>1, <3>2, <3>3, <3>5, <4>1 DEF Phases
    <3>6. CASE ~Written("source")
      <4>1. PhaseOK(a, "snapshot", m)
        BY <1>0, <1>m, <3>1 DEF PhaseOK
      <4> QED BY <1>q, <2>2, <3>1, <3>2, <3>3, <3>6, <4>1 DEF Phases
    <3> QED BY <3>5, <3>6
  <2> QED BY <1>2, <2>1, <2>2 DEF Inspect
<1>3. CASE EnsureSnapshot(a)
  <2>1. CASE \E p \in {"failed", "await"} : Decide(a, p)
    BY <1>d, <2>1 DEF Phases, Rest
  <2>2. CASE /\ snap["source"].state = "absent"
             /\ Start("source", Targets[a], FALSE, a) /\ To(a, "await")
             /\ UNCHANGED <<aliasVars, arch, results, mem, deaths>>
    <3>1. PhaseOK(a, "await", mem[a])
      BY <1>0, <1>m DEF PhaseOK
    <3>2. UNCHANGED <<idx, arch, mem>>
      BY <2>2 DEF aliasVars
    <3> QED BY <1>0, <2>2, <3>1, <3>2, StartStep
  <2> QED BY <1>3, <2>1, <2>2 DEF EnsureSnapshot
<1>4. CASE AwaitSnapshot(a)
  <2> DEFINE m == [mem[a] EXCEPT !.uuid = snap["source"].uuid]
  <2>1. CASE Decide(a, "failed")
    BY <1>d, <2>1 DEF Phases, Rest
  <2>2. CASE /\ Mine("source", Targets[a], a) /\ To(a, "archive")
             /\ mem' = [mem EXCEPT ![a].uuid = snap["source"].uuid]
             /\ UNCHANGED <<aliasVars, snap, made, arch, results, deaths>>
    <3>1. snap["source"].uuid \in Nat \ {0} /\ Sound("source", Targets[a], snap["source"].uuid)
      BY <1>0, <2>2 DEF Mine, Sound, StoreOK, GcType, SnapRec
    <3>2. /\ m \in Memory /\ m.had = mem[a].had /\ m.todo = mem[a].todo
          /\ m.uuid = snap["source"].uuid
      BY <1>0, <3>1 DEF Memory
    <3>3. mem' = [mem EXCEPT ![a] = m]
      BY <1>0, <2>2 DEF GcType
    <3>4. UNCHANGED <<idx, snap, made, arch>>
      BY <2>2 DEF aliasVars
    <3> HIDE DEF m
    <3>5. PhaseOK(a, "archive", m)
      BY <1>0, <1>m, <3>1, <3>2 DEF PhaseOK
    <3> QED BY <1>q, <2>2, <3>2, <3>3, <3>4, <3>5 DEF Phases
  <2> QED BY <1>4, <2>1, <2>2 DEF AwaitSnapshot
<1>5. CASE PublishArchive(a)
  <2>1. mem[a].uuid # 0 /\ (Written("source") \/ Sound("source", Targets[a], mem[a].uuid))
    BY <1>0, <1>5 DEF PublishArchive, PhaseOK
  <2>2. PhaseOK(a, "failed", mem[a])
    BY <1>0, <1>m DEF PhaseOK
  <2>3. Archive(a, "source", Targets[a], "recheck") /\ "recheck" \in Phases
    BY <1>5 DEF PublishArchive, Phases
  <2> QED BY <1>0, <2>1, <2>2, <2>3, ArchiveStep
<1>6. CASE Recheck(a)
  <2> DEFINE m == [mem[a] EXCEPT !.todo = mem[a].had]
  <2>1. CASE Decide(a, "failed")
    BY <1>d, <2>1 DEF Phases, Rest
  <2>2. CASE /\ To(a, "delete") /\ mem' = [mem EXCEPT ![a].todo = mem[a].had]
             /\ UNCHANGED <<aliasVars, snap, made, arch, results, deaths>>
    <3>1. m \in Memory /\ m.had = mem[a].had /\ m.todo = mem[a].had
      BY <1>0 DEF Memory
    <3>2. mem' = [mem EXCEPT ![a] = m]
      BY <1>0, <2>2 DEF GcType
    <3>3. UNCHANGED <<idx, snap, made, arch>>
      BY <2>2 DEF aliasVars
    <3> HIDE DEF m
    <3>4. jpc[a] = "recheck"
      BY <1>6 DEF Recheck
    <3>5. PhaseOK(a, "delete", m)
      BY <1>0, <1>m, <3>1, <3>4 DEF PhaseOK
    <3> QED BY <1>q, <2>2, <3>1, <3>2, <3>3, <3>5 DEF Phases
  <2> QED BY <1>6, <2>1, <2>2 DEF Recheck
<1>7. CASE DeleteIndex(a)
  <2>1. CASE \E p \in {"settled", "failed"} : Decide(a, p)
    BY <1>d, <2>1 DEF Phases, Rest
  <2>2. ASSUME NEW i \in mem[a].todo, DropIndex(i),
               mem' = [mem EXCEPT ![a].todo = mem[a].todo \ {i}],
               UNCHANGED <<snap, made, arch, results, jpc, deaths>>
        PROVE  Post(a)
    <3> DEFINE m == [mem[a] EXCEPT !.todo = mem[a].todo \ {i}]
    <3>1. m \in Memory /\ m.had = mem[a].had /\ m.todo \subseteq mem[a].todo
      BY <1>0 DEF Memory
    <3>2. mem' = [mem EXCEPT ![a] = m]
      BY <1>0, <2>2 DEF GcType
    <3> HIDE DEF m
    <3>3. jpc[a] = "delete"
      BY <1>7 DEF DeleteIndex
    <3>4. Written("source") /\ Targets[a] \subseteq arch["source"].set
      BY <1>0, <3>3 DEF PhaseOK
    <3>5. PhaseOK(a, "delete", m)
      BY <1>0, <1>m, <3>1, <3>4 DEF PhaseOK
    <3>6. Covered(i) /\ i \in Index
      BY <1>0, <1>m, <2>2, <3>4 DEF Covered
    <3>7. jpc' = [jpc EXCEPT ![a] = "delete"]
      BY <1>0, <2>2, <3>3 DEF GcType
    <3> QED BY <1>0, <2>2, <3>1, <3>2, <3>5, <3>6, <3>7, DropStep DEF Phases
  <2> QED BY <1>0, <1>7, <2>1, <2>2 DEF DeleteIndex, GcType
<1>8. CASE CheckDeleted(a)
  BY <1>8, <1>d DEF CheckDeleted, Phases, Rest
<1>9. CASE PublishResult(a)
  BY <1>0, <1>9, ResultStep
<1> QED BY <1>1, <1>2, <1>3, <1>4, <1>5, <1>6, <1>7, <1>8, <1>9 DEF ArchiveDelete

LEMMA DrillStep == ASSUME GcInv, NEW d \in Drill, RestoreDrillStep(d) PROVE Post(d)
<1>0. /\ GcType /\ d \in Job /\ mem[d] \in Memory
      /\ d \notin Archiver /\ d \notin Compactor
  BY GcConstants DEF GcInv, GcType, Job
<1>p. \A p, m : PhaseOK(d, p, m)
  BY <1>0 DEF PhaseOK
<1>1. CASE InspectDrill(d) \/ VerifyDrill(d)
  <2>1. \E p \in {"failed", "restored", "restore", "result", "done"} : Decide(d, p)
    BY <1>1 DEF InspectDrill, VerifyDrill
  <2> QED BY <1>0, <1>p, <2>1, DecideStep DEF Phases, Rest
<1>2. CASE RestoreDrill(d)
  <2>1. CASE Decide(d, "failed")
    BY <1>0, <1>p, <2>1, DecideStep DEF Phases, Rest
  <2>2. CASE /\ RestoreOld /\ To(d, "restored") /\ mem' = [mem EXCEPT ![d].ok = TRUE]
             /\ UNCHANGED <<snap, made, arch, results, deaths>>
    <3> DEFINE m == [mem[d] EXCEPT !.ok = TRUE]
    <3>1. m \in Memory
      BY <1>0 DEF Memory
    <3>2. mem' = [mem EXCEPT ![d] = m]
      BY <1>0, <2>2 DEF GcType
    <3> HIDE DEF m
    <3> QED BY <1>0, <1>p, <2>2, <3>1, <3>2, RestoreStep DEF To, Phases
  <2> QED BY <1>2, <2>1, <2>2 DEF RestoreDrill
<1>3. CASE PublishResult(d)
  BY <1>0, <1>3, ResultStep
<1> QED BY <1>1, <1>2, <1>3 DEF RestoreDrillStep

LEMMA CompactorStep == ASSUME GcInv, NEW c \in Compactor, Compact(c) PROVE Post(c)
<1>0. /\ GcType /\ StoreOK /\ c \in Job /\ mem[c] \in Memory /\ PhaseOK(c, jpc[c], mem[c])
      /\ c \notin Archiver /\ Old \in Index
      /\ "source" \in Snapshot /\ "replacement" \in Snapshot
  BY GcConstants DEF GcInv, GcType, Job, Snapshot
<1>m. mem[c].ok => Sound("replacement", {Old}, mem[c].uuid)
  BY <1>0 DEF PhaseOK
<1>w. jpc[c] \notin Rest => Written("source")
  BY <1>0 DEF PhaseOK
<1>d. ASSUME NEW p \in Phases \ {"refill", "resnapped", "finally", "drop", "cleaned", "replace"},
             jpc[c] \notin Rest, Decide(c, p)
      PROVE  Post(c)
  <2>1. PhaseOK(c, p, mem[c])
    BY <1>0, <1>m, <1>w, <1>d DEF PhaseOK
  <2> QED BY <1>0, <1>d, <2>1, DecideStep
<1>k. ASSUME NEW p \in {"replace", "finally"}, Keep(c, p), jpc[c] \notin Rest,
             snap["replacement"].state = "SUCCESS", ~snap["replacement"].global,
             p = "finally" => Covered(Old)
      PROVE  Post(c)
  <2> DEFINE m == [mem[c] EXCEPT !.uuid = snap["replacement"].uuid, !.ok = TRUE]
  <2>1. snap["replacement"].uuid \in Nat
    BY <1>0 DEF GcType, SnapRec
  <2>2. m \in Memory /\ m.ok /\ m.uuid = snap["replacement"].uuid
    BY <1>0, <2>1 DEF Memory
  <2>3. mem' = [mem EXCEPT ![c] = m]
    BY <1>0, <1>k DEF Keep, GcType, Memory
  <2> HIDE DEF m
  <2>4. PhaseOK(c, p, m)
    BY <1>0, <1>k, <1>w, <2>2 DEF PhaseOK, Sound, StoreOK
  <2>5. jpc' = [jpc EXCEPT ![c] = p] /\ UNCHANGED <<idx, snap, made, arch>> /\ p \in Phases
    BY <1>k DEF Keep, To, aliasVars, Phases
  <2> QED BY <1>0, <2>2, <2>3, <2>4, <2>5, QuietStep
<1>s. ASSUME NEW global \in BOOLEAN, NEW by \in Job \cup {"none", "clone"},
             NEW p \in {"cloned", "resnapped"}, jpc[c] \notin Rest, To(c, p),
             snap["replacement"].state = "absent", p = "resnapped" => Covered(Old),
             Start("replacement", {Old}, global, by), UNCHANGED <<idx, arch, mem>>
      PROVE  Post(c)
  <2>1. PhaseOK(c, p, mem[c])
    BY <1>0, <1>m, <1>s, <1>w DEF PhaseOK
  <2> QED BY <1>0, <1>s, <2>1, StartStep
<1>1. CASE OpenCompaction(c)
  <2>1. jpc[c] \notin Rest /\ \E p \in {"failed", "done", "retire", "clone"} : Decide(c, p)
    BY <1>1 DEF OpenCompaction, Rest
  <2> QED BY <1>d, <2>1 DEF Phases, Rest
<1>2. CASE Clone(c)
  <2>0. jpc[c] \notin Rest
    BY <1>2 DEF Clone, Rest
  <2>1. CASE \E p \in {"failed", "cloned"} : Decide(c, p)
    BY <1>d, <2>0, <2>1 DEF Phases, Rest
  <2>2. CASE /\ snap["replacement"].state = "absent"
             /\ \E safe \in CloneIsSafe : Start("replacement", {Old}, ~safe, "clone")
             /\ To(c, "cloned")
             /\ UNCHANGED <<aliasVars, arch, results, mem, deaths>>
    <3>1. PICK safe \in CloneIsSafe : Start("replacement", {Old}, ~safe, "clone")
      BY <2>2
    <3>2. (~safe) \in BOOLEAN /\ UNCHANGED <<idx, arch, mem>>
      BY <2>2 DEF aliasVars
    <3> QED BY <1>s, <2>0, <2>2, <3>1, <3>2
  <2> QED BY <1>2, <2>1, <2>2 DEF Clone
<1>3. CASE AwaitClone(c)
  <2>0. jpc[c] \notin Rest
    BY <1>3 DEF AwaitClone, Rest
  <2>1. CASE \E p \in {"failed", "unsafe"} : Decide(c, p)
    BY <1>d, <2>0, <2>1 DEF Phases, Rest
  <2>2. CASE /\ snap["replacement"].state = "SUCCESS" /\ ~snap["replacement"].global
             /\ Keep(c, "replace")
    BY <1>k, <2>0, <2>2
  <2> QED BY <1>3, <2>1, <2>2 DEF AwaitClone
<1>4. CASE DropClone(c)
  <2>0. jpc[c] \notin Rest
    BY <1>4 DEF DropClone, Rest
  <2>1. CASE Decide(c, "failed")
    BY <1>d, <2>0, <2>1 DEF Phases, Rest
  <2>2. CASE /\ snap["replacement"].global
             /\ snap' = [snap EXCEPT !["replacement"] = NoSnap] /\ To(c, "fallback")
             /\ UNCHANGED <<aliasVars, made, arch, results, mem, deaths>>
    <3>1. PhaseOK(c, "fallback", mem[c]) /\ "fallback" \in Phases
      BY <1>0, <1>m, <1>w, <2>0 DEF PhaseOK, Phases
    <3>2. UNCHANGED <<idx, made, arch, mem>> /\ jpc' = [jpc EXCEPT ![c] = "fallback"]
      BY <2>2 DEF aliasVars, To
    <3> QED BY <1>0, <2>2, <3>1, <3>2, RetireStep
  <2> QED BY <1>4, <2>1, <2>2 DEF DropClone
<1>5. CASE RestoreFallback(c)
  <2>0. jpc[c] \notin Rest
    BY <1>5 DEF RestoreFallback, Rest
  <2>1. CASE Decide(c, "failed")
    BY <1>d, <2>0, <2>1 DEF Phases, Rest
  <2>2. CASE /\ Restorable("source") /\ RestoreOld /\ To(c, "refill")
             /\ UNCHANGED <<snap, made, arch, results, mem, deaths>>
    <3>1. Covered(Old)
      <4>1. SnapOK("source") \/ Written("replacement")
        BY <1>0, <1>w, <2>0 DEF StoreOK, ReceiptPinsSnapshot, Pinned
      <4>2. Old \in snap["source"].set
        BY <2>2 DEF Restorable
      <4> QED BY <1>w, <2>0, <4>1, <4>2 DEF Covered, SnapOK
    <3>2. PhaseOK(c, "refill", mem[c]) /\ "refill" \in Phases \ {"cleaned"}
      BY <1>0, <1>m, <1>w, <2>0, <3>1 DEF PhaseOK, Phases
    <3>3. jpc' = [jpc EXCEPT ![c] = "refill"] /\ mem' = [mem EXCEPT ![c] = mem[c]]
      BY <1>0, <2>2 DEF To, GcType
    <3> QED BY <1>0, <2>2, <3>2, <3>3, RestoreStep
  <2> QED BY <1>5, <2>1, <2>2 DEF RestoreFallback
<1>6. CASE Resnapshot(c) \/ AwaitResnapshot(c) \/ TimesOut(c)
  <2>0. jpc[c] \notin Rest /\ Covered(Old)
    BY <1>0, <1>6 DEF Resnapshot, AwaitResnapshot, TimesOut, Rest, PhaseOK
  <2>1. CASE \E p \in {"finally", "resnapped"} : Decide(c, p)
    <3>1. \A p \in {"finally", "resnapped"} : PhaseOK(c, p, mem[c])
      BY <1>0, <1>m, <1>w, <2>0 DEF PhaseOK
    <3> QED BY <1>0, <2>1, <3>1, DecideStep DEF Phases
  <2>2. CASE /\ snap["replacement"].state = "absent"
             /\ Start("replacement", {Old}, FALSE, c) /\ To(c, "resnapped")
             /\ UNCHANGED <<aliasVars, arch, results, mem, deaths>>
    <3>1. UNCHANGED <<idx, arch, mem>> /\ c \in Job \cup {"none", "clone"}
      BY <1>0, <2>2 DEF aliasVars
    <3> QED BY <1>s, <2>0, <2>2, <3>1
  <2>3. CASE Mine("replacement", {Old}, c) /\ Keep(c, "finally")
    BY <1>k, <2>0, <2>3 DEF Mine
  <2>4. CASE TimesOut(c)
    <3>1. PhaseOK(c, "finally", mem[c]) /\ "finally" \in Phases
      BY <1>0, <1>m, <1>w, <2>0 DEF PhaseOK, Phases
    <3>2. /\ jpc' = [jpc EXCEPT ![c] = "finally"] /\ mem' = [mem EXCEPT ![c] = mem[c]]
          /\ UNCHANGED <<idx, snap, made, arch>>
      BY <1>0, <2>4 DEF TimesOut, To, aliasVars, GcType
    <3> QED BY <1>0, <3>1, <3>2, QuietStep
  <2> QED BY <1>6, <2>1, <2>2, <2>3, <2>4 DEF Resnapshot, AwaitResnapshot
<1>7. CASE Finally(c)
  <2>0. jpc[c] \notin Rest /\ Covered(Old)
    BY <1>0, <1>7 DEF Finally, Rest, PhaseOK
  <2>1. CASE Decide(c, "failed")
    BY <1>d, <2>0, <2>1 DEF Phases, Rest
  <2>2. CASE Decide(c, "cleaned") /\ Old \notin Existing
    <3>1. PhaseOK(c, "cleaned", mem[c])
      BY <1>0, <1>m, <1>w, <2>0, <2>2 DEF PhaseOK
    <3> QED BY <1>0, <2>2, <3>1, DecideStep DEF Phases
  <2>3. CASE Decide(c, "drop")
    <3>1. PhaseOK(c, "drop", mem[c])
      BY <1>0, <1>m, <1>w, <2>0 DEF PhaseOK
    <3> QED BY <1>0, <2>3, <3>1, DecideStep DEF Phases
  <2> QED BY <1>7, <2>1, <2>2, <2>3 DEF Finally
<1>8. CASE DropRestored(c)
  <2>0. jpc[c] = "drop" /\ Covered(Old)
    BY <1>0, <1>8 DEF DropRestored, PhaseOK
  <2>1. CASE Decide(c, "failed")
    BY <1>d, <2>0, <2>1 DEF Phases, Rest
  <2>2. CASE /\ DropIndex(Old) /\ To(c, "cleaned")
             /\ UNCHANGED <<snap, made, arch, results, mem, deaths>>
    <3>1. PhaseOK(c, "drop", mem[c])
      BY <1>0, <2>0
    <3>2. jpc' = [jpc EXCEPT ![c] = "cleaned"] /\ mem' = [mem EXCEPT ![c] = mem[c]]
      BY <1>0, <2>2 DEF To, GcType
    <3>3. "cleaned" \in Phases
      BY DEF Phases
    <3> QED BY <1>0, <2>0, <2>2, <3>1, <3>2, <3>3, DropStep
  <2> QED BY <1>8, <2>1, <2>2 DEF DropRestored
<1>9. CASE CheckCleaned(c)
  <2>0. jpc[c] \notin Rest
    BY <1>9 DEF CheckCleaned, Rest
  <2>1. CASE Decide(c, "failed")
    BY <1>d, <2>0, <2>1 DEF Phases, Rest
  <2>2. CASE Decide(c, "replace") /\ mem[c].ok
    <3>1. PhaseOK(c, "replace", mem[c])
      BY <1>0, <1>m, <1>w, <2>0, <2>2 DEF PhaseOK
    <3> QED BY <1>0, <2>2, <3>1, DecideStep DEF Phases
  <2> QED BY <1>9, <2>1, <2>2 DEF CheckCleaned
<1>10. CASE PublishReplacement(c)
  <2>1. jpc[c] = "replace" /\ Archive(c, "replacement", {Old}, "retire")
    BY <1>10 DEF PublishReplacement
  <2>2. Sound("replacement", {Old}, mem[c].uuid) /\ Written("source")
    BY <1>0, <2>1 DEF PhaseOK, Rest
  <2>3. mem[c].uuid # 0
    BY <1>0, <2>2 DEF Sound, StoreOK
  <2>4. PhaseOK(c, "failed", mem[c]) /\ "retire" \in Phases
    BY <1>0, <1>m DEF PhaseOK, Phases, Rest
  <2> QED BY <1>0, <2>1, <2>2, <2>3, <2>4, ArchiveStep
<1>11. CASE Retire(c)
  <2>0. jpc[c] \notin Rest
    BY <1>11 DEF Retire, Rest
  <2>1. CASE \E p \in {"failed", "validate"} : Decide(c, p)
    BY <1>d, <2>0, <2>1 DEF Phases, Rest
  <2>2. CASE /\ SnapOK("replacement")
             /\ snap' = [snap EXCEPT !["source"] = NoSnap] /\ To(c, "validate")
             /\ UNCHANGED <<aliasVars, made, arch, results, mem, deaths>>
    <3>1. Pinned("replacement")
      <4>1. arch["replacement"].uuid # 0
        BY <1>0, <2>2 DEF SnapOK, StoreOK
      <4> QED BY <2>2, <4>1 DEF Pinned, Written, NoReceipt
    <3>2. PhaseOK(c, "validate", mem[c]) /\ "validate" \in Phases
      BY <1>0, <1>m, <1>w, <2>0 DEF PhaseOK, Phases
    <3>3. UNCHANGED <<idx, made, arch, mem>> /\ jpc' = [jpc EXCEPT ![c] = "validate"]
      BY <2>2 DEF aliasVars, To
    <3> QED BY <1>0, <2>2, <3>1, <3>2, <3>3, RetireStep
  <2> QED BY <1>11, <2>1, <2>2 DEF Retire
<1>12. CASE ValidateCompaction(c)
  <2>1. jpc[c] \notin Rest /\ \E p \in {"failed", "result"} : Decide(c, p)
    BY <1>12 DEF ValidateCompaction, Rest
  <2> QED BY <1>d, <2>1 DEF Phases, Rest
<1>13. CASE PublishResult(c)
  BY <1>0, <1>13, ResultStep
<1> QED
  BY <1>1, <1>2, <1>3, <1>4, <1>5, <1>6, <1>7, <1>8, <1>9, <1>10, <1>11, <1>12, <1>13
  DEF Compact

\* -------------------------------------------------------- mutual exclusion

\* A step of a Job is taken by one that is busy, lists Jobs or is submitted again.
LEMMA WhoSteps ==
  ASSUME NEW j \in Job, JobStep(j)
  PROVE  Busy(j) \/ ListJobs(j) \/ Resubmit(j)
<1>1. CASE Launch(j) \/ Dies(j)
  BY <1>1 DEF Launch, Dies, CreateJob, Busy, Running, Rest
<1>2. CASE ArchiveDelete(j)
  BY <1>2 DEF ArchiveDelete, Discover, Inspect, EnsureSnapshot, AwaitSnapshot, PublishArchive,
     Recheck, DeleteIndex, CheckDeleted, PublishResult, Busy, Rest
<1>3. CASE RestoreDrillStep(j)
  BY <1>3 DEF RestoreDrillStep, InspectDrill, RestoreDrill, VerifyDrill, PublishResult,
     Busy, Rest
<1>4. CASE Compact(j)
  BY <1>4 DEF Compact, OpenCompaction, Clone, AwaitClone, DropClone, RestoreFallback,
     Resnapshot, AwaitResnapshot, TimesOut, Finally, DropRestored, CheckCleaned,
     PublishReplacement, Retire, ValidateCompaction, PublishResult, Busy, Rest
<1> QED BY <1>1, <1>2, <1>3, <1>4 DEF JobStep

\* With one launcher at a time, the step of a Job keeps the invariant.
LEMMA JobKeeps ==
  ASSUME OneLauncher, GcInv, NEW j \in Job, JobStep(j) PROVE GcInv'
<1>1. Post(j)
  BY LaunchStep, ArchiverStep, DrillStep, CompactorStep DEF JobStep
<1>2. PICK p, m : Frame(j, p, m) /\ GcType' /\ StoreOK' /\ Lasting /\ PhaseOK(j, p, m)'
  BY <1>1 DEF Post
<1>3. \A k \in Job \ {j} : jpc'[k] = jpc[k] /\ mem'[k] = mem[k]
  BY <1>2 DEF Frame, GcInv, GcType
<1>4. jpc'[j] = p /\ mem'[j] = m
  BY <1>2 DEF Frame, GcInv, GcType
<1>5. \A k \in Job \ {j} : Busy(k) => Resubmit(j)
  <2> SUFFICES ASSUME NEW k \in Job \ {j}, Busy(k) PROVE Resubmit(j)
    OBVIOUS
  <2>1. ~Busy(j)
    BY DEF GcInv, Alone
  <2>2. ~ListJobs(j)
    BY DEF ListJobs, Clear, Busy, Rest, Running, OneLauncher
  <2> QED BY <2>1, <2>2, WhoSteps
<1>6. Alone'
  <2> SUFFICES ASSUME NEW k \in Job, NEW l \in Job, Busy(k)', Busy(l)' PROVE k = l
    BY DEF Alone
  <2>1. \A n \in Job \ {j} : Busy(n)' => ~Busy(j)'
    <3> SUFFICES ASSUME NEW n \in Job \ {j}, Busy(n)' PROVE ~Busy(j)'
      OBVIOUS
    <3>1. Resubmit(j)
      BY <1>3, <1>5 DEF Busy
    <3>2. jpc'[j] = "idle"
      BY <3>1 DEF Resubmit, To, GcInv, GcType
    <3> QED BY <3>2 DEF Busy, Rest
  <2>2. CASE k # j /\ l # j
    BY <1>3, <2>2 DEF Busy, GcInv, Alone
  <2> QED BY <2>1, <2>2
<1>7. ASSUME NEW k \in Job PROVE PhaseOK(k, jpc[k], mem[k])'
  <2>1. CASE k = j
    BY <1>2, <1>4, <2>1 DEF PhaseOK
  <2>2. PICK q, n : q = jpc[k] /\ n = mem[k]
    OBVIOUS
  <2>3. PhaseOK(k, q, n)
    BY <2>2 DEF GcInv
  <2>4. CASE k # j /\ Busy(k)
    <3>1. Resubmit(j)
      BY <1>5, <2>4
    <3>2. UNCHANGED <<idx, snap, made, arch>>
      BY <3>1 DEF Resubmit, aliasVars
    <3>3. PhaseOK(k, q, n)'
      BY <2>3, <3>2 DEF PhaseOK, Written, Sound, Covered, Existing
    <3> QED BY <1>3, <2>2, <2>4, <3>3 DEF PhaseOK
  <2>5. CASE k # j /\ ~Busy(k)
    <3>1. q \in Rest
      BY <2>2, <2>5 DEF Busy
    <3>2. PhaseOK(k, q, n)'
      BY <1>2, <2>3, <3>1 DEF PhaseOK, Lasting, Rest
    <3> QED BY <1>3, <2>2, <2>5, <3>2 DEF PhaseOK
  <2> QED BY <2>1, <2>4, <2>5
<1> QED BY <1>2, <1>6, <1>7 DEF GcInv

\* ------------------------------------------------------------------ archives

\* Snapshots and restores that end, and promotions, keep the invariant.
LEMMA SnapshotKeeps == ASSUME GcInv, NEW s \in Snapshot, SnapshotEnds(s) PROVE GcInv'
<1>0. GcType /\ StoreOK
  BY DEF GcInv
<1>1. PICK end \in {"SUCCESS", "FAILED"} : snap' = [snap EXCEPT ![s].state = end]
  BY GcConstants DEF SnapshotEnds
<1>2. /\ snap[s].state = "IN_PROGRESS"
      /\ UNCHANGED <<idx, made, arch, jpc, mem>>
  BY DEF SnapshotEnds, aliasVars
<1>3. /\ \A t \in Snapshot \ {s} : snap'[t] = snap[t]
      /\ snap'[s].set = snap[s].set /\ snap'[s].uuid = snap[s].uuid
  BY <1>0, <1>1 DEF GcType, SnapRec
<1>4. GcType'
  <2>1. [snap[s] EXCEPT !.state = end] \in SnapRec
    BY <1>0 DEF GcType, SnapRec
  <2>2. snap' = [snap EXCEPT ![s] = [snap[s] EXCEPT !.state = end]]
    BY <1>0, <1>1 DEF GcType
  <2> QED BY <1>0, <1>2, <2>1, <2>2 DEF GcType
<1>5. \A t \in Snapshot : SnapOK(t) => SnapOK(t)'
  BY <1>2, <1>3 DEF SnapOK
<1>6. "source" \in Snapshot /\ "replacement" \in Snapshot
  BY DEF Snapshot
<1>7. StoreOK'
  <2>1. ReceiptPinsSnapshot'
    BY <1>0, <1>2, <1>5, <1>6 DEF StoreOK, ReceiptPinsSnapshot, Pinned, Written
  <2>2. \A i \in (Index \ Existing)' : Covered(i)'
    BY <1>0, <1>2 DEF StoreOK, Covered, Written, Existing
  <2>3. \A t \in Snapshot : /\ snap'[t].state # "absent" => snap'[t].uuid # 0
                            /\ Written(t)' => arch'[t].uuid # 0
    BY <1>0, <1>2, <1>3 DEF StoreOK, Written
  <2>4. /\ snap'["replacement"].state # "absent" => snap'["replacement"].set = {Old}
        /\ Written("replacement")' => arch'["replacement"].set = {Old}
    BY <1>0, <1>2, <1>3, <1>6 DEF StoreOK, Written
  <2> QED BY <2>1, <2>2, <2>3, <2>4 DEF StoreOK
<1>8. \A t \in Snapshot : \A set, uuid : Sound(t, set, uuid) => Sound(t, set, uuid)'
  BY <1>2, <1>3 DEF Sound
<1>9. ASSUME NEW k \in Job PROVE PhaseOK(k, jpc[k], mem[k])'
  <2>1. PhaseOK(k, jpc[k], mem[k])
    BY DEF GcInv
  <2> QED BY <1>2, <1>6, <1>8, <2>1 DEF PhaseOK, Covered, Written, Existing
<1> QED BY <1>2, <1>4, <1>7, <1>9 DEF GcInv, Alone, Busy

LEMMA EnvironmentKeeps ==
  ASSUME GcInv, RestoreEnds \/ (\E p \in Promoter : Promotion(p)) \/ UNCHANGED vars
  PROVE  GcInv'
<1>0. GcType
  BY DEF GcInv
<1>1. UNCHANGED <<snap, made, arch, jpc, mem>> /\ GcType' /\ Existing' = Existing
  <2>1. CASE RestoreEnds
    <3>1. UNCHANGED <<snap, made, arch, jpc, mem>>
      BY <2>1 DEF RestoreEnds, gcVars
    <3>2. idx' = [idx EXCEPT ![Old] = "open"] /\ idx[Old] = "restoring"
      BY <2>1 DEF RestoreEnds
    <3> QED BY <1>0, <3>1, <3>2 DEF GcType, Existing
  <2>2. CASE (\E p \in Promoter : Promotion(p)) \/ UNCHANGED vars
    <3>1. UNCHANGED <<snap, made, arch, jpc, mem, idx>>
      BY <2>2 DEF Promotion, Promote, ValidateTarget, ReadAliasIndices, UpdateAliases,
         CheckActivated, Record, PromoterDies, PromoteAgain, gcVars, aliasVars, vars
    <3> QED BY <1>0, <3>1 DEF GcType, Existing
  <2> QED BY <2>1, <2>2
<1>2. StoreOK'
  BY <1>1 DEF GcInv, StoreOK, Written, ReceiptPinsSnapshot, Pinned, SnapOK, Covered
<1>3. ASSUME NEW k \in Job PROVE PhaseOK(k, jpc[k], mem[k])'
  <2>1. PhaseOK(k, jpc[k], mem[k])
    BY DEF GcInv
  <2> QED BY <1>1, <2>1 DEF PhaseOK, Written, Sound, Covered
<1> QED BY <1>1, <1>2, <1>3 DEF GcInv, Alone, Busy

LEMMA GcInit == Init => GcInv
<1> SUFFICES ASSUME Init PROVE GcInv
  OBVIOUS
<1>1. NoSnap \in SnapRec /\ NoReceipt \in Receipt /\ Fresh \in Memory
  BY DEF NoSnap, SnapRec, NoReceipt, Receipt, Fresh, Memory
<1>2. GcType
  BY <1>1 DEF Init, AliasInit, GcType, Phases, Rest
<1>3. \A s \in Snapshot : ~Written(s) /\ snap[s].state = "absent"
  BY DEF Init, Written, NoSnap
<1>4. Existing = Index
  BY DEF Init, AliasInit, Existing
<1>5. StoreOK
  BY <1>3, <1>4 DEF StoreOK, ReceiptPinsSnapshot, Snapshot
<1>6. \A j \in Job : jpc[j] = "idle" /\ mem[j] = Fresh
  BY DEF Init
<1>7. \A j \in Job : PhaseOK(j, jpc[j], mem[j])
  BY <1>6 DEF PhaseOK, Fresh, Rest
<1> QED BY <1>2, <1>5, <1>6, <1>7 DEF GcInv, Alone, Busy, Rest

\* Which steps there are.
LEMMA NextCases ==
  ASSUME [Next]_vars
  PROVE  \/ \E j \in Job : JobStep(j)
         \/ \E s \in Snapshot : SnapshotEnds(s)
         \/ RestoreEnds \/ (\E p \in Promoter : Promotion(p)) \/ UNCHANGED vars
BY DEF Next, JobStep, Job

LEMMA GcNext == ASSUME OneLauncher, GcInv, [Next]_vars PROVE GcInv'
BY NextCases, JobKeeps, SnapshotKeeps, EnvironmentKeeps

\* Whatever is deleted can be restored from a receipt whose snapshot is intact,
\* whoever dies and however often operations are submitted again.
THEOREM ArchivesHold == ASSUME OneLauncher PROVE Spec => []ArchiveHolds
<1>1. GcInv => ArchiveHolds
  <2> SUFFICES ASSUME GcInv PROVE ArchiveHolds
    OBVIOUS
  <2>1. StoreOK
    BY DEF GcInv
  <2>2. DeletedIsArchived
    BY <2>1 DEF StoreOK, ReceiptPinsSnapshot, Covered, Pinned, DeletedIsArchived
  <2> QED BY <2>1, <2>2 DEF StoreOK, ArchiveHolds
<1> QED BY <1>1, GcInit, GcNext, PTL DEF Spec

\* A failed fallback has removed the index it restored, unless the alias moved or
\* a snapshot still holds it: no other Job can bring the index back meanwhile.
THEOREM FallbacksCleanUp == ASSUME OneLauncher PROVE Spec => FallbackCleansUp
<1> DEFINE A == \A c \in Compactor :
                  jpc[c] \in {"finally", "drop", "cleaned"} /\ jpc'[c] = "failed" =>
                    Old \notin Existing \/ ~AliasActiveOnly \/ InProgress(Old)
<1>1. GcInv /\ [Next]_vars => [A]_vars
  <2> SUFFICES ASSUME GcInv, [Next]_vars, NEW c \in Compactor,
                      jpc[c] \in {"finally", "drop", "cleaned"}, jpc'[c] = "failed"
               PROVE  Old \notin Existing \/ ~AliasActiveOnly \/ InProgress(Old)
    OBVIOUS
  <2>0. /\ GcType /\ c \in Job /\ c \notin Archiver /\ c \notin Drill
        /\ PhaseOK(c, jpc[c], mem[c])
    BY GcConstants DEF GcInv, Job
  <2>1. PICK j \in Job : JobStep(j)
    <3>1. jpc' # jpc
      BY <2>0
    <3>2. (\E p \in Promoter : Promotion(p)) \/ RestoreEnds \/ UNCHANGED vars => jpc' = jpc
      BY DEF Promotion, RestoreEnds, gcVars, vars
    <3>3. (\E s \in Snapshot : SnapshotEnds(s)) => jpc' = jpc
      BY DEF SnapshotEnds
    <3> QED BY <3>1, <3>2, <3>3, NextCases
  <2>2. Post(j)
    BY <2>1, LaunchStep, ArchiverStep, DrillStep, CompactorStep DEF JobStep
  <2>3. j = c
    BY <2>0, <2>2 DEF Post, Frame, GcType
  <2>4. Compact(c)
    <3>1. ~Launch(c)
      BY <2>0 DEF Launch, ListJobs, CreateJob, Resubmit
    <3>2. ~Dies(c)
      BY <2>0 DEF Dies, To, GcType
    <3> QED BY <2>0, <2>1, <2>3, <3>1, <3>2 DEF JobStep
  <2>5. CASE jpc[c] = "finally"
    <3>1. Finally(c)
      BY <2>4, <2>5 DEF Compact, OpenCompaction, Clone, AwaitClone, DropClone, RestoreFallback,
         Resnapshot, AwaitResnapshot, TimesOut, DropRestored, CheckCleaned,
         PublishReplacement, Retire, ValidateCompaction, PublishResult
    <3> QED BY <2>0, <3>1 DEF Finally, Decide, To, GcType
  <2>6. CASE jpc[c] = "drop"
    <3>1. DropRestored(c)
      BY <2>4, <2>6 DEF Compact, OpenCompaction, Clone, AwaitClone, DropClone, RestoreFallback,
         Resnapshot, AwaitResnapshot, TimesOut, Finally, CheckCleaned,
         PublishReplacement, Retire, ValidateCompaction, PublishResult
    <3> QED BY <2>0, <3>1 DEF DropRestored, Deletable, To, GcType
  <2>7. CASE jpc[c] = "cleaned"
    BY <2>0, <2>7 DEF PhaseOK
  <2> QED BY <2>5, <2>6, <2>7
<1> QED BY <1>1, GcInit, GcNext, PTL DEF Spec, FallbackCleansUp

\* --------------------------------------------------------- the serving index

Deletes == {"delete", "drop"}

ServeInv == alias # {} /\ \A j \in Job : jpc[j] \in Deletes => alias = {Active}

\* A Job leaves the alias alone, and deletes only while the active index has it.
LEMMA JobServes ==
  ASSUME GcInv, ServeInv, NEW j \in Job, JobStep(j)
  PROVE  alias' = alias /\ (jpc'[j] \in Deletes => alias = {Active})
<1> DEFINE Goal == alias' = alias /\ (jpc'[j] \in Deletes => alias = {Active})
<1>0. GcType /\ PhaseOK(j, jpc[j], mem[j]) /\ "source" \in Snapshot
  BY DEF GcInv, Snapshot
<1>p. ASSUME NEW p, p \in Deletes => alias = {Active}, To(j, p), alias' = alias PROVE Goal
  BY <1>0, <1>p DEF To, GcType
<1>d. ASSUME NEW p, p \in Deletes => alias = {Active}, Decide(j, p) PROVE Goal
  BY <1>p, <1>d DEF Decide, aliasVars
<1>1. CASE Launch(j) \/ Dies(j)
  <2>1. UNCHANGED aliasVars /\ \E p \in {"listed", "start", "idle", "killed"} : To(j, p)
    BY <1>1 DEF Launch, ListJobs, CreateJob, Resubmit, Dies, Decide
  <2> QED BY <1>p, <2>1 DEF aliasVars, Deletes
<1>2. CASE j \in Archiver /\ DeleteIndex(j)
  <2>1. jpc[j] = "delete" /\ alias = {Active}
    BY <1>2 DEF DeleteIndex, ServeInv, Deletes
  <2>2. CASE \E p \in {"settled", "failed"} : Decide(j, p)
    BY <1>d, <2>2 DEF Deletes
  <2>3. CASE \E i \in mem[j].todo : DropIndex(i) /\ jpc' = jpc
    <3>1. PICK i \in mem[j].todo : DropIndex(i) /\ jpc' = jpc
      BY <2>3
    <3>2. i # Active
      BY <1>0, <1>2, GcConstants DEF PhaseOK
    <3> QED BY <2>1, <3>1, <3>2 DEF DropIndex
  <2> QED BY <1>2, <2>2, <2>3 DEF DeleteIndex
<1>3. CASE j \in Archiver /\ Recheck(j)
  <2>1. CASE Decide(j, "failed")
    BY <1>d, <2>1 DEF Deletes
  <2>2. CASE StillDeletable(j) /\ To(j, "delete") /\ UNCHANGED aliasVars
    <3>1. alias = {Active}
      BY <2>2 DEF StillDeletable, PreDelete, AliasActiveOnly
    <3> QED BY <1>p, <2>2, <3>1 DEF aliasVars
  <2> QED BY <1>3, <2>1, <2>2 DEF Recheck
<1>4. CASE j \in Archiver /\ ArchiveDelete(j) /\ ~DeleteIndex(j) /\ ~Recheck(j)
  <2>1. UNCHANGED aliasVars /\ \E p \in Phases \ Deletes : To(j, p)
    BY <1>4 DEF ArchiveDelete, Discover, Inspect, EnsureSnapshot, AwaitSnapshot, PublishArchive,
       Archive, CheckDeleted, PublishResult, Decide, Phases, Rest, Deletes
  <2> QED BY <1>p, <2>1 DEF aliasVars
<1>5. CASE j \in Drill /\ RestoreDrillStep(j)
  <2>1. alias' = alias /\ \E p \in Phases \ Deletes : To(j, p)
    BY <1>5 DEF RestoreDrillStep, InspectDrill, RestoreDrill, RestoreOld, VerifyDrill,
       PublishResult, Decide, Phases, Rest, Deletes, aliasVars
  <2> QED BY <1>p, <2>1
<1>6. CASE j \in Compactor /\ Finally(j)
  <2>1. CASE \E p \in {"cleaned", "failed"} : Decide(j, p)
    BY <1>d, <2>1 DEF Deletes
  <2>2. CASE AliasActiveOnly /\ Decide(j, "drop")
    BY <1>d, <2>2 DEF AliasActiveOnly
  <2> QED BY <1>6, <2>1, <2>2 DEF Finally
<1>7. CASE j \in Compactor /\ DropRestored(j)
  <2>1. jpc[j] = "drop" /\ alias = {Active}
    BY <1>7 DEF DropRestored, ServeInv, Deletes
  <2>2. CASE Decide(j, "failed")
    BY <1>d, <2>2 DEF Deletes
  <2>3. CASE DropIndex(Old) /\ To(j, "cleaned")
    <3>1. alias' = alias
      BY <2>1, <2>3, GcConstants DEF DropIndex
    <3> QED BY <1>p, <2>3, <3>1 DEF Deletes
  <2> QED BY <1>7, <2>2, <2>3 DEF DropRestored
<1>8. CASE j \in Compactor /\ Compact(j) /\ ~Finally(j) /\ ~DropRestored(j)
  <2>1. alias' = alias /\ \E p \in Phases \ Deletes : To(j, p)
    BY <1>8 DEF Compact, OpenCompaction, Clone, AwaitClone, Keep, DropClone, RestoreFallback,
       RestoreOld, Resnapshot, AwaitResnapshot, TimesOut, CheckCleaned, PublishReplacement,
       Archive, Retire, ValidateCompaction, PublishResult, Decide, Phases, Rest, Deletes,
       aliasVars
  <2> QED BY <1>p, <2>1
<1> QED BY <1>1, <1>2, <1>3, <1>4, <1>5, <1>6, <1>7, <1>8 DEF JobStep, ArchiveDelete

\* No deletion takes the index that serves readers.
THEOREM ServingSurvives ==
  ASSUME OneLauncher, AliasQuiet PROVE Spec => []ServingIndexSurvives
<1>1. Init => ServeInv
  BY DEF Init, AliasInit, ServeInv, Deletes
<1>2. GcInv /\ ServeInv /\ [Next]_vars => ServeInv'
  <2> SUFFICES ASSUME GcInv, ServeInv, [Next]_vars PROVE ServeInv'
    OBVIOUS
  <2>1. CASE \E j \in Job : JobStep(j)
    <3>1. PICK j \in Job : JobStep(j)
      BY <2>1
    <3>2. Post(j)
      BY <3>1, LaunchStep, ArchiverStep, DrillStep, CompactorStep DEF JobStep
    <3>3. \A k \in Job \ {j} : jpc'[k] = jpc[k]
      BY <3>2 DEF Post, Frame, GcInv, GcType
    <3>4. alias' = alias /\ (jpc'[j] \in Deletes => alias = {Active})
      BY <3>1, JobServes
    <3> QED BY <3>3, <3>4 DEF ServeInv
  <2>2. CASE (\E s \in Snapshot : SnapshotEnds(s)) \/ RestoreEnds \/ UNCHANGED vars
    <3>1. alias' = alias /\ jpc' = jpc
      BY <2>2 DEF SnapshotEnds, RestoreEnds, aliasVars, gcVars, vars
    <3> QED BY <3>1 DEF ServeInv
  <2>3. CASE \E p \in Promoter : Promotion(p)
    <3>1. PICK p \in Promoter : Promotion(p)
      BY <2>3
    <3>2. jpc' = jpc /\ (Deleting => alias' = alias)
      BY <3>1 DEF Promotion, gcVars, AliasQuiet
    <3>3. alias' # {}
      BY <3>1 DEF Promotion, Promote, ValidateTarget, ReadAliasIndices, UpdateAliases,
         CheckActivated, Record, PromoterDies, PromoteAgain, ServeInv
    <3> QED BY <3>2, <3>3 DEF ServeInv, Deleting, Deletes
  <2> QED BY <2>1, <2>2, <2>3, NextCases
<1>3. ServeInv => ServingIndexSurvives
  BY DEF ServeInv, ServingIndexSurvives
<1> QED BY <1>1, <1>2, <1>3, GcInit, GcNext, PTL DEF Spec
=============================================================================
