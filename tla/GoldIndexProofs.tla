----------------------------- MODULE GoldIndexProofs -----------------------------
(* A stored result names an index that holds the release, and the read alias is  *)
(* on no other index: proofs for any entities, partitions, affected sets and     *)
(* number of invocations, of builders that raise, are killed and resume.         *)
EXTENDS GoldIndexProjection, FiniteSetTheorems, TLAPS

\* One launcher at a time creates a Job, and an incremental build never meets
\* receipts without their index: the settings under which the run checks it.
Serialized == LaunchRace = FALSE /\ StaleReceipts = FALSE

\* ------------------------------------------------------------------------- types

Doc == [text : {"old", "new"}, plan : {"base", "target"}]
Phases == Guarded \cup Ended \cup {"idle", "result", "cleanup", "delete"}
Ops == {"FULL", "UPSERT", "DELETE"}
Partitions == UNION {PartsOf(op) : op \in Ops}
Invocation ==
  [pc : Phases, mode : {"FULL", "INCREMENTAL"}, created : BOOLEAN, op : Ops,
   todo : SUBSET Partitions, wrote : SUBSET Partitions, failed : BOOLEAN]
Projection ==
  [pc : {"idle", "lookup", "list", "create", "wait", "validate", "done", "failed"},
   left : Nat, flaws : SUBSET Flaws]

IndexOK ==
  /\ index \in [exists : BOOLEAN, mapped : BOOLEAN, docs : {index.docs}]
  /\ index.docs \in [DOMAIN index.docs -> Doc]
  /\ DOMAIN index.docs \subseteq Keys

TypesOK ==
  /\ affected \in Affected
  /\ IndexOK
  /\ bld \in [Runs -> Invocation]
  /\ wf \in [Runs -> Projection]
  /\ byHand \in {{}, {"FULL"}, {"INCREMENTAL"}}

\* ------------------------------------------------------------------ who is at work

\* Builders do not overlap: a Job is created while none runs, and by hand one
\* waits for the other.
OneBuilder ==
  /\ \A q, r \in Runs : Underway(q) /\ Underway(r) => q = r
  /\ byHand = {} => \A r \in Runs : Underway(r) => r \in jobs
  /\ byHand # {} => \A w \in Runs : wf[w].pc = "idle"

Incremental == byHand = {"INCREMENTAL"}

\* ------------------------------------------------------ what the index may hold

\* Documents are of the release; an incremental build also meets those of the base.
DocsOK ==
  \A k \in DOMAIN index.docs :
    IF Incremental
    THEN k \in BaseKeys \cup Upserts /\ (index.docs[k].text = "new" => k \in Upserts)
    ELSE k \in TargetKeys /\ index.docs[k] = TargetDoc(k)

\* The upserts of a partition are in the index, or no longer.
Applied(part) ==
  \A k \in KeysOf("UPSERT", part[2]) : k \in DOMAIN index.docs => index.docs[k] = TargetDoc(k)

\* The baseline's receipt is the first, and a receipt of upserts is true.
ReceiptsOK ==
  /\ Incremental => receipts = {} \/ Baseline \in receipts
  /\ \A part \in receipts \cap PartsOf("UPSERT") : Applied(part)

\* ------------------------------------------------------------ where a builder is

Settling(b) ==
  IF Incremental
  THEN /\ Baseline \in receipts
       /\ b.op \in {"UPSERT", "DELETE"}
       /\ b.todo \subseteq PartsOf(b.op)
       /\ b.op = "UPSERT" => \A part \in b.wrote : Applied(part)
       /\ b.op = "UPSERT" /\ ~b.failed => PartsOf("UPSERT") \subseteq b.todo \cup receipts
       /\ b.op = "DELETE" /\ ~b.failed => PartsOf("UPSERT") \subseteq receipts
  ELSE b.op = "FULL" /\ b.todo \subseteq PartsOf("FULL")

Placed(b) ==
  /\ b.pc \in Guarded \cup {"result"} =>
       b.mode = IF Incremental THEN "INCREMENTAL" ELSE "FULL"
  /\ b.pc \in {"baseline", "reindex", "update", "seal"} => Incremental
  /\ b.pc = "baseline" /\ b.created => receipts = {}
  /\ b.pc \in {"reindex", "update", "seal"} => receipts = {}
  /\ b.pc \in {"ensure", "baseline", "reindex", "update", "seal"} => ~b.failed /\ b.wrote = {}
  /\ b.pc = "ensure" => b.op = "FULL"
  /\ b.pc = "bulk" => Settling(b) /\ b.wrote \subseteq b.todo
  /\ b.pc \in {"manifest", "recheck", "result"} => IndexIsRelease
  /\ b.pc = "delete" => b.created

\* ------------------------------------------------------------ what was promised

\* From the first result on the index is left as it is, the alias follows.
Promised ==
  /\ results # {} => /\ IndexIsRelease
                     /\ \A r \in Runs : Underway(r) => ~Incremental /\ ~bld[r].created
  /\ validated # None => results # {}
  /\ serving = "target" => results # {}
  /\ \A w \in Runs : wf[w].pc = "validate" => results # {}

Inv ==
  /\ TypesOK /\ OneBuilder /\ DocsOK /\ ReceiptsOK
  /\ \A r \in Runs : Placed(bld[r])
  /\ Promised

\* ------------------------------------------------------- what a step leaves as it is

\* A run that is underway is alone, and what is asked of the others is nothing.
LEMMA Alone1 ==
  ASSUME Inv, NEW r \in Runs, Underway(r), NEW q \in Runs, q # r
  PROVE  bld[q].pc \in Ended \cup {"idle"}
  BY DEF Inv, OneBuilder, Underway

\* A builder takes a step: the others and the workflows stay where they are.
LEMMA BuilderMoves ==
  ASSUME Inv, NEW r \in Runs, Underway(r),
         bld' = [bld EXCEPT ![r] = bld'[r]], bld'[r] \in Invocation,
         UNCHANGED <<affected, serving, byHand, jobs, validated, wf>>,
         IndexOK', DocsOK', ReceiptsOK', Placed(bld[r])',
         results # {} => results' # {},
         results' # {} => IndexIsRelease' /\ (Underway(r)' => ~Incremental /\ ~bld'[r].created)
  PROVE  Inv'
<1>0. \A q \in Runs : q # r => bld'[q] = bld[q] /\ bld[q].pc \in Ended \cup {"idle"}
  BY Alone1 DEF Inv, TypesOK
<1>1. TypesOK'
  BY DEF Inv, TypesOK
<1>2. OneBuilder'
  <2>1. \A q \in Runs : Underway(q)' => q = r
    BY <1>0 DEF Underway
  <2>2. byHand = {} => r \in jobs
    BY DEF Inv, OneBuilder
  <2> QED BY <2>1, <2>2 DEF Inv, OneBuilder
<1>3. ASSUME NEW q \in Runs PROVE Placed(bld[q])'
  <2>1. CASE q = r
    BY <2>1
  <2>2. CASE q # r
    <3>1. bld'[q].pc \in Ended \cup {"idle"}
      BY <1>0, <2>2
    <3> QED BY <3>1 DEF Placed, Guarded, Ended
  <2> QED BY <2>1, <2>2
<1>4. Promised'
  <2>1. \A q \in Runs : Underway(q)' => q = r
    BY <1>0 DEF Underway
  <2>2. results' # {} => IndexIsRelease' /\ \A q \in Runs : Underway(q)' => ~Incremental' /\ ~bld'[q].created
    BY <2>1 DEF Incremental
  <2> QED BY <2>2 DEF Inv, Promised
<1> QED BY <1>1, <1>2, <1>3, <1>4 DEF Inv

\* A step in which a builder only changes its own state.
LEMMA OnlyBuilder ==
  ASSUME Inv, NEW r \in Runs, Underway(r),
         bld' = [bld EXCEPT ![r] = bld'[r]], bld'[r] \in Invocation,
         UNCHANGED <<affected, index, receipts, results, serving, byHand, jobs, validated, wf>>,
         Placed(bld[r])', bld'[r].created => bld[r].created
  PROVE  Inv'
<1>1. IndexOK' /\ DocsOK' /\ ReceiptsOK'
  BY DEF Inv, TypesOK, IndexOK, DocsOK, ReceiptsOK, Applied, Upserts, Deletes, TargetKeys,
         TargetDoc, KeysOf, Incremental
<1>2. IndexIsRelease => IndexIsRelease'
  BY DEF IndexIsRelease, Release, TargetKeys, TargetDoc, Upserts, Deletes
<1>3. results # {} => IndexIsRelease /\ ~Incremental /\ ~bld[r].created
  BY DEF Inv, Promised
<1> QED BY <1>1, <1>2, <1>3, BuilderMoves

\* Goto moves one run; where it goes on, it keeps all else.
LEMMA GotoIs ==
  ASSUME Inv, NEW r \in Runs, NEW pc \in Phases, Goto(r, pc)
  PROVE  /\ bld' = [bld EXCEPT ![r] = bld'[r]]
         /\ bld'[r] \in Invocation /\ bld'[r].pc = pc
         /\ bld'[r].created => bld[r].created
         /\ pc \notin Ended \cup {"cleanup"} => bld'[r] = [bld[r] EXCEPT !.pc = pc]
<1>1. bld[r] \in Invocation /\ Idle \in Invocation
  BY DEF Inv, TypesOK, Idle, Invocation, Phases, Ops
<1>2. bld'[r] = IF pc \in Ended THEN [Idle EXCEPT !.pc = pc]
                ELSE IF pc = "cleanup" THEN [Idle EXCEPT !.pc = pc, !.created = bld[r].created]
                ELSE [bld[r] EXCEPT !.pc = pc]
  BY DEF Inv, TypesOK, Goto
<1>3. bld' = [bld EXCEPT ![r] = bld'[r]]
  BY <1>2 DEF Goto, Inv, TypesOK
<1>4. CASE pc \in Ended
  BY <1>1, <1>2, <1>3, <1>4 DEF Invocation, Idle
<1>5. CASE pc = "cleanup"
  <2>1. bld'[r] = [Idle EXCEPT !.pc = pc, !.created = bld[r].created]
    BY <1>2, <1>5 DEF Ended
  <2> QED BY <1>1, <1>3, <1>5, <2>1 DEF Invocation
<1>6. CASE pc \notin Ended \cup {"cleanup"}
  BY <1>1, <1>2, <1>3, <1>6 DEF Invocation
<1> QED BY <1>4, <1>5, <1>6

LEMMA GoesOn ==
  ASSUME Inv, NEW r \in Runs, NEW pc \in Phases \ (Ended \cup {"cleanup"}), Goto(r, pc)
  PROVE  /\ bld' = [bld EXCEPT ![r] = bld'[r]]
         /\ bld'[r] \in Invocation /\ bld'[r].pc = pc
         /\ bld'[r].mode = bld[r].mode /\ bld'[r].created = bld[r].created
         /\ bld'[r].op = bld[r].op /\ bld'[r].todo = bld[r].todo
         /\ bld'[r].wrote = bld[r].wrote /\ bld'[r].failed = bld[r].failed
<1>1. bld[r] \in Invocation
  BY DEF Inv, TypesOK
<1>2. bld'[r] = [bld[r] EXCEPT !.pc = pc]
  BY GotoIs
<1>3. bld' = [bld EXCEPT ![r] = bld'[r]] /\ bld'[r] \in Invocation
  BY GotoIs
<1> QED BY <1>1, <1>2, <1>3 DEF Invocation

\* A run may always stop or turn to its clean-up, as far as its state goes.
LEMMA StopsOK ==
  ASSUME Inv, NEW r \in Runs, bld'[r].pc \in Ended \cup {"cleanup"}
  PROVE  Placed(bld[r])'
  BY DEF Placed, Guarded, Ended

Quiet == UNCHANGED <<affected, index, receipts, results, serving, byHand, jobs, validated, wf>>

LEMMA Stops ==
  ASSUME Inv, NEW r \in Runs, Underway(r), NEW pc \in Ended \cup {"cleanup"}, Goto(r, pc), Quiet
  PROVE  Inv'
<1>1. pc \in Phases
  BY DEF Phases
<1>2. Placed(bld[r])'
  BY <1>1, GotoIs, StopsOK
<1> QED BY <1>1, <1>2, GotoIs, OnlyBuilder DEF Quiet


\* ------------------------------------------------------------- what a write leaves

LEMMA IndexedIs ==
  ASSUME IndexOK, NEW K \in SUBSET Keys, NEW f \in [K -> Doc], index' = Indexed(f)
  PROVE  /\ IndexOK' /\ index'.exists /\ index'.mapped = index.mapped
         /\ DOMAIN index'.docs = K \cup DOMAIN index.docs
         /\ \A k \in DOMAIN index'.docs :
              index'.docs[k] = IF k \in K THEN f[k] ELSE index.docs[k]
<1>1. index' = [index EXCEPT !.exists = TRUE, !.docs = Over(f, index.docs)]
  BY DEF Indexed
<1>2. index'.exists /\ index'.mapped = index.mapped /\ index'.docs = Over(f, index.docs)
  BY <1>1 DEF IndexOK
<1>3. index'.docs = [k \in K \cup DOMAIN index.docs |-> IF k \in K THEN f[k] ELSE index.docs[k]]
  <2>1. DOMAIN f = K
    OBVIOUS
  <2> QED BY <1>2, <2>1 DEF Over
<1>4. index' \in [exists : BOOLEAN, mapped : BOOLEAN, docs : {index'.docs}]
  BY <1>1, <1>2 DEF IndexOK
<1> QED BY <1>2, <1>3, <1>4 DEF IndexOK

LEMMA WithoutIs ==
  ASSUME IndexOK, NEW K, index' = Without(K)
  PROVE  /\ IndexOK' /\ index'.exists /\ index'.mapped = index.mapped
         /\ DOMAIN index'.docs = DOMAIN index.docs \ K
         /\ \A k \in DOMAIN index'.docs : index'.docs[k] = index.docs[k]
<1> DEFINE left == Restrict(index.docs, DOMAIN index.docs \ K)
<1>1. index' = [index EXCEPT !.exists = TRUE, !.docs = left]
  BY DEF Without
<1>2. index'.exists /\ index'.mapped = index.mapped /\ index'.docs = left
  BY <1>1 DEF IndexOK
<1>3. left = [k \in DOMAIN index.docs \ K |-> index.docs[k]]
  BY DEF Restrict
<1>4. index' \in [exists : BOOLEAN, mapped : BOOLEAN, docs : {index'.docs}]
  BY <1>1, <1>2 DEF IndexOK
<1> QED BY <1>2, <1>3, <1>4 DEF IndexOK

\* The documents of the target and of the base are documents.
LEMMA DocTypes ==
  /\ BaseDoc \in Doc
  /\ \A k : TargetDoc(k) \in Doc
  BY DEF BaseDoc, TargetDoc, Doc

\* What the entities of a partition are, and how many there are at all.
LEMMA KeysTypes ==
  ASSUME BuildConstants, Inv
  PROVE  /\ Upserts \subseteq Keys /\ Deletes \subseteq Keys
         /\ TargetKeys \subseteq Keys /\ IsFiniteSet(TargetKeys)
         /\ \A p : /\ KeysOf("FULL", p) \subseteq TargetKeys
                   /\ KeysOf("UPSERT", p) \subseteq Upserts
                   /\ KeysOf("DELETE", p) \subseteq Deletes
<1>1. Upserts \subseteq Keys /\ Deletes \subseteq Keys
  BY DEF BuildConstants, Inv, TypesOK, Upserts, Deletes
<1>2. TargetKeys \subseteq Keys
  BY <1>1 DEF TargetKeys, BuildConstants
<1>3. IsFiniteSet(TargetKeys)
  BY <1>2, FS_Subset DEF BuildConstants
<1>4. ASSUME NEW p
      PROVE  /\ KeysOf("FULL", p) \subseteq TargetKeys
             /\ KeysOf("UPSERT", p) \subseteq Upserts
             /\ KeysOf("DELETE", p) \subseteq Deletes
  BY DEF KeysOf
<1> QED BY <1>1, <1>2, <1>3, <1>4

\* As many documents as the release has, all of the release: it is the release.
LEMMA CountedIsRelease ==
  ASSUME BuildConstants, Inv, ContentsValid(Cardinality(TargetKeys)),
         DOMAIN index.docs \subseteq TargetKeys,
         \A k \in DOMAIN index.docs : index.docs[k] = TargetDoc(k)
  PROVE  IndexIsRelease
<1>1. DOMAIN index.docs = TargetKeys
  BY KeysTypes, FS_Subset DEF ContentsValid
<1>2. index.docs = [k \in TargetKeys |-> index.docs[k]]
  BY <1>1 DEF Inv, TypesOK, IndexOK
<1>3. index.docs = Release
  BY <1>1, <1>2 DEF Release
<1> QED BY <1>3 DEF IndexIsRelease, ContentsValid

\* A write of target documents leaves what was right as it was.
LEMMA TargetWrites ==
  ASSUME BuildConstants, Inv, NEW K \in SUBSET Keys,
         index' = Indexed([k \in K |-> TargetDoc(k)]),
         IF Incremental THEN K \subseteq Upserts ELSE K \subseteq TargetKeys,
         UNCHANGED <<affected, byHand, receipts>>
  PROVE  /\ IndexOK' /\ DocsOK' /\ ReceiptsOK'
         /\ \A part : Applied(part) => Applied(part)'
         /\ \A k \in K : k \in DOMAIN index'.docs /\ index'.docs[k] = TargetDoc(k)
         /\ IndexIsRelease /\ K \subseteq TargetKeys => IndexIsRelease'
<1> DEFINE f == [k \in K |-> TargetDoc(k)]
<1>0. \A k : TargetDoc(k)' = TargetDoc(k) /\ (k \in Upserts)' = (k \in Upserts)
  BY DEF TargetDoc, Upserts
<1>1. f \in [K -> Doc] /\ (\A k \in K : f[k] = TargetDoc(k)) /\ index' = Indexed(f)
  BY DocTypes
<1> HIDE DEF f
<1>2. /\ IndexOK' /\ index'.exists /\ index'.mapped = index.mapped
      /\ DOMAIN index'.docs = K \cup DOMAIN index.docs
      /\ \A k \in DOMAIN index'.docs :
           index'.docs[k] = IF k \in K THEN TargetDoc(k) ELSE index.docs[k]
  <2>1. IndexOK
    BY DEF Inv, TypesOK
  <2>2. /\ IndexOK' /\ index'.exists /\ index'.mapped = index.mapped
        /\ DOMAIN index'.docs = K \cup DOMAIN index.docs
        /\ \A k \in DOMAIN index'.docs :
             index'.docs[k] = IF k \in K THEN f[k] ELSE index.docs[k]
    BY <1>1, <2>1, IndexedIs
  <2> QED BY <1>1, <2>2
<1>3. DocsOK'
  BY <1>0, <1>2 DEF Inv, DocsOK, Incremental, TargetKeys, Upserts, Deletes, TargetDoc
<1>4. \A part : Applied(part) => Applied(part)'
  BY <1>0, <1>2 DEF Applied, KeysOf, Upserts
<1>5. ReceiptsOK'
  BY <1>4 DEF Inv, ReceiptsOK, Incremental
<1>6. ASSUME IndexIsRelease, K \subseteq TargetKeys PROVE IndexIsRelease'
  <2>1. Release' = Release
    BY <1>0 DEF Release, TargetKeys, Upserts, Deletes
  <2>2. DOMAIN index'.docs = TargetKeys /\ \A k \in TargetKeys : index'.docs[k] = TargetDoc(k)
    BY <1>2, <1>6 DEF IndexIsRelease, Release
  <2>3. index'.docs = Release
    BY <1>2, <2>2 DEF Release, IndexOK
  <2> QED BY <1>2, <1>6, <2>1, <2>3 DEF IndexIsRelease
<1> QED BY <1>2, <1>3, <1>4, <1>5, <1>6


\* ------------------------------------------------------------ the steps of a builder

Beside == UNCHANGED <<byHand, jobs, validated, wf>>

\* The partitions of a kind are partitions.
LEMMA PartsTypes == \A op \in Ops : PartsOf(op) \subseteq Partitions
  BY DEF Partitions

\* An invocation goes over to the partitions of UPSERT once the baseline is there.
LEMMA UpsertingOK ==
  ASSUME Inv, NEW r \in Runs, bld[r].pc \in {"baseline", "seal"}, Upserting(r),
         Baseline \in receipts', byHand' = byHand
  PROVE  /\ bld' = [bld EXCEPT ![r] = bld'[r]]
         /\ bld'[r] \in Invocation /\ bld'[r].created = bld[r].created
         /\ Placed(bld[r])'
<1>1. bld[r] \in Invocation /\ Incremental /\ bld[r].mode = "INCREMENTAL" /\ bld[r].wrote = {}
  BY DEF Inv, TypesOK, Placed, Guarded
<1>2. bld'[r] = [bld[r] EXCEPT !.pc = "bulk", !.op = "UPSERT", !.todo = PartsOf("UPSERT")]
  BY DEF Upserting, Inv, TypesOK
<1>3. bld' = [bld EXCEPT ![r] = bld'[r]]
  BY <1>2 DEF Upserting, Inv, TypesOK
<1>4. PartsOf("UPSERT") \in SUBSET Partitions
  BY PartsTypes DEF Ops
<1>5. /\ bld'[r] \in Invocation /\ bld'[r].created = bld[r].created
      /\ bld'[r].pc = "bulk" /\ bld'[r].op = "UPSERT" /\ bld'[r].todo = PartsOf("UPSERT")
      /\ bld'[r].mode = "INCREMENTAL" /\ bld'[r].wrote = {}
  BY <1>1, <1>2, <1>4 DEF Invocation, Phases, Guarded, Ops
<1>6. PartsOf("UPSERT")' = PartsOf("UPSERT") /\ Incremental'
  BY <1>1 DEF Incremental, PartsOf
<1>7. Settling(bld[r])'
  BY <1>5, <1>6 DEF Settling
<1> QED BY <1>3, <1>5, <1>6, <1>7 DEF Placed, Guarded

\* A new index is one, and so is that which is gone.
LEMMA NoDocs ==
  /\ DOMAIN Empty.docs = {} /\ Empty.exists
  /\ index' \in {Empty, Absent} => DOMAIN index'.docs = {} /\ IndexOK'
<1>1. DOMAIN <<>> = {}
  OBVIOUS
<1>2. \A S : <<>> \in [DOMAIN <<>> -> S]
  BY <1>1
<1>3. ASSUME index' \in {Empty, Absent} PROVE index'.docs = <<>>
  BY <1>3 DEF Empty, Absent
<1>4. ASSUME index' \in {Empty, Absent}
      PROVE  index' \in [exists : BOOLEAN, mapped : BOOLEAN, docs : {index'.docs}]
  <2>1. PICK b \in BOOLEAN : index' = [exists |-> b, mapped |-> b, docs |-> <<>>]
    BY <1>4 DEF Empty, Absent
  <2>2. \A d : d \in {d} /\ [exists |-> b, mapped |-> b, docs |-> d].docs = d
    OBVIOUS
  <2>3. index'.docs = <<>>
    BY <1>3, <1>4
  <2>4. index' = [exists |-> b, mapped |-> b, docs |-> index'.docs]
    BY <2>1, <2>3
  <2> HIDE <2>1, <2>3
  <2> QED BY <2>4
<1>5. ASSUME index' \in {Empty, Absent} PROVE DOMAIN index'.docs = {} /\ IndexOK'
  BY <1>1, <1>2, <1>3, <1>4, <1>5 DEF IndexOK
<1>6. Empty.docs = <<>> /\ Empty.exists
  BY DEF Empty
<1> QED BY <1>1, <1>5, <1>6

LEMMA EnsureStep ==
  ASSUME Serialized, Inv, NEW r \in Runs, Ensure(r), StartsOver => StaleReceipts, Beside
  PROVE  Inv'
<1>0. Underway(r) /\ bld[r].pc = "ensure" /\ bld[r] \in Invocation
  BY DEF Ensure, Underway, Ended, Inv, TypesOK
<1>00. /\ bld[r].wrote = {} /\ ~bld[r].failed /\ bld[r].op = "FULL"
       /\ bld[r].mode = IF Incremental THEN "INCREMENTAL" ELSE "FULL"
  BY <1>0 DEF Inv, Placed, Guarded
<1>1. ASSUME NEW created \in BOOLEAN, Loads(r, created), byHand' = byHand,
             created /\ Incremental => receipts' = {}
      PROVE  /\ bld' = [bld EXCEPT ![r] = bld'[r]]
             /\ bld'[r] \in Invocation /\ bld'[r].created = created
             /\ Placed(bld[r])'
  <2>0. Incremental' = Incremental
    BY <1>1 DEF Incremental
  <2>1. CASE Incremental
    <3>1. bld'[r] = [bld[r] EXCEPT !.created = created, !.pc = "baseline"]
      BY <1>0, <1>00, <1>1, <2>1 DEF Loads, Inv, TypesOK
    <3>2. bld' = [bld EXCEPT ![r] = bld'[r]]
      BY <3>1, <1>1 DEF Loads, Inv, TypesOK
    <3>3. /\ bld'[r] \in Invocation /\ bld'[r].created = created /\ bld'[r].pc = "baseline"
          /\ bld'[r].mode = "INCREMENTAL" /\ bld'[r].wrote = {} /\ ~bld'[r].failed
      BY <1>0, <1>00, <2>1, <3>1 DEF Invocation, Phases, Guarded
    <3> QED BY <1>1, <2>0, <2>1, <3>2, <3>3 DEF Placed
  <2>2. CASE ~Incremental
    <3>1. bld'[r] = [bld[r] EXCEPT !.created = created, !.pc = "bulk", !.todo = PartsOf("FULL")]
      BY <1>0, <1>00, <1>1, <2>2 DEF Loads, Inv, TypesOK
    <3>2. bld' = [bld EXCEPT ![r] = bld'[r]]
      BY <3>1, <1>1 DEF Loads, Inv, TypesOK
    <3>3. PartsOf("FULL") \in SUBSET Partitions
      BY PartsTypes DEF Ops
    <3>4. /\ bld'[r] \in Invocation /\ bld'[r].created = created /\ bld'[r].pc = "bulk"
          /\ bld'[r].mode = "FULL" /\ bld'[r].wrote = {} /\ bld'[r].op = "FULL"
          /\ bld'[r].todo = PartsOf("FULL")
      BY <1>0, <1>00, <2>2, <3>1, <3>3 DEF Invocation, Phases, Guarded
    <3>5. Settling(bld[r])'
      BY <2>0, <2>2, <3>4 DEF Settling, PartsOf
    <3> QED BY <2>0, <2>2, <3>2, <3>4, <3>5 DEF Placed
  <2> QED BY <2>1, <2>2
<1>2. CASE index.exists
  <2>1. CASE index.mapped
    <3>1. Loads(r, FALSE) /\ Quiet
      BY <1>2, <2>1 DEF Ensure, Beside, Quiet
    <3>2. /\ bld' = [bld EXCEPT ![r] = bld'[r]]
          /\ bld'[r] \in Invocation /\ bld'[r].created = FALSE /\ Placed(bld[r])'
      BY <1>1, <3>1 DEF Quiet
    <3> QED BY <1>0, <3>1, <3>2, OnlyBuilder DEF Quiet
  <2>2. CASE ~index.mapped
    <3>1. Goto(r, "cleanup") /\ Quiet
      BY <1>2, <2>2 DEF Ensure, Beside, Quiet
    <3> QED BY <1>0, <3>1, Stops
  <2> QED BY <2>1, <2>2
<1>3. CASE ~index.exists
  <2>1. /\ index' = Empty /\ (Loads(r, TRUE) \/ Goto(r, "cleanup"))
        /\ UNCHANGED <<affected, serving, receipts, manifest, results>> /\ Beside
    BY <1>3 DEF Ensure
  <2>2. /\ index'.exists /\ DOMAIN index'.docs = {} /\ IndexOK'
    BY <2>1, NoDocs
  <2>3. DocsOK' /\ ReceiptsOK'
    BY <2>1, <2>2 DEF Inv, DocsOK, ReceiptsOK, Applied, Incremental, Beside
  <2>4. results = {} /\ results' = {}
    BY <1>3, <2>1 DEF Inv, Promised, IndexIsRelease
  <2>5. Incremental => receipts' = {}
    BY <1>0, <1>00, <1>3, <2>1, <2>2 DEF StartsOver, Serialized
  <2>6. /\ bld' = [bld EXCEPT ![r] = bld'[r]]
        /\ bld'[r] \in Invocation /\ Placed(bld[r])'
    <3>1. CASE Loads(r, TRUE)
      BY <1>1, <2>1, <2>5, <3>1 DEF Beside
    <3>2. CASE Goto(r, "cleanup")
      BY <3>2, GotoIs, StopsOK DEF Phases
    <3> QED BY <2>1, <3>1, <3>2
  <2> QED BY <1>0, <2>1, <2>2, <2>3, <2>4, <2>6, BuilderMoves DEF Beside
<1> QED BY <1>2, <1>3

LEMMA CheckBaselineStep ==
  ASSUME Inv, NEW r \in Runs, CheckBaseline(r), Beside
  PROVE  Inv'
<1>0. Underway(r) /\ bld[r].pc = "baseline" /\ Quiet
  BY DEF CheckBaseline, Underway, Ended, Quiet, Beside
<1>1. CASE serving # "other" /\ Reusable(r, Baseline)
  <2>1. Upserting(r) /\ Baseline \in receipts'
    BY <1>1, <1>0 DEF CheckBaseline, Reusable, Quiet
  <2> QED BY <1>0, <2>1, UpsertingOK, OnlyBuilder DEF Quiet
<1>2. CASE ~(serving # "other" /\ Reusable(r, Baseline)) /\ serving = "base"
  <2>1. Goto(r, "reindex")
    BY <1>2 DEF CheckBaseline
  <2>2. Incremental /\ receipts = {}
    BY <1>0, <1>2 DEF Inv, Placed, ReceiptsOK, Reusable
  <2>4. bld[r].mode = "INCREMENTAL" /\ ~bld[r].failed /\ bld[r].wrote = {}
    BY <1>0, <2>2 DEF Inv, Placed, Guarded
  <2>5. /\ bld' = [bld EXCEPT ![r] = bld'[r]] /\ bld'[r] \in Invocation
        /\ bld'[r].pc = "reindex" /\ bld'[r].mode = "INCREMENTAL" /\ ~bld'[r].failed
        /\ bld'[r].wrote = {} /\ bld'[r].created = bld[r].created
    <3>1. "reindex" \in Phases \ (Ended \cup {"cleanup"})
      BY DEF Phases, Guarded, Ended
    <3> QED BY <2>1, <2>4, <3>1, GoesOn
  <2>6. Placed(bld[r])'
    BY <1>0, <2>2, <2>5 DEF Placed, Quiet, Incremental
  <2> QED BY <1>0, <2>5, <2>6, OnlyBuilder DEF Quiet
<1>3. CASE ~(serving # "other" /\ Reusable(r, Baseline)) /\ serving # "base"
  <2>1. Goto(r, "cleanup")
    BY <1>3 DEF CheckBaseline
  <2> QED BY <1>0, <2>1, Stops
<1> QED BY <1>1, <1>2, <1>3

\* The copy of the base goes on or is given up; there is no receipt and no result.
LEMMA Copying ==
  ASSUME Inv, NEW r \in Runs, bld[r].pc \in {"reindex", "update"}, NEW answer,
         NEW next \in {"update", "seal"}, Await(r, answer, next), IndexOK', DocsOK',
         UNCHANGED <<affected, serving, receipts, manifest, results>>, Beside
  PROVE  Inv'
<1>0. /\ Underway(r) /\ Incremental /\ receipts = {} /\ ~bld[r].failed /\ bld[r].wrote = {}
      /\ bld[r].mode = "INCREMENTAL"
  BY DEF Inv, Placed, Underway, Ended, Guarded
<1>1. results = {} /\ Incremental'
  BY <1>0 DEF Inv, Promised, Beside, Incremental
<1>2. ReceiptsOK'
  BY <1>0 DEF ReceiptsOK
<1>3. bld' = [bld EXCEPT ![r] = bld'[r]] /\ bld'[r] \in Invocation /\ Placed(bld[r])'
  <2>1. CASE Goto(r, "cleanup")
    BY <2>1, GotoIs, StopsOK DEF Phases
  <2>2. CASE Goto(r, next)
    <3>1. next \in Phases \ (Ended \cup {"cleanup"})
      BY DEF Phases, Guarded, Ended
    <3>2. /\ bld' = [bld EXCEPT ![r] = bld'[r]] /\ bld'[r] \in Invocation /\ bld'[r].pc = next
          /\ bld'[r].mode = "INCREMENTAL" /\ ~bld'[r].failed /\ bld'[r].wrote = {}
      BY <1>0, <2>2, <3>1, GoesOn
    <3> QED BY <1>0, <1>1, <3>2 DEF Placed
  <2> QED BY <2>1, <2>2 DEF Await
<1> QED BY <1>0, <1>1, <1>2, <1>3, BuilderMoves DEF Beside

LEMMA ReindexStep ==
  ASSUME BuildConstants, Inv, NEW r \in Runs, Reindex(r), Beside
  PROVE  Inv'
<1>1. PICK K \in SUBSET BaseKeys :
        index' = Indexed([k \in K |-> BaseDoc]) /\ Await(r, Fulfilled(BaseKeys, K), "update")
  BY DEF Reindex
<1>2. Incremental /\ Incremental'
  BY DEF Reindex, Inv, Placed, Beside, Incremental
<1>3. K \in SUBSET Keys /\ [k \in K |-> BaseDoc] \in [K -> Doc] /\ IndexOK
  BY DocTypes DEF BuildConstants, Inv, TypesOK
<1>4. /\ IndexOK' /\ DOMAIN index'.docs = K \cup DOMAIN index.docs
      /\ \A k \in DOMAIN index'.docs :
           index'.docs[k] = IF k \in K THEN BaseDoc ELSE index.docs[k]
  <2> DEFINE f == [k \in K |-> BaseDoc]
  <2>1. f \in [K -> Doc] /\ index' = Indexed(f) /\ \A k \in K : f[k] = BaseDoc
    BY <1>1, <1>3
  <2> HIDE DEF f
  <2> QED BY <1>3, <2>1, IndexedIs
<1>5. DocsOK'
  BY <1>2, <1>4 DEF Inv, DocsOK, BaseDoc, Upserts, Reindex
<1> QED BY <1>1, <1>4, <1>5, Copying DEF Reindex

LEMMA RenameStep ==
  ASSUME BuildConstants, Inv, NEW r \in Runs, Rename(r), Beside
  PROVE  Inv'
<1> DEFINE renamed(k) == [index.docs[k] EXCEPT !.plan = "target"]
<1>1. PICK K \in SUBSET OfBase :
        index' = Indexed([k \in K |-> renamed(k)]) /\ Await(r, Fulfilled(OfBase, K), "seal")
  BY DEF Rename
<1>2. Incremental /\ Incremental'
  BY DEF Rename, Inv, Placed, Beside, Incremental
<1>3. \A k \in K : renamed(k) \in Doc /\ renamed(k).text = index.docs[k].text
  BY DEF OfBase, Inv, TypesOK, IndexOK, Doc
<1>4. K \in SUBSET Keys /\ K \subseteq DOMAIN index.docs /\ IndexOK
  BY DEF OfBase, Inv, TypesOK, IndexOK
<1> HIDE DEF renamed
<1>5. /\ IndexOK' /\ DOMAIN index'.docs = K \cup DOMAIN index.docs
      /\ \A k \in DOMAIN index'.docs :
           index'.docs[k] = IF k \in K THEN renamed(k) ELSE index.docs[k]
  <2> DEFINE f == [k \in K |-> renamed(k)]
  <2>1. f \in [K -> Doc] /\ index' = Indexed(f) /\ \A k \in K : f[k] = renamed(k)
    BY <1>1, <1>3
  <2> HIDE DEF f
  <2> QED BY <1>4, <2>1, IndexedIs
<1>6. DocsOK'
  BY <1>2, <1>3, <1>4, <1>5 DEF Inv, DocsOK, Upserts, Rename
<1> QED BY <1>1, <1>5, <1>6, Copying DEF Rename

LEMMA SealStep ==
  ASSUME Inv, NEW r \in Runs, Seal(r), Beside
  PROVE  Inv'
<1>0. Underway(r) /\ Incremental /\ receipts = {}
  BY DEF Seal, Inv, Placed, Underway, Ended
<1>1. CASE ContentsValid(Cardinality(BaseKeys))
  <2>1. receipts' = {Baseline} /\ Upserting(r) /\ UNCHANGED <<affected, index, serving, results>>
    BY <1>0, <1>1 DEF Seal
  <2>2. results = {}
    BY <1>0 DEF Inv, Promised
  <2>3. /\ bld' = [bld EXCEPT ![r] = bld'[r]] /\ bld'[r] \in Invocation
        /\ Placed(bld[r])'
    <3>1. bld[r].pc \in {"baseline", "seal"} /\ Baseline \in receipts' /\ byHand' = byHand
      BY <2>1 DEF Seal, Beside
    <3> QED BY <2>1, <3>1, UpsertingOK
  <2>4. IndexOK' /\ DocsOK'
    BY <2>1 DEF Inv, TypesOK, IndexOK, DocsOK, Upserts, Deletes, TargetKeys, TargetDoc,
                Incremental, Beside
  <2>5. ReceiptsOK'
    <3>1. Baseline \notin PartsOf("UPSERT")'
      BY DEF Baseline, Receipt, PartsOf
    <3> QED BY <2>1, <3>1 DEF ReceiptsOK
  <2> QED BY <1>0, <2>1, <2>2, <2>3, <2>4, <2>5, BuilderMoves DEF Beside
<1>2. CASE ~ContentsValid(Cardinality(BaseKeys))
  <2>1. Goto(r, "cleanup") /\ Quiet
    BY <1>2 DEF Seal, Beside, Quiet
  <2> QED BY <1>0, <2>1, Stops
<1> QED BY <1>1, <1>2

\* ------------------------------------------------------------------ the partitions

\* One more partition is settled, by its receipt, or failed.
LEMMA Settles ==
  ASSUME Inv, NEW r \in Runs, bld[r].pc = "bulk", NEW part \in bld[r].todo,
         \/ bld' = [bld EXCEPT ![r] = Settled(r, part)] /\ part \in receipts'
         \/ bld' = [bld EXCEPT ![r] = [Settled(r, part) EXCEPT !.failed = TRUE]],
         receipts \subseteq receipts', byHand' = byHand,
         \A p \in bld[r].wrote : Applied(p) => Applied(p)'
  PROVE  /\ bld' = [bld EXCEPT ![r] = bld'[r]] /\ bld'[r] \in Invocation
         /\ bld'[r].created = bld[r].created /\ Placed(bld[r])'
<1>1. bld[r] \in Invocation
  BY DEF Inv, TypesOK
<1>2. /\ bld' = [bld EXCEPT ![r] = bld'[r]] /\ bld'[r] \in Invocation
      /\ bld'[r].pc = "bulk" /\ bld'[r].created = bld[r].created /\ bld'[r].mode = bld[r].mode
      /\ bld'[r].op = bld[r].op
      /\ bld'[r].todo = bld[r].todo \ {part} /\ bld'[r].wrote = bld[r].wrote \ {part}
      /\ bld'[r].failed \/ (bld'[r].failed = bld[r].failed /\ part \in receipts')
  <2>1. \/ bld'[r] = Settled(r, part) /\ part \in receipts'
        \/ bld'[r] = [Settled(r, part) EXCEPT !.failed = TRUE]
    BY <1>1 DEF Inv, TypesOK
  <2>2. bld' = [bld EXCEPT ![r] = bld'[r]]
    BY <2>1 DEF Inv, TypesOK
  <2>3. CASE bld'[r] = Settled(r, part) /\ part \in receipts'
    BY <1>1, <2>2, <2>3 DEF Settled, Invocation
  <2>4. CASE bld'[r] = [Settled(r, part) EXCEPT !.failed = TRUE]
    <3> DEFINE b == Settled(r, part)
    <3>1. /\ b \in Invocation /\ b.pc = bld[r].pc /\ b.created = bld[r].created
          /\ b.mode = bld[r].mode /\ b.op = bld[r].op
          /\ b.todo = bld[r].todo \ {part} /\ b.wrote = bld[r].wrote \ {part}
      BY <1>1 DEF Settled, Invocation
    <3>2. bld'[r] = [b EXCEPT !.failed = TRUE]
      BY <2>4
    <3> HIDE DEF b
    <3>3. bld[r].pc = "bulk"
      OBVIOUS
    <3> QED BY <2>2, <3>1, <3>2, <3>3 DEF Invocation
  <2> QED BY <2>1, <2>3, <2>4
<1>3. Settling(bld[r]) /\ bld[r].wrote \subseteq bld[r].todo
      /\ bld[r].mode = IF Incremental THEN "INCREMENTAL" ELSE "FULL"
  BY DEF Inv, Placed, Guarded
<1>4. Incremental' = Incremental /\ \A op \in Ops : PartsOf(op)' = PartsOf(op)
  BY DEF Incremental, PartsOf
<1>5. Settling(bld[r])'
  BY <1>2, <1>3, <1>4 DEF Settling, Ops
<1> QED BY <1>2, <1>3, <1>4, <1>5 DEF Placed

\* A partition names what is done to it.
LEMMA PartsNamed ==
  \A op : \A part \in PartsOf(op) : part[1] = op /\ part[2] \in Parts /\ part = <<op, part[2]>>
  BY DEF PartsOf, Receipt

\* What is done to the partitions at hand: all, or the affected ones of the base.
LEMMA AtHand ==
  ASSUME Inv, NEW r \in Runs, bld[r].pc = "bulk"
  PROVE  /\ Underway(r)
         /\ Settling(bld[r]) /\ bld[r].wrote \subseteq bld[r].todo
         /\ bld[r].todo \subseteq PartsOf(bld[r].op)
         /\ IF Incremental THEN bld[r].op \in {"UPSERT", "DELETE"} /\ Baseline \in receipts
                           ELSE bld[r].op = "FULL"
         /\ results # {} => IndexIsRelease /\ ~Incremental /\ ~bld[r].created
<1>1. Underway(r)
  BY DEF Underway, Ended
<1>2. Settling(bld[r]) /\ bld[r].wrote \subseteq bld[r].todo
  BY DEF Inv, Placed
<1>3. results # {} => IndexIsRelease /\ ~Incremental /\ ~bld[r].created
  BY <1>1 DEF Inv, Promised
<1> QED BY <1>1, <1>2, <1>3 DEF Settling

LEMMA SkipStep ==
  ASSUME Inv, NEW r \in Runs, NEW part \in bld[r].todo, Skip(r, part), Beside
  PROVE  Inv'
<1>1. /\ bld[r].pc = "bulk" /\ part \in receipts' /\ Quiet
      /\ bld' = [bld EXCEPT ![r] = Settled(r, part)]
  BY DEF Skip, Reusable, Quiet, Beside
<1>2. \A p : Applied(p) => Applied(p)'
  BY <1>1 DEF Quiet, Applied, KeysOf, Upserts, TargetDoc
<1>3. /\ bld' = [bld EXCEPT ![r] = bld'[r]] /\ bld'[r] \in Invocation
      /\ bld'[r].created = bld[r].created /\ Placed(bld[r])'
  BY <1>1, <1>2, Settles DEF Quiet
<1> QED BY <1>1, <1>3, AtHand, OnlyBuilder DEF Quiet

\* A write leaves the index right, and true what is said of it.
LEMMA Written ==
  ASSUME BuildConstants, Inv, NEW r \in Runs, bld[r].pc = "bulk", NEW part \in bld[r].todo,
         NEW K \in SUBSET KeysOf(part[1], part[2]),
         index' = IF part[1] = "DELETE" THEN Without(K) ELSE Indexed([k \in K |-> TargetDoc(k)]),
         UNCHANGED <<affected, byHand, receipts, results>>
  PROVE  /\ IndexOK' /\ DocsOK' /\ ReceiptsOK' /\ (results' # {} => IndexIsRelease')
         /\ \A p : Applied(p) => Applied(p)'
         /\ part[1] = "UPSERT" /\ K = KeysOf("UPSERT", part[2]) => Applied(part)'
<1>1. part[1] = bld[r].op
  BY AtHand, PartsNamed
<1>2. CASE part[1] = "DELETE"
  <2>1. index' = Without(K) /\ IndexOK
    BY <1>2 DEF Inv, TypesOK
  <2>2. /\ IndexOK' /\ DOMAIN index'.docs \subseteq DOMAIN index.docs
        /\ \A k \in DOMAIN index'.docs : index'.docs[k] = index.docs[k]
    BY <2>1, WithoutIs
  <2>3. DocsOK'
    BY <2>2 DEF Inv, DocsOK, Incremental, Upserts, Deletes, TargetKeys, TargetDoc
  <2>4. \A p : Applied(p) => Applied(p)'
    BY <2>2 DEF Applied, KeysOf, Upserts, TargetDoc
  <2>5. ReceiptsOK'
    BY <2>4 DEF Inv, ReceiptsOK, Incremental
  <2>6. results' = {}
    BY <1>1, <1>2, AtHand
  <2> QED BY <1>2, <2>2, <2>3, <2>4, <2>5, <2>6
<1>3. CASE part[1] # "DELETE"
  <2>1. /\ IF Incremental THEN part[1] = "UPSERT" ELSE part[1] = "FULL"
        /\ index' = Indexed([k \in K |-> TargetDoc(k)])
    BY <1>1, <1>3, AtHand
  <2>2. /\ K \in SUBSET Keys
        /\ IF Incremental THEN K \subseteq Upserts ELSE K \subseteq TargetKeys
    BY <2>1, KeysTypes
  <2>3. /\ IndexOK' /\ DocsOK' /\ ReceiptsOK'
        /\ \A p : Applied(p) => Applied(p)'
        /\ \A k \in K : k \in DOMAIN index'.docs /\ index'.docs[k] = TargetDoc(k)
        /\ IndexIsRelease /\ K \subseteq TargetKeys => IndexIsRelease'
    BY <2>1, <2>2, TargetWrites
  <2>4. results' # {} => IndexIsRelease'
    BY <2>2, <2>3, AtHand
  <2>5. ASSUME part[1] = "UPSERT", K = KeysOf("UPSERT", part[2]) PROVE Applied(part)'
    BY <2>3, <2>5 DEF Applied, KeysOf, TargetDoc, Upserts
  <2> QED BY <2>3, <2>4, <2>5
<1> QED BY <1>2, <1>3

LEMMA WriteStep ==
  ASSUME BuildConstants, Inv, NEW r \in Runs, NEW part \in bld[r].todo, Write(r, part), Beside
  PROVE  Inv'
<1>1. bld[r].pc = "bulk" /\ UNCHANGED <<affected, serving, receipts, manifest, results>>
  BY DEF Write
<1>2. PICK K \in SUBSET KeysOf(part[1], part[2]) :
        /\ index' = IF part[1] = "DELETE" THEN Without(K) ELSE Indexed([k \in K |-> TargetDoc(k)])
        /\ \/ Goto(r, "cleanup")
           \/ bld' = [bld EXCEPT ![r] =
                IF K = KeysOf(part[1], part[2]) THEN WrittenWhole(r, part)
                ELSE [Settled(r, part) EXCEPT !.failed = TRUE]]
  BY DEF Write
<1>3. /\ IndexOK' /\ DocsOK' /\ ReceiptsOK' /\ (results' # {} => IndexIsRelease')
      /\ \A p : Applied(p) => Applied(p)'
      /\ part[1] = "UPSERT" /\ K = KeysOf("UPSERT", part[2]) => Applied(part)'
  BY <1>1, <1>2, Written DEF Beside
<1>4. /\ bld' = [bld EXCEPT ![r] = bld'[r]] /\ bld'[r] \in Invocation
      /\ (bld'[r].created => bld[r].created) /\ Placed(bld[r])'
  <2>1. CASE Goto(r, "cleanup")
    BY <2>1, GotoIs, StopsOK DEF Phases
  <2>2. CASE bld' = [bld EXCEPT ![r] = [Settled(r, part) EXCEPT !.failed = TRUE]]
    BY <1>1, <1>3, <2>2, Settles DEF Beside
  <2>3. CASE /\ K = KeysOf(part[1], part[2])
             /\ bld' = [bld EXCEPT ![r] = WrittenWhole(r, part)]
    <3>1. bld \in [Runs -> Invocation] /\ bld[r] \in Invocation
      BY DEF Inv, TypesOK
    <3>3. bld'[r] = WrittenWhole(r, part) /\ bld' = [bld EXCEPT ![r] = bld'[r]]
      BY <2>3, <3>1
    <3>4. /\ bld'[r] \in Invocation
          /\ bld'[r].pc = "bulk" /\ bld'[r].created = bld[r].created /\ bld'[r].mode = bld[r].mode
          /\ bld'[r].op = bld[r].op /\ bld'[r].failed = bld[r].failed
          /\ bld'[r].todo = bld[r].todo /\ bld'[r].wrote = bld[r].wrote \cup {part}
      BY <1>1, <3>1, <3>3 DEF Invocation, WrittenWhole
    <3>5. /\ Settling(bld[r]) /\ bld[r].wrote \subseteq bld[r].todo
          /\ bld[r].mode = IF Incremental THEN "INCREMENTAL" ELSE "FULL"
      BY <1>1 DEF Inv, Placed, Guarded
    <3>6. Incremental' = Incremental /\ \A op \in Ops : PartsOf(op)' = PartsOf(op)
      BY DEF Incremental, PartsOf, Beside
    <3>7. bld[r].op = "UPSERT" => Applied(part)'
      BY <1>1, <1>3, <2>3, AtHand, PartsNamed
    <3>8. Settling(bld[r])'
      BY <1>1, <1>3, <3>4, <3>5, <3>6, <3>7 DEF Settling, Ops
    <3> QED BY <3>3, <3>4, <3>5, <3>6, <3>8 DEF Placed
  <2>4. CASE K = KeysOf(part[1], part[2])
    BY <1>2, <2>1, <2>3, <2>4
  <2>5. CASE K # KeysOf(part[1], part[2])
    BY <1>2, <2>1, <2>2, <2>5
  <2> QED BY <2>4, <2>5
<1>5. results # {} => results' # {}
  BY <1>1
<1>6. results' # {} => ~Incremental /\ ~bld'[r].created
  BY <1>1, <1>4, AtHand
<1> QED BY <1>1, <1>3, <1>4, <1>5, <1>6, AtHand, BuilderMoves DEF Beside

LEMMA PublishStep ==
  ASSUME Inv, NEW r \in Runs, NEW part \in bld[r].todo, Publish(r, part), Beside
  PROVE  Inv'
<1>1. /\ bld[r].pc = "bulk" /\ part \in bld[r].wrote /\ receipts' = receipts \cup {part}
      /\ bld' = [bld EXCEPT ![r] = Settled(r, part)]
      /\ UNCHANGED <<affected, index, serving, manifest, results>>
  BY DEF Publish
<1>2. \A p : Applied(p) => Applied(p)'
  BY <1>1 DEF Applied, KeysOf, Upserts, TargetDoc
<1>3. /\ bld' = [bld EXCEPT ![r] = bld'[r]] /\ bld'[r] \in Invocation
      /\ bld'[r].created = bld[r].created /\ Placed(bld[r])'
  BY <1>1, <1>2, Settles DEF Beside
<1>4. IndexOK' /\ DocsOK' /\ (IndexIsRelease => IndexIsRelease')
  BY <1>1 DEF Inv, TypesOK, IndexOK, DocsOK, Upserts, Deletes, TargetKeys, TargetDoc,
              Incremental, Beside, IndexIsRelease, Release
<1>5. ReceiptsOK'
  <2>1. part \in PartsOf("UPSERT") => Applied(part)
    <3>1. part \in PartsOf(bld[r].op) /\ Settling(bld[r])
      BY <1>1, AtHand
    <3>2. ASSUME part \in PartsOf("UPSERT") PROVE Incremental /\ bld[r].op = "UPSERT"
      BY <1>1, <3>1, <3>2, AtHand, PartsNamed
    <3> QED BY <1>1, <3>1, <3>2 DEF Settling
  <2>2. Incremental' => Baseline \in receipts'
    BY <1>1, AtHand DEF Incremental, Beside
  <2>3. ReceiptsOK /\ PartsOf("UPSERT")' = PartsOf("UPSERT")
    BY DEF Inv, PartsOf
  <2> QED BY <1>1, <1>2, <2>1, <2>2, <2>3 DEF ReceiptsOK
<1>6. results # {} => IndexIsRelease /\ ~Incremental /\ ~bld[r].created
  BY <1>1, AtHand
<1> QED BY <1>1, <1>3, <1>4, <1>5, <1>6, AtHand, BuilderMoves DEF Beside

\* ------------------------------------------------------------ reconciliation and end

\* What is reconciled is the release: by its texts, for an incremental build
\* because every partition of upserts has a receipt.
LEMMA ReconciledIsRelease ==
  ASSUME BuildConstants, Inv, NEW r \in Runs, bld[r].pc = "bulk", bld[r].todo = {},
         bld[r].op # "UPSERT", Reconciled(r)
  PROVE  IndexIsRelease
<1>1. ContentsValid(Cardinality(TargetKeys)) /\ ~bld[r].failed
  BY DEF Reconciled
<1>2. CASE ~Incremental
  BY <1>1, <1>2, CountedIsRelease DEF Inv, DocsOK
<1>3. CASE Incremental
  <2>1. bld[r].mode = "INCREMENTAL" /\ PartsOf("UPSERT") \subseteq receipts
    BY <1>1, <1>3 DEF Inv, Placed, Guarded, Settling
  <2>2. DOMAIN index.docs \subseteq TargetKeys
    BY <1>3, <2>1 DEF Reconciled, AffectedApplied, Inv, DocsOK, TargetKeys
  <2>3. ASSUME NEW k \in DOMAIN index.docs PROVE index.docs[k] = TargetDoc(k)
    <3>1. index.docs[k] \in Doc /\ index.docs[k].plan = "target"
      BY <1>1 DEF ContentsValid, OfBase, Inv, TypesOK, IndexOK, Doc
    <3>2. CASE k \in Upserts
      <4>1. PartOf[k] \in Parts
        BY <3>2, KeysTypes DEF BuildConstants, Parts, Range
      <4>2. <<"UPSERT", PartOf[k]>> \in receipts \cap PartsOf("UPSERT")
        BY <2>1, <4>1 DEF PartsOf, Receipt
      <4>3. k \in KeysOf("UPSERT", PartOf[k])
        BY <3>2 DEF KeysOf
      <4>4. Applied(<<"UPSERT", PartOf[k]>>)
        BY <4>2 DEF Inv, ReceiptsOK
      <4> QED BY <4>3, <4>4 DEF Applied
    <3>3. CASE k \notin Upserts
      <4>1. index.docs[k].text = "old"
        BY <1>3, <3>1, <3>3 DEF Inv, DocsOK, Doc
      <4> QED BY <3>1, <3>3, <4>1 DEF TargetDoc, Doc
    <3> QED BY <3>2, <3>3
  <2> QED BY <1>1, <2>2, <2>3, CountedIsRelease
<1> QED BY <1>2, <1>3

\* A run goes on, or to its clean-up, with the release in the index.
LEMMA GoesOnWithRelease ==
  ASSUME Inv, NEW r \in Runs, Underway(r), IndexIsRelease, Quiet,
         bld[r].mode = IF Incremental THEN "INCREMENTAL" ELSE "FULL",
         NEW pc \in {"manifest", "recheck", "result", "cleanup"}, Goto(r, pc)
  PROVE  Inv'
<1>1. CASE pc = "cleanup"
  BY <1>1, Stops
<1>2. CASE pc # "cleanup"
  <2>1. pc \in Phases \ (Ended \cup {"cleanup"})
    BY <1>2 DEF Phases, Guarded, Ended
  <2>2. /\ bld' = [bld EXCEPT ![r] = bld'[r]] /\ bld'[r] \in Invocation /\ bld'[r].pc = pc
        /\ bld'[r].mode = bld[r].mode /\ bld'[r].created = bld[r].created
    BY <2>1, GoesOn
  <2>3. IndexIsRelease' /\ Incremental' = Incremental
    BY DEF IndexIsRelease, Release, TargetKeys, TargetDoc, Upserts, Deletes, Quiet, Incremental
  <2>4. Placed(bld[r])'
    BY <1>2, <2>2, <2>3 DEF Placed
  <2> QED BY <2>2, <2>4, OnlyBuilder DEF Quiet
<1> QED BY <1>1, <1>2

LEMMA CollectStep ==
  ASSUME BuildConstants, Inv, NEW r \in Runs, Collect(r), Beside
  PROVE  Inv'
<1>0. Underway(r) /\ bld[r].pc = "bulk" /\ bld[r].todo = {} /\ Quiet
  BY DEF Collect, Underway, Ended, Quiet, Beside
<1>1. /\ bld[r] \in Invocation /\ bld \in [Runs -> Invocation]
      /\ Settling(bld[r]) /\ bld[r].wrote \subseteq bld[r].todo
      /\ bld[r].mode = IF Incremental THEN "INCREMENTAL" ELSE "FULL"
  BY <1>0 DEF Inv, TypesOK, Placed, Guarded
<1>2. CASE bld[r].op = "UPSERT"
  <2> DEFINE b == [bld[r] EXCEPT !.op = "DELETE", !.todo = PartsOf("DELETE")]
  <2>1. bld' = [bld EXCEPT ![r] = b]
    BY <1>2 DEF Collect
  <2> HIDE DEF b
  <2>2. bld'[r] = b /\ bld' = [bld EXCEPT ![r] = bld'[r]]
    BY <1>1, <2>1
  <2>3. PartsOf("DELETE") \in SUBSET Partitions
    BY PartsTypes DEF Ops
  <2>4. /\ bld'[r] \in Invocation /\ bld'[r].pc = "bulk" /\ bld'[r].op = "DELETE"
        /\ bld'[r].todo = PartsOf("DELETE") /\ bld'[r].mode = bld[r].mode
        /\ bld'[r].wrote = bld[r].wrote /\ bld'[r].failed = bld[r].failed
        /\ bld'[r].created = bld[r].created
    BY <1>0, <1>1, <2>2, <2>3 DEF Invocation, Ops, b
  <2>5. Incremental /\ Incremental' /\ \A op \in Ops : PartsOf(op)' = PartsOf(op)
    BY <1>0, <1>1, <1>2 DEF Settling, Incremental, PartsOf, Quiet
  <2>6. Settling(bld[r])'
    BY <1>0, <1>1, <1>2, <2>4, <2>5 DEF Settling, Ops, Quiet
  <2>7. Placed(bld[r])'
    BY <1>0, <1>1, <2>4, <2>5, <2>6 DEF Placed
  <2> QED BY <1>0, <2>2, <2>4, <2>7, OnlyBuilder DEF Quiet
<1>3. CASE bld[r].op # "UPSERT" /\ Reconciled(r)
  <2>1. Goto(r, "manifest")
    BY <1>3 DEF Collect
  <2>2. IndexIsRelease
    BY <1>0, <1>3, ReconciledIsRelease
  <2> QED BY <1>0, <1>1, <2>1, <2>2, GoesOnWithRelease
<1>4. CASE bld[r].op # "UPSERT" /\ ~Reconciled(r)
  <2>1. Goto(r, "cleanup")
    BY <1>4 DEF Collect
  <2> QED BY <1>0, <2>1, Stops
<1> QED BY <1>2, <1>3, <1>4

LEMMA PublishManifestStep ==
  ASSUME Inv, NEW r \in Runs, PublishManifest(r), Beside
  PROVE  Inv'
<1>1. /\ Underway(r) /\ Quiet /\ IndexIsRelease
      /\ bld[r].mode = IF Incremental THEN "INCREMENTAL" ELSE "FULL"
  BY DEF PublishManifest, Inv, Placed, Underway, Ended, Guarded, Quiet, Beside
<1>2. Goto(r, "recheck") \/ Goto(r, "cleanup")
  BY DEF PublishManifest
<1> QED BY <1>1, <1>2, GoesOnWithRelease

LEMMA RecheckStep ==
  ASSUME Inv, NEW r \in Runs, Recheck(r), Beside
  PROVE  Inv'
<1>1. /\ Underway(r) /\ Quiet /\ IndexIsRelease
      /\ bld[r].mode = IF Incremental THEN "INCREMENTAL" ELSE "FULL"
  BY DEF Recheck, Inv, Placed, Underway, Ended, Guarded, Quiet, Beside
<1>2. Goto(r, "result") \/ Goto(r, "cleanup")
  BY DEF Recheck
<1> QED BY <1>1, <1>2, GoesOnWithRelease

\* The result is published by a run that is the only one, and that ends with it.
LEMMA PublishResultStep ==
  ASSUME Inv, NEW r \in Runs, PublishResult(r), Beside
  PROVE  Inv'
<1>1. /\ Underway(r) /\ IndexIsRelease /\ results \subseteq results'
      /\ UNCHANGED <<affected, index, serving, receipts, manifest>>
  BY DEF PublishResult, Inv, Placed, Underway, Ended
<1>2. \E pc \in {"done", "failed"} : Goto(r, pc)
  BY DEF PublishResult
<1>3. /\ bld' = [bld EXCEPT ![r] = bld'[r]] /\ bld'[r] \in Invocation
      /\ bld'[r].pc \in {"done", "failed"}
  BY <1>2, GotoIs DEF Phases, Ended
<1>4. Placed(bld[r])' /\ ~Underway(r)'
  BY <1>3, StopsOK DEF Underway, Ended
<1>5. IndexOK' /\ DocsOK' /\ ReceiptsOK' /\ IndexIsRelease'
  BY <1>1 DEF Inv, TypesOK, IndexOK, DocsOK, ReceiptsOK, Applied, Upserts, Deletes, TargetKeys,
              TargetDoc, KeysOf, Incremental, Beside, IndexIsRelease, Release
<1>6. results # {} => results' # {}
  BY <1>1
<1> QED BY <1>1, <1>3, <1>4, <1>5, <1>6, BuilderMoves DEF Beside

LEMMA RaisesStep ==
  ASSUME Inv, NEW r \in Runs, Raises(r), Beside
  PROVE  Inv'
<1>1. Underway(r) /\ Quiet /\ Goto(r, "cleanup")
  BY DEF Raises, Guarded, Underway, Ended, Quiet, Beside
<1> QED BY <1>1, Stops

LEMMA KilledStep ==
  ASSUME Inv, NEW r \in Runs, Killed(r), Beside
  PROVE  Inv'
<1>1. Underway(r) /\ Quiet /\ Goto(r, "dead") /\ "dead" \in Ended
  BY DEF Killed, Ended, Quiet, Beside
<1> QED BY <1>1, Stops

LEMMA CleanUpStep ==
  ASSUME Inv, NEW r \in Runs, CleanUp(r), Beside
  PROVE  Inv'
<1>0. Underway(r) /\ Quiet
  BY DEF CleanUp, Underway, Ended, Quiet, Beside
<1>1. CASE bld[r].created /\ serving # "target" /\ index.exists
  <2>1. Goto(r, "delete") /\ "delete" \in Phases \ (Ended \cup {"cleanup"})
    BY <1>1 DEF CleanUp, Phases, Ended
  <2>2. /\ bld' = [bld EXCEPT ![r] = bld'[r]] /\ bld'[r] \in Invocation
        /\ bld'[r].pc = "delete" /\ bld'[r].created = bld[r].created
    BY <2>1, GoesOn
  <2>3. Placed(bld[r])'
    BY <1>1, <2>2 DEF Placed, Guarded
  <2> QED BY <1>0, <2>2, <2>3, OnlyBuilder DEF Quiet
<1>2. CASE ~(bld[r].created /\ serving # "target" /\ index.exists)
  <2>1. Goto(r, "failed") /\ "failed" \in Ended
    BY <1>2 DEF CleanUp, Ended
  <2> QED BY <1>0, <2>1, Stops
<1> QED BY <1>1, <1>2

\* Only an index without a result is deleted: its run created it.
LEMMA DeleteIndexStep ==
  ASSUME Inv, NEW r \in Runs, DeleteIndex(r), Beside
  PROVE  Inv'
<1>0. /\ Underway(r) /\ Goto(r, "failed") /\ "failed" \in Ended
      /\ index' \in {index, Absent} /\ UNCHANGED <<affected, serving, receipts, manifest, results>>
  BY DEF DeleteIndex, Underway, Ended
<1>1. CASE index' = index
  <2>1. Quiet
    BY <1>0, <1>1 DEF Quiet, Beside
  <2> QED BY <1>0, <2>1, Stops
<1>2. CASE index' = Absent
  <2>1. results = {} /\ results' = {}
    BY <1>0 DEF DeleteIndex, Inv, Promised, Placed
  <2>2. DOMAIN index'.docs = {} /\ IndexOK'
    BY <1>2, NoDocs
  <2>3. DocsOK' /\ ReceiptsOK'
    BY <1>0, <2>2 DEF Inv, DocsOK, ReceiptsOK, Applied, Incremental, Beside
  <2>4. /\ bld' = [bld EXCEPT ![r] = bld'[r]] /\ bld'[r] \in Invocation /\ Placed(bld[r])'
    <3>1. "failed" \in Phases
      BY DEF Phases, Ended
    <3>2. /\ bld' = [bld EXCEPT ![r] = bld'[r]] /\ bld'[r] \in Invocation
          /\ bld'[r].pc = "failed"
      BY <1>0, <3>1, GotoIs
    <3> QED BY <1>0, <3>2, StopsOK
  <2> QED BY <1>0, <2>1, <2>2, <2>3, <2>4, BuilderMoves DEF Beside
<1> QED BY <1>0, <1>1, <1>2

LEMMA BuildKeeps ==
  ASSUME BuildConstants, Serialized, Inv, Build
  PROVE  Inv'
<1>1. Beside /\ (StartsOver => StaleReceipts)
  BY DEF Build, Beside
<1>2. PICK r \in Runs : Builds(r) \/ Raises(r) \/ Killed(r)
  BY DEF Build, BuildStep
<1>3. CASE \E part \in bld[r].todo : IndexPartition(r, part)
  BY <1>1, <1>3, SkipStep, WriteStep, PublishStep DEF IndexPartition
<1>4. CASE \/ Ensure(r) \/ CheckBaseline(r) \/ Reindex(r) \/ Rename(r) \/ Seal(r) \/ Collect(r)
  BY <1>1, <1>4, EnsureStep, CheckBaselineStep, ReindexStep, RenameStep, SealStep, CollectStep
<1>5. CASE \/ PublishManifest(r) \/ Recheck(r) \/ PublishResult(r) \/ CleanUp(r) \/ DeleteIndex(r)
  BY <1>1, <1>5, PublishManifestStep, RecheckStep, PublishResultStep, CleanUpStep, DeleteIndexStep
<1>6. CASE Raises(r) \/ Killed(r)
  BY <1>1, <1>6, RaisesStep, KilledStep
<1> QED BY <1>2, <1>3, <1>4, <1>5, <1>6 DEF Builds

\* ---------------------------------------------------- the workflows and the operators

\* The index and what stands for it are not touched.
Aside == UNCHANGED <<affected, index, receipts, serving, results, bld, byHand>>

LEMMA WorkflowMoves ==
  ASSUME Inv, Aside, wf' \in [Runs -> Projection],
         byHand # {} => wf' = wf,
         \A r \in Runs : Underway(r) /\ r \in jobs => r \in jobs',
         validated' # None => results # {},
         \A w \in Runs : wf'[w].pc = "validate" => results # {}
  PROVE  Inv'
<1>1. TypesOK' /\ DocsOK' /\ ReceiptsOK'
  BY DEF Inv, TypesOK, IndexOK, DocsOK, ReceiptsOK, Applied, Upserts, Deletes, TargetKeys,
         TargetDoc, KeysOf, Incremental, Aside
<1>2. OneBuilder'
  BY DEF Inv, OneBuilder, Underway, Aside
<1>3. IndexIsRelease' = IndexIsRelease /\ Incremental' = Incremental
  BY DEF IndexIsRelease, Release, TargetKeys, TargetDoc, Upserts, Deletes, Incremental, Aside
<1>4. ASSUME NEW r \in Runs PROVE Placed(bld[r])'
  <2>1. \A p : Applied(p) => Applied(p)'
    BY DEF Applied, KeysOf, Upserts, TargetDoc, Aside
  <2>2. \A op : PartsOf(op)' = PartsOf(op)
    BY DEF PartsOf
  <2>3. Placed(bld[r]) /\ UNCHANGED <<bld, receipts>>
    BY DEF Inv, Aside
  <2>4. bld[r].pc = "bulk" => Settling(bld[r])'
    BY <1>3, <2>1, <2>2, <2>3 DEF Placed, Settling
  <2> QED BY <1>3, <2>3, <2>4 DEF Placed
<1>5. Promised'
  BY <1>3 DEF Inv, Promised, Underway, Aside
<1> QED BY <1>1, <1>2, <1>4, <1>5 DEF Inv

\* One workflow moves; it validates only what has a result.
LEMMA OneWorkflow ==
  ASSUME Inv, Aside, NEW w \in Runs, byHand = {} \/ wf[w].pc # "idle",
         wf' = [wf EXCEPT ![w] = wf'[w]], wf'[w] \in Projection,
         wf'[w].pc = "validate" => results # {},
         \A r \in Runs : Underway(r) /\ r \in jobs => r \in jobs',
         validated' # None => results # {}
  PROVE  Inv'
<1>1. byHand = {}
  BY DEF Inv, OneBuilder
<1>2. wf' \in [Runs -> Projection] /\ \A v \in Runs : v # w => wf'[v] = wf[v]
  BY DEF Inv, TypesOK
<1>3. \A v \in Runs : wf'[v].pc = "validate" => results # {}
  BY <1>2 DEF Inv, Promised
<1> QED BY <1>1, <1>2, <1>3, WorkflowMoves

\* To and Retry move one workflow to a phase, or end it.
LEMMA ToIs ==
  ASSUME wf \in [Runs -> Projection], NEW w \in Runs,
         NEW pc \in {"lookup", "list", "create", "wait", "validate", "done", "failed"}, To(w, pc)
  PROVE  wf' = [wf EXCEPT ![w] = wf'[w]] /\ wf'[w] \in Projection /\ wf'[w].pc = pc
<1>1. wf'[w] = [wf[w] EXCEPT !.pc = pc]
  BY DEF To
<1>2. wf' = [wf EXCEPT ![w] = wf'[w]]
  BY <1>1 DEF To
<1>3. wf[w] \in Projection
  OBVIOUS
<1> QED BY <1>1, <1>2, <1>3 DEF Projection

LEMMA RetryIs ==
  ASSUME wf \in [Runs -> Projection], NEW w \in Runs,
         NEW first \in {"lookup", "validate"}, Retry(w, first)
  PROVE  /\ wf' = [wf EXCEPT ![w] = wf'[w]] /\ wf'[w] \in Projection
         /\ wf'[w].pc \in {first, "failed"}
<1>1. wf[w] \in Projection
  OBVIOUS
<1>2. CASE wf[w].left > 0
  <2>1. wf' = [wf EXCEPT ![w].pc = first, ![w].left = wf[w].left - 1]
    BY <1>2 DEF Retry
  <2>2. wf'[w] = [wf[w] EXCEPT !.pc = first, !.left = wf[w].left - 1]
    BY <2>1
  <2>3. wf' = [wf EXCEPT ![w] = wf'[w]]
    BY <2>1, <2>2
  <2>4. wf[w].left - 1 \in Nat
    BY <1>1, <1>2 DEF Projection
  <2> QED BY <1>1, <2>2, <2>3, <2>4 DEF Projection
<1>3. CASE ~(wf[w].left > 0)
  <2>1. To(w, "failed")
    BY <1>3 DEF Retry
  <2> QED BY <2>1, ToIs
<1> QED BY <1>2, <1>3

LEMMA ValidatingIs ==
  ASSUME wf \in [Runs -> Projection], NEW w \in Runs, Validating(w), ProjectionConstants
  PROVE  wf' = [wf EXCEPT ![w] = wf'[w]] /\ wf'[w] \in Projection
<1>1. wf'[w] = [wf[w] EXCEPT !.pc = "validate", !.left = ValidateAttempts - 1]
  BY DEF Validating
<1>2. wf' = [wf EXCEPT ![w] = wf'[w]]
  BY <1>1 DEF Validating
<1>3. wf[w] \in Projection /\ ValidateAttempts - 1 \in Nat
  BY DEF ProjectionConstants
<1> QED BY <1>1, <1>2, <1>3 DEF Projection

\* A run begins while no other is underway, as the operators' mode or in full.
LEMMA BeginIs ==
  ASSUME Inv, NEW r \in Runs, NEW mode \in {"FULL", "INCREMENTAL"}, Begin(r, mode),
         \A q \in Runs : ~Underway(q),
         mode = IF Incremental THEN "INCREMENTAL" ELSE "FULL",
         UNCHANGED byHand
  PROVE  /\ bld' \in [Runs -> Invocation]
         /\ \A q \in Runs : Underway(q)' => q = r /\ ~bld'[q].created
         /\ \A q \in Runs : Placed(bld[q])'
         /\ IndexOK' /\ DocsOK' /\ ReceiptsOK' /\ (IndexIsRelease => IndexIsRelease')
<1>0. bld \in [Runs -> Invocation] /\ UNCHANGED <<affected, index, serving, receipts, results>>
  BY DEF Begin, Inv, TypesOK
<1>1. IndexOK' /\ DocsOK' /\ ReceiptsOK' /\ (IndexIsRelease => IndexIsRelease')
  BY <1>0 DEF Inv, TypesOK, IndexOK, DocsOK, ReceiptsOK, Applied, Upserts, Deletes, TargetKeys,
              TargetDoc, KeysOf, Incremental, IndexIsRelease, Release
<1>2. /\ bld' = [bld EXCEPT ![r] = bld'[r]] /\ bld'[r] \in Invocation
      /\ Placed(bld[r])' /\ (Underway(r)' => ~bld'[r].created)
  <2>1. CASE bld' = [bld EXCEPT ![r] = [Idle EXCEPT !.pc = "ensure", !.mode = mode]]
    <3>1. bld'[r] = [Idle EXCEPT !.pc = "ensure", !.mode = mode]
      BY <1>0, <2>1
    <3>2. bld' = [bld EXCEPT ![r] = bld'[r]]
      BY <2>1, <3>1
    <3>3. /\ bld'[r] \in Invocation /\ bld'[r].pc = "ensure" /\ bld'[r].mode = mode
          /\ ~bld'[r].failed /\ bld'[r].wrote = {} /\ bld'[r].op = "FULL" /\ ~bld'[r].created
      BY <3>1 DEF Idle, Invocation, Phases, Guarded, Ops
    <3>4. Incremental' = Incremental
      BY DEF Incremental
    <3> QED BY <3>2, <3>3, <3>4 DEF Placed
  <2>2. CASE Goto(r, "failed")
    <3>1. "failed" \in Phases /\ "failed" \in Ended
      BY DEF Phases, Ended
    <3>2. /\ bld' = [bld EXCEPT ![r] = bld'[r]] /\ bld'[r] \in Invocation
          /\ bld'[r].pc = "failed"
      BY <2>2, <3>1, GotoIs
    <3> QED BY <3>1, <3>2, StopsOK DEF Underway
  <2> QED BY <2>1, <2>2 DEF Begin
<1>3. \A q \in Runs : q # r => bld'[q] = bld[q] /\ bld[q].pc \in Ended \cup {"idle"}
  BY <1>0, <1>2 DEF Underway
<1>4. ASSUME NEW q \in Runs PROVE Placed(bld[q])'
  <2>1. CASE q = r
    BY <1>2, <2>1
  <2>2. CASE q # r
    BY <1>3, <2>2, StopsOK DEF Placed, Guarded, Ended
  <2> QED BY <2>1, <2>2
<1>5. \A q \in Runs : Underway(q)' => q = r /\ ~bld'[q].created
  BY <1>2, <1>3 DEF Underway
<1> QED BY <1>0, <1>1, <1>2, <1>4, <1>5

LEMMA CreateJobStep ==
  ASSUME Serialized, Inv, NEW w \in Runs, CreateJob(w)
  PROVE  Inv'
<1>0. /\ wf[w].pc = "create" /\ byHand = {} /\ byHand' = byHand /\ validated' = validated
      /\ wf \in [Runs -> Projection]
  BY DEF CreateJob, Inv, OneBuilder, TypesOK
<1>1. CASE \E j \in jobs : SameName(j, w)
  <2>1. Aside /\ jobs' = jobs /\ (To(w, "wait") \/ Retry(w, "lookup"))
    BY <1>0, <1>1 DEF CreateJob, Aside, buildVars
  <2>2. /\ wf' = [wf EXCEPT ![w] = wf'[w]] /\ wf'[w] \in Projection
        /\ wf'[w].pc \in {"wait", "lookup", "failed"}
    BY <1>0, <2>1, ToIs, RetryIs
  <2>3. validated' # None => results # {}
    BY <1>0 DEF Inv, Promised
  <2> QED BY <1>0, <2>1, <2>2, <2>3, OneWorkflow
<1>2. CASE ~\E j \in jobs : SameName(j, w)
  <2>1. /\ jobs' = jobs \cup {w} /\ Begin(w, "FULL")
        /\ To(w, "wait") \/ Retry(w, "lookup")
    BY <1>2 DEF CreateJob
  <2>2. \A q \in Runs : ~Underway(q)
    BY <1>0, <1>2 DEF CreateJob, Serialized, Alone, Inv, OneBuilder
  <2>3. ~Incremental /\ ~Incremental'
    BY <1>0 DEF Incremental
  <2>4. /\ bld' \in [Runs -> Invocation]
        /\ \A q \in Runs : Underway(q)' => q = w /\ ~bld'[q].created
        /\ \A q \in Runs : Placed(bld[q])'
        /\ IndexOK' /\ DocsOK' /\ ReceiptsOK' /\ (IndexIsRelease => IndexIsRelease')
    BY <1>0, <2>1, <2>2, <2>3, BeginIs
  <2>5. /\ wf' = [wf EXCEPT ![w] = wf'[w]] /\ wf'[w] \in Projection
        /\ wf'[w].pc \in {"wait", "lookup", "failed"}
    BY <1>0, <2>1, ToIs, RetryIs
  <2>6. UNCHANGED <<affected, serving, results>>
    BY <2>1 DEF Begin
  <2>7. TypesOK' /\ OneBuilder'
    BY <1>0, <2>1, <2>4, <2>5, <2>6 DEF Inv, TypesOK, OneBuilder
  <2>8. Promised'
    BY <1>0, <2>3, <2>4, <2>5, <2>6 DEF Inv, Promised, TypesOK
  <2> QED BY <2>4, <2>7, <2>8 DEF Inv
<1> QED BY <1>1, <1>2

LEMMA RunByHandStep ==
  ASSUME Inv, NEW r \in Runs, RunByHand(r)
  PROVE  Inv'
<1>1. PICK mode \in byHand : Begin(r, mode)
  BY DEF RunByHand
<1>2. /\ results = {} /\ (\A q \in Runs : ~Underway(q)) /\ byHand # {}
      /\ UNCHANGED <<byHand, jobs, validated, wf>>
  BY <1>1 DEF RunByHand
<1>3. mode \in {"FULL", "INCREMENTAL"} /\ mode = IF Incremental THEN "INCREMENTAL" ELSE "FULL"
  BY <1>1 DEF Inv, TypesOK, Incremental
<1>4. /\ bld' \in [Runs -> Invocation]
      /\ \A q \in Runs : Underway(q)' => q = r /\ ~bld'[q].created
      /\ \A q \in Runs : Placed(bld[q])'
      /\ IndexOK' /\ DocsOK' /\ ReceiptsOK' /\ (IndexIsRelease => IndexIsRelease')
  BY <1>1, <1>2, <1>3, BeginIs
<1>5. UNCHANGED <<affected, serving, results>>
  BY <1>1 DEF Begin
<1>6. TypesOK' /\ OneBuilder'
  BY <1>2, <1>4, <1>5 DEF Inv, TypesOK, OneBuilder
<1>7. Promised'
  BY <1>2, <1>5 DEF Inv, Promised
<1> QED BY <1>4, <1>6, <1>7 DEF Inv

\* The other steps of the workflows.
LEMMA WorkflowStep ==
  ASSUME ProjectionConstants, Inv, NEW w \in Runs,
         \/ Start(w) \/ LookUp(w) \/ ListJobs(w) \/ WaitForJob(w) \/ Validate(w)
         \/ TimesOut(w) \/ JobExpires(w)
  PROVE  Inv'
<1>0. /\ wf \in [Runs -> Projection]
      /\ validated # None => results # {}
      /\ wf[w].pc = "validate" => results # {}
  BY DEF Inv, TypesOK, Promised
<1> DEFINE Moves(pcs) ==
      wf' = [wf EXCEPT ![w] = wf'[w]] /\ wf'[w] \in Projection /\ wf'[w].pc \in pcs
<1>1. ASSUME NEW pcs, Moves(pcs), Aside, byHand = {} \/ wf[w].pc # "idle", jobs' = jobs,
             "validate" \in pcs => results # {}, validated' # None => results # {}
      PROVE  Inv'
  BY <1>1, OneWorkflow
<1>2. CASE Start(w)
  <2>1. wf'[w] = [wf[w] EXCEPT !.pc = "lookup", !.left = LaunchAttempts - 1]
    BY <1>0, <1>2 DEF Start
  <2>2. wf' = [wf EXCEPT ![w] = wf'[w]]
    BY <1>0, <1>2, <2>1 DEF Start
  <2>3. wf[w] \in Projection /\ LaunchAttempts - 1 \in Nat
    BY <1>0 DEF ProjectionConstants
  <2>4. Moves({"lookup"})
    BY <2>1, <2>2, <2>3 DEF Projection
  <2> QED BY <1>0, <1>1, <1>2, <2>4 DEF Start, Aside, buildVars
<1>3. CASE LookUp(w)
  <2>1. Found(w) # {} => results # {}
    BY DEF Found
  <2>2. Aside /\ jobs' = jobs /\ validated' = validated /\ wf[w].pc # "idle"
    BY <1>3 DEF LookUp, Aside, buildVars
  <2>3. CASE Retry(w, "lookup") \/ To(w, "list")
    <3>1. Moves({"lookup", "list", "failed"})
      BY <1>0, <2>3, RetryIs, ToIs
    <3> QED BY <1>0, <1>1, <2>2, <3>1
  <2>4. CASE Found(w) # {} /\ Validating(w)
    <3>1. Moves({wf'[w].pc})
      BY <1>0, <2>4, ValidatingIs
    <3> QED BY <1>0, <1>1, <2>1, <2>2, <2>4, <3>1
  <2> QED BY <1>3, <2>3, <2>4 DEF LookUp
<1>4. CASE ListJobs(w)
  <2>1. Aside /\ jobs' = jobs /\ validated' = validated /\ wf[w].pc # "idle"
    BY <1>4 DEF ListJobs, Aside, buildVars
  <2>2. To(w, "create") \/ Retry(w, "lookup")
    BY <1>4 DEF ListJobs
  <2>3. Moves({"create", "lookup", "failed"})
    BY <1>0, <2>2, RetryIs, ToIs
  <2> QED BY <1>0, <1>1, <2>1, <2>3
<1>5. CASE WaitForJob(w)
  <2>1. Found(w) # {} => results # {}
    BY DEF Found
  <2>2. Aside /\ jobs' = jobs /\ validated' = validated /\ wf[w].pc # "idle"
    BY <1>5 DEF WaitForJob, Aside, buildVars
  <2>3. CASE Retry(w, "lookup") \/ To(w, "failed")
    <3>1. Moves({"lookup", "failed"})
      BY <1>0, <2>3, RetryIs, ToIs
    <3> QED BY <1>0, <1>1, <2>2, <3>1
  <2>4. CASE Found(w) # {} /\ Validating(w)
    <3>1. Moves({wf'[w].pc})
      BY <1>0, <2>4, ValidatingIs
    <3> QED BY <1>0, <1>1, <2>1, <2>2, <2>4, <3>1
  <2> QED BY <1>5, <2>3, <2>4 DEF WaitForJob
<1>6. CASE Validate(w)
  <2>1. Aside /\ jobs' = jobs /\ wf[w].pc = "validate"
    BY <1>6 DEF Validate, Aside, buildVars
  <2>2. To(w, "done") \/ Retry(w, "validate")
    BY <1>6 DEF Validate
  <2>3. Moves({"done", "validate", "failed"})
    BY <1>0, <2>2, RetryIs, ToIs
  <2> QED BY <1>0, <1>1, <2>1, <2>3
<1>7. CASE TimesOut(w)
  <2>1. Aside /\ jobs' = jobs /\ validated' = validated /\ wf[w].pc # "idle"
    BY <1>7 DEF TimesOut, Aside, buildVars
  <2>2. CASE Retry(w, "lookup")
    <3>1. Moves({"lookup", "failed"})
      BY <1>0, <2>2, RetryIs
    <3> QED BY <1>0, <1>1, <2>1, <3>1
  <2>3. CASE wf[w].pc = "validate" /\ Retry(w, "validate")
    <3>1. Moves({"validate", "failed"})
      BY <1>0, <2>3, RetryIs
    <3> QED BY <1>0, <1>1, <2>1, <2>3, <3>1
  <2> QED BY <1>7, <2>2, <2>3 DEF TimesOut
<1>8. CASE JobExpires(w)
  <2>1. Aside /\ wf' = wf /\ validated' = validated /\ jobs' = jobs \ {w} /\ ~Underway(w)
    BY <1>8 DEF JobExpires, Aside, buildVars
  <2> QED BY <1>0, <2>1, WorkflowMoves DEF Inv, Promised
<1> QED BY <1>2, <1>3, <1>4, <1>5, <1>6, <1>7, <1>8

LEMMA ValidateByHandStep ==
  ASSUME Inv, NEW r \in Runs, ValidateByHand(r)
  PROVE  Inv'
<1>1. Aside /\ wf' = wf /\ jobs' = jobs /\ results # {}
  BY DEF ValidateByHand, Aside, buildVars
<1> QED BY <1>1, WorkflowMoves DEF Inv, TypesOK, Promised

\* The alias goes to the index only when it was validated, hence has a result.
LEMMA MoveAliasStep ==
  ASSUME Inv, MoveAlias
  PROVE  Inv'
<1>0. UNCHANGED <<affected, index, receipts, results, bld, byHand, jobs, validated, wf>>
  BY DEF MoveAlias
<1>1. serving' = "target" => results' # {}
  BY <1>0 DEF MoveAlias, Inv, Promised
<1>2. TypesOK' /\ DocsOK' /\ ReceiptsOK' /\ OneBuilder'
  BY <1>0 DEF Inv, TypesOK, IndexOK, DocsOK, ReceiptsOK, Applied, Upserts, Deletes, TargetKeys,
              TargetDoc, KeysOf, Incremental, OneBuilder, Underway
<1>3. IndexIsRelease' = IndexIsRelease /\ Incremental' = Incremental
  BY <1>0 DEF IndexIsRelease, Release, TargetKeys, TargetDoc, Upserts, Deletes, Incremental
<1>4. \A p : Applied(p) => Applied(p)'
  BY <1>0 DEF Applied, KeysOf, Upserts, TargetDoc
<1>5. ASSUME NEW r \in Runs PROVE Placed(bld[r])'
  <2>1. Placed(bld[r]) /\ UNCHANGED <<bld, receipts>>
    BY <1>0 DEF Inv
  <2>2. bld[r].pc = "bulk" => Settling(bld[r])'
    BY <1>3, <1>4, <2>1 DEF Placed, Settling, PartsOf
  <2> QED BY <1>3, <2>1, <2>2 DEF Placed
<1>6. Promised'
  BY <1>0, <1>1, <1>3 DEF Inv, Promised, Underway
<1> QED BY <1>2, <1>5, <1>6 DEF Inv

\* -------------------------------------------------------------------- the theorems

LEMMA InvInit == Init => Inv
<1> SUFFICES ASSUME Init PROVE Inv
  OBVIOUS
<1>1. /\ affected \in Affected /\ index = Absent /\ serving = "base" /\ receipts = {}
      /\ results = {} /\ bld = [r \in Runs |-> Idle]
      /\ byHand \in {{}, {"FULL"}, {"INCREMENTAL"}} /\ validated = None
  BY DEF Init, BuildInit
<1>2. PICK flawed \in [Runs -> {{}} \cup {{f} : f \in Flaws}] :
        wf = [w \in Runs |-> [pc |-> "idle", left |-> 0, flaws |-> flawed[w]]]
  BY DEF Init
<1>3. wf \in [Runs -> Projection] /\ \A w \in Runs : wf[w].pc = "idle"
  <2>1. \A w \in Runs : flawed[w] \in SUBSET Flaws
    OBVIOUS
  <2> QED BY <1>2, <2>1 DEF Projection
<1>4. Idle \in Invocation
  BY DEF Idle, Invocation, Phases, Ops
<1>5. DOMAIN index.docs = {} /\ IndexOK
  <2>1. DOMAIN <<>> = {}
    OBVIOUS
  <2>2. index.docs = <<>> /\ index \in [exists : BOOLEAN, mapped : BOOLEAN, docs : {index.docs}]
    BY <1>1 DEF Absent
  <2>3. \A S : <<>> \in [DOMAIN <<>> -> S]
    BY <2>1
  <2> QED BY <2>1, <2>2, <2>3 DEF IndexOK
<1>6. \A r \in Runs : bld[r].pc = "idle"
  BY <1>1 DEF Idle
<1> QED BY <1>1, <1>3, <1>4, <1>5, <1>6
        DEF Inv, TypesOK, OneBuilder, DocsOK, ReceiptsOK, Placed, Promised, Underway, Guarded

LEMMA InvNext ==
  ASSUME BuildConstants, ProjectionConstants, Serialized, Inv, [Next]_vars
  PROVE  Inv'
<1>1. CASE Build
  BY <1>1, BuildKeeps
<1>2. CASE MoveAlias
  BY <1>2, MoveAliasStep
<1>3. ASSUME NEW w \in Runs,
             Start(w) \/ Workflow(w) \/ TimesOut(w) \/ JobExpires(w) \/ RunByHand(w) \/ ValidateByHand(w)
      PROVE  Inv'
  BY <1>3, WorkflowStep, CreateJobStep, RunByHandStep, ValidateByHandStep DEF Workflow
<1>4. CASE UNCHANGED vars
  <2>1. Aside /\ UNCHANGED <<jobs, validated, wf>>
    BY <1>4 DEF vars, buildVars, Aside
  <2> QED BY <2>1, WorkflowMoves DEF Inv, TypesOK, Promised
<1> QED BY <1>1, <1>2, <1>3, <1>4 DEF Next

\* What the stored objects, the index and the invocations may be at any time.
THEOREM GoldIndexInvariant ==
  ASSUME Serialized
  PROVE  Spec => []Inv
<1>1. Init => Inv
  BY InvInit
<1>2. Inv /\ [Next]_vars => Inv'
  BY InvNext, BuildConstants, ProjectionConstants
<1> QED BY <1>1, <1>2, PTL DEF Spec

\* Every variable keeps its type.
THEOREM GoldIndexTypes ==
  ASSUME Serialized
  PROVE  Spec => []TypesOK
<1>1. Inv => TypesOK
  BY DEF Inv
<1> QED BY <1>1, GoldIndexInvariant, PTL

\* A stored result names an index that holds the release, whatever runs raised or
\* were killed before it and whichever of their receipts it believed.
THEOREM ResultsHold ==
  ASSUME Serialized
  PROVE  Spec => []ResultIsRelease
<1>1. Inv => ResultIsRelease
  BY DEF Inv, Promised, ResultIsRelease
<1> QED BY <1>1, GoldIndexInvariant, PTL

\* The read alias is on an index that holds the release, or not on this one.
THEOREM ServedHolds ==
  ASSUME Serialized
  PROVE  Spec => []ServedIsRelease
<1>1. Inv => ServedIsRelease
  BY DEF Inv, Promised, ServedIsRelease
<1> QED BY <1>1, GoldIndexInvariant, PTL
================================================================================
