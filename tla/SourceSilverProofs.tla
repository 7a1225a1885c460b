------------------------- MODULE SourceSilverProofs -------------------------
(* The Source Silver job, for any captured record sets, jobs, plans, images   *)
(* and group sizes: a checkpoint receipt names whole outputs of its group, by *)
(* the mapper of its identity, and a committed run is its record set.         *)
EXTENDS SourceSilver, FiniteSetTheorems, SequenceTheorems, WellFoundedInduction, TLAPS

\* ------------------------------------------------------ receipts and outputs

\* The shards of the group that a receipt is about.
GroupOf(key) ==
  LET shards == Shards(key[2][1])
  IN  SubSeq(shards, (key[3] - 1) * GroupSize + 1,
             IF key[3] * GroupSize < Len(shards) THEN key[3] * GroupSize ELSE Len(shards))

\* An attempt names the receipt it is made for; what it has written are rows of
\* that group, by the mapper of that identity.
OutputsOK ==
  \A a \in DOMAIN outputs :
    /\ DOMAIN outputs[a] \subseteq ToSet(DataTables)
    /\ \A t \in DOMAIN outputs[a] : outputs[a][t] = RowsOf(t, a[1][2][2], GroupOf(a[1]))

\* A receipt names an attempt at it that is complete.
ReceiptsOK ==
  \A key \in DOMAIN store :
    key[1] = "receipt" => HasOutputs(store[key].bytes) /\ store[key].bytes[1] = key

CheckpointInv == OutputsOK /\ ReceiptsOK

LEMMA TwoTables ==
  /\ ToSet(DataTables) = {"record", "field"}
  /\ Cardinality(ToSet(DataTables)) = 2 /\ IsFiniteSet(ToSet(DataTables))
  /\ Len(DataTables) = 2 /\ DOMAIN DataTables = 1..2
  /\ DataTables[1] = "record" /\ DataTables[2] = "field"
<1>1. ToSet(DataTables) = {"record", "field"}
  BY DEF ToSet, DataTables
<1>2. IsFiniteSet({"record"}) /\ Cardinality({"record"}) = 1
  BY FS_Singleton
<1>3. {"record"} \cup {"field"} = {"record", "field"} /\ "field" \notin {"record"}
  OBVIOUS
<1>4. IsFiniteSet({"record", "field"}) /\ Cardinality({"record", "field"}) = 2
  BY <1>2, <1>3, FS_AddElement
<1> QED BY <1>1, <1>4 DEF DataTables

\* Only the job of an attempt writes it, a table at a time and each with its rows;
\* a complete attempt is not written again.
LEMMA WriteOutputs ==
  ASSUME NEW j \in Jobs, OutputsOK, WriteTable(j)
  PROVE  OutputsOK' /\ \A a : HasOutputs(a) => HasOutputs(a)' /\ outputs'[a] = outputs[a]
<1> DEFINE a0 == Attempt(j)
           table == DataTables[NextOutput(j)]
           rows == RowsOf(table, Image(j).mapper, GroupShards(j, Group(j)))
           now == With(Written(j), table, rows)
<1>1. outputs' = With(outputs, a0, now) /\ content' = content
  BY DEF WriteTable
<1>2. /\ DOMAIN outputs' = DOMAIN outputs \cup {a0}
      /\ outputs'[a0] = now
      /\ \A a \in DOMAIN outputs : a # a0 => outputs'[a] = outputs[a]
  BY <1>1 DEF With
<1>3. /\ NextOutput(j) <= 2 /\ NextOutput(j) = Cardinality(DOMAIN Written(j)) + 1
      /\ DOMAIN Written(j) \subseteq ToSet(DataTables)
  BY TwoTables DEF WriteTable, NextOutput, Written, OutputsOK
<1>4. IsFiniteSet(DOMAIN Written(j)) /\ Cardinality(DOMAIN Written(j)) \in Nat
  BY <1>3, TwoTables, FS_Subset, FS_CardinalityType
<1>5. table \in ToSet(DataTables)
  <2>1. NextOutput(j) \in 1..2
    BY <1>3, <1>4
  <2> QED BY <2>1, TwoTables
<1>6. rows = RowsOf(table, a0[1][2][2], GroupOf(a0[1]))
  BY DEF Attempt, ReceiptKey, Checkpoint, GroupOf, GroupShards
<1>7. ~HasOutputs(a0)
  <2>1. HasOutputs(a0) => DOMAIN Written(j) = ToSet(DataTables)
    BY DEF HasOutputs, Written
  <2> QED BY <2>1, <1>3, TwoTables
<1>8. /\ DOMAIN now = DOMAIN Written(j) \cup {table}
      /\ now[table] = rows
      /\ \A t \in DOMAIN Written(j) : t # table => now[t] = Written(j)[t]
  BY DEF With
<1>9. \A t \in DOMAIN Written(j) :
        Written(j)[t] = RowsOf(t, a0[1][2][2], GroupOf(a0[1]))
  BY DEF Written, OutputsOK
<1> HIDE DEF a0, now, table, rows
<1>10. \A t \in DOMAIN now : now[t] = RowsOf(t, a0[1][2][2], GroupOf(a0[1]))
  BY <1>6, <1>8, <1>9
<1>11. \A key : GroupOf(key)' = GroupOf(key)
  BY <1>1 DEF GroupOf, Shards
<1>12. OutputsOK'
  <2> SUFFICES ASSUME NEW a \in DOMAIN outputs'
               PROVE  /\ DOMAIN outputs'[a] \subseteq ToSet(DataTables)
                      /\ \A t \in DOMAIN outputs'[a] :
                           outputs'[a][t] = RowsOf(t, a[1][2][2], GroupOf(a[1]))
    BY <1>11 DEF OutputsOK
  <2>1. CASE a = a0
    BY <2>1, <1>2, <1>3, <1>5, <1>8, <1>10
  <2>2. CASE a # a0
    BY <2>2, <1>2 DEF OutputsOK
  <2> QED BY <2>1, <2>2
<1>13. \A a : HasOutputs(a) => HasOutputs(a)' /\ outputs'[a] = outputs[a]
  BY <1>2, <1>7 DEF HasOutputs
<1> QED BY <1>12, <1>13

\* Whatever becomes of a publication, an object that is there stays, and a new one
\* says what was to be published.
LEMMA PublishedObjects ==
  ASSUME NEW objects, NEW key, NEW bytes, NEW writer,
         NEW o \in PublishOutcomes(objects, key, bytes, writer)
  PROVE  \/ o.objects = objects
         \/ /\ key \notin DOMAIN objects
            /\ DOMAIN o.objects = DOMAIN objects \cup {key}
            /\ o.objects[key].bytes = bytes
            /\ \A k \in DOMAIN objects : o.objects[k] = objects[k]
BY DEF PublishOutcomes, Outcome, Put, Version, NoRef

\* The receipt is published when the attempt has both tables.
LEMMA PublishedIsWhole ==
  ASSUME NEW j \in Jobs, OutputsOK, NextOutput(j) > Len(DataTables)
  PROVE  HasOutputs(Attempt(j))
<1>1. DOMAIN Written(j) \subseteq ToSet(DataTables) /\ Cardinality(DOMAIN Written(j)) + 1 > 2
  BY TwoTables DEF NextOutput, Written, OutputsOK
<1>2. Cardinality(DOMAIN Written(j)) \in Nat /\ Cardinality(DOMAIN Written(j)) <= 2
      /\ (Cardinality(DOMAIN Written(j)) = 2 => DOMAIN Written(j) = ToSet(DataTables))
  <2>1. IsFiniteSet(DOMAIN Written(j))
    BY <1>1, TwoTables, FS_Subset
  <2> QED BY <2>1, <1>1, TwoTables, FS_Subset, FS_CardinalityType
<1>3. DOMAIN Written(j) = ToSet(DataTables)
  BY <1>1, <1>2
<1>4. Attempt(j) \in DOMAIN outputs
  BY <1>3, TwoTables DEF Written
<1> QED BY <1>3, <1>4 DEF HasOutputs, Written

LEMMA ReceiptsKept ==
  ASSUME CheckpointInv, UNCHANGED <<content, store, outputs>>
  PROVE  CheckpointInv'
BY DEF CheckpointInv, OutputsOK, ReceiptsOK, HasOutputs, GroupOf, Shards

\* What the steps of a job do to its checkpoints.
LEMMA StoreStep ==
  ASSUME CheckpointInv, NEW j \in Jobs, UNCHANGED <<content, outputs>>,
         NEW key, NEW bytes, NEW writer,
         NEW o \in PublishOutcomes(store, key, bytes, writer), store' = o.objects,
         key[1] = "receipt" => HasOutputs(bytes) /\ bytes[1] = key
  PROVE  CheckpointInv'
<1>1. OutputsOK'
  BY DEF CheckpointInv, OutputsOK, GroupOf, Shards
<1>2. \A a : HasOutputs(a)' <=> HasOutputs(a)
  BY DEF HasOutputs
<1>3. \/ store' = store
      \/ /\ DOMAIN store' = DOMAIN store \cup {key}
         /\ store'[key].bytes = bytes
         /\ \A k \in DOMAIN store : store'[k] = store[k]
  BY PublishedObjects
<1>4. \A k \in DOMAIN store' :
        k[1] = "receipt" => HasOutputs(store'[k].bytes) /\ store'[k].bytes[1] = k
  BY <1>3 DEF CheckpointInv, ReceiptsOK
<1>5. ReceiptsOK'
  BY <1>2, <1>4 DEF ReceiptsOK, HasOutputs
<1> QED BY <1>1, <1>5 DEF CheckpointInv

LEMMA CheckpointStep ==
  ASSUME CheckpointInv, [SilverNext]_silverVars
  PROVE  CheckpointInv'
<1>1. CASE QuietDeploy \/ UNCHANGED silverVars
  BY <1>1, ReceiptsKept DEF QuietDeploy, silverVars
<1>2. ASSUME NEW j \in Jobs, Submit(j) \/ Fails(j) \/ Works(j)
      PROVE  CheckpointInv'
  <2>1. CASE \/ Submit(j) \/ Fails(j) \/ Open(j) \/ BindShards(j) \/ ReuseGroup(j)
             \/ MapGroup(j) \/ TakeWinner(j) \/ AllMapped(j) \/ LandOutput(j) \/ CommitBatch(j)
    BY <2>1, ReceiptsKept
    DEF Submit, Fails, Open, BindShards, ReuseGroup, MapGroup, TakeWinner, AllMapped, LandOutput,
        CommitBatch, JobOnly
  <2>2. ASSUME NEW s, StageShard(j, s) PROVE CheckpointInv'
    <3> DEFINE key == ShardKey(Shards(Set(j))[s])
    <3>1. PICK o \in PublishOutcomes(store, key, Shards(Set(j))[s].keys, 1) : store' = o.objects
      BY <2>2 DEF StageShard
    <3>2. key[1] # "receipt"
      BY DEF ShardKey
    <3>3. UNCHANGED <<content, outputs>>
      BY <2>2 DEF StageShard
    <3> HIDE DEF key
    <3> QED BY <3>1, <3>2, <3>3, StoreStep
  <2>3. ASSUME NEW s, ReuseShard(j, s) PROVE CheckpointInv'
    BY <2>3, ReceiptsKept DEF ReuseShard, JobOnly
  <2>4. CASE WriteTable(j)
    <3>1. OutputsOK' /\ \A a : HasOutputs(a) => HasOutputs(a)'
      BY <2>4, WriteOutputs DEF CheckpointInv
    <3>2. ReceiptsOK'
      <4>1. store' = store
        BY <2>4 DEF WriteTable
      <4>2. \A k \in DOMAIN store : k[1] = "receipt" =>
              HasOutputs(store[k].bytes)' /\ store[k].bytes[1] = k
        <5>1. ASSUME NEW k \in DOMAIN store, k[1] = "receipt"
              PROVE  HasOutputs(store[k].bytes)' /\ store[k].bytes[1] = k
          <6>1. PICK a : a = store[k].bytes
            OBVIOUS
          <6>2. HasOutputs(a) /\ a[1] = k
            BY <5>1, <6>1 DEF CheckpointInv, ReceiptsOK
          <6>3. HasOutputs(a)'
            BY <3>1, <6>2
          <6> QED BY <4>1, <6>1, <6>2, <6>3 DEF HasOutputs
        <5> QED BY <5>1
      <4> QED BY <4>1, <4>2 DEF ReceiptsOK
    <3> QED BY <3>1, <3>2 DEF CheckpointInv
  <2>5. CASE PublishReceipt(j)
    <3> DEFINE key == ReceiptKey(j, Group(j))
               mine == Attempt(j)
    <3>1. PICK o \in PublishOutcomes(store, key, mine, j) : store' = o.objects
      BY <2>5 DEF PublishReceipt
    <3>2. HasOutputs(mine) /\ mine[1] = key
      BY <2>5, PublishedIsWhole DEF PublishReceipt, CheckpointInv, Attempt
    <3>3. UNCHANGED <<content, outputs>>
      BY <2>5 DEF PublishReceipt
    <3> HIDE DEF key, mine
    <3> QED BY <3>1, <3>2, <3>3, StoreStep
  <2> QED BY <1>2, <2>1, <2>2, <2>3, <2>4, <2>5 DEF Works
<1> QED BY <1>1, <1>2 DEF SilverNext

\* A receipt is trusted for its name alone: it names complete outputs, which are
\* the rows of its group by the mapper of its identity.
THEOREM CheckpointsStayWhole == SilverSpec => []CheckpointsAreWhole
<1>1. SilverInit => CheckpointInv
  BY DEF SilverInit, CheckpointInv, OutputsOK, ReceiptsOK
<1>2. CheckpointInv /\ [SilverNext]_silverVars => CheckpointInv'
  BY CheckpointStep
<1>3. CheckpointInv => CheckpointsAreWhole
  <2> SUFFICES ASSUME CheckpointInv, NEW key \in DOMAIN store, key[1] = "receipt"
               PROVE  /\ HasOutputs(store[key].bytes)
                      /\ \A n \in DOMAIN DataTables :
                           outputs[store[key].bytes][DataTables[n]]
                             = RowsOf(DataTables[n], key[2][2], GroupOf(key))
    BY DEF CheckpointsAreWhole, GroupOf
  <2>1. HasOutputs(store[key].bytes) /\ store[key].bytes[1] = key
    BY DEF CheckpointInv, ReceiptsOK
  <2> QED BY <2>1, TwoTables DEF CheckpointInv, OutputsOK, HasOutputs
<1> QED BY <1>1, <1>2, <1>3, PTL DEF SilverSpec

\* ------------------------------------------------------- sequences in sequence

\* A set of numbers has a least one.
Below == {p \in Nat \X Nat : p[1] < p[2]}

LEMMA LeastNumber ==
  ASSUME NEW S \in SUBSET Nat, S # {}
  PROVE  \E n \in S : \A m \in S : n <= m
<1>1. IsWellFoundedOn(Below, Nat)
  BY NatLessThanWellFounded DEF OpToRel, Below
<1>2. PICK n \in S : \A m \in S : ~(<<m, n>> \in Below)
  BY <1>1, WFMin
<1>3. \A m \in S : ~(m < n)
  BY <1>2 DEF Below
<1> QED BY <1>3

\* The prefixes of s, concatenated: the recursion of FlattenSeq.
Concats(f, s, n) == f = [i \in 1..n |-> IF i = 1 THEN s[i] ELSE f[i - 1] \o s[i]]

LEMMA ConcatsExist ==
  ASSUME NEW s, NEW N \in Nat
  PROVE  \E f : Concats(f, s, N)
<1> DEFINE bad == {n \in Nat : ~ \E f : Concats(f, s, n)}
<1>1. SUFFICES ASSUME bad # {} PROVE FALSE
  OBVIOUS
<1>2. PICK n \in bad : \A m \in bad : n <= m
  BY <1>1, LeastNumber
<1>3. CASE n = 0
  <2> DEFINE f == [i \in 1..0 |-> s[i]]
  <2>1. 1..0 = {}
    OBVIOUS
  <2>2. f = [i \in 1..0 |-> IF i = 1 THEN s[i] ELSE f[i - 1] \o s[i]]
    BY <2>1
  <2> QED BY <1>2, <1>3, <2>2 DEF Concats
<1>4. CASE n # 0
  <2>1. n - 1 \in Nat /\ n - 1 \notin bad /\ n \in Nat
    BY <1>2, <1>4
  <2>2. PICK f : Concats(f, s, n - 1)
    BY <2>1
  <2> DEFINE last == IF n = 1 THEN s[n] ELSE f[n - 1] \o s[n]
             g == [i \in 1..n |-> IF i = n THEN last ELSE f[i]]
  <2>3. \A i \in 1..(n - 1) : f[i] = IF i = 1 THEN s[i] ELSE f[i - 1] \o s[i]
    BY <2>1, <2>2 DEF Concats
  <2>4. g[n] = last /\ (n # 1 => g[n - 1] = f[n - 1])
    BY <2>1, <1>4
  <2>5. g[n] = IF n = 1 THEN s[n] ELSE g[n - 1] \o s[n]
    BY <2>4
  <2> HIDE DEF last
  <2>6. \A i \in 1..n : g[i] = IF i = 1 THEN s[i] ELSE g[i - 1] \o s[i]
    <3> SUFFICES ASSUME NEW i \in 1..n
                 PROVE  g[i] = IF i = 1 THEN s[i] ELSE g[i - 1] \o s[i]
      OBVIOUS
    <3>1. CASE i = n
      BY <3>1, <2>5
    <3>2. CASE i # n
      <4>1. i \in 1..(n - 1) /\ g[i] = f[i] /\ (i # 1 => g[i - 1] = f[i - 1])
        BY <3>2, <2>1
      <4> QED BY <4>1, <2>3
    <3> QED BY <3>1, <3>2
  <2>7. g = [i \in 1..n |-> IF i = 1 THEN s[i] ELSE g[i - 1] \o s[i]]
    BY <2>6, Zenon
  <2> QED BY <1>2, <2>7 DEF Concats
<1> QED BY <1>3, <1>4

LEMMA FlattenIs ==
  ASSUME NEW s, Len(s) \in Nat, Len(s) # 0
  PROVE  \E f : Concats(f, s, Len(s)) /\ FlattenSeq(s) = f[Len(s)]
<1> DEFINE F == CHOOSE f : Concats(f, s, Len(s))
<1>1. Concats(F, s, Len(s))
  BY ConcatsExist
<1>2. FlattenSeq(s) = F[Len(s)]
  BY DEF FlattenSeq, Concats
<1> QED BY <1>1, <1>2

\* The first n elements of a sequence of sequences, flattened.
First(s, n) == [i \in 1..n |-> s[i]]

\* The prefixes of fewer elements are prefixes of more.
LEMMA ConcatsAgree ==
  ASSUME NEW s, NEW n \in Nat, NEW f, NEW g,
         Concats(f, First(s, n + 1), n + 1), Concats(g, First(s, n), n)
  PROVE  \A i \in 1..n : f[i] = g[i]
<1> DEFINE bad == {i \in 1..n : f[i] # g[i]}
<1>0. bad \in SUBSET Nat
  OBVIOUS
<1>1. SUFFICES ASSUME bad # {} PROVE FALSE
  OBVIOUS
<1>2. PICK i \in bad : \A m \in bad : i <= m
  <2> HIDE DEF bad
  <2> QED BY <1>0, <1>1, LeastNumber
<1>3. /\ f[i] = IF i = 1 THEN s[i] ELSE f[i - 1] \o s[i]
      /\ g[i] = IF i = 1 THEN s[i] ELSE g[i - 1] \o s[i]
  <2>1. /\ \A k \in 1..(n + 1) : f[k] = IF k = 1 THEN First(s, n + 1)[k]
                                       ELSE f[k - 1] \o First(s, n + 1)[k]
        /\ \A k \in 1..n : g[k] = IF k = 1 THEN First(s, n)[k]
                                 ELSE g[k - 1] \o First(s, n)[k]
    BY DEF Concats
  <2>2. i \in 1..n /\ i \in 1..(n + 1)
    OBVIOUS
  <2>3. First(s, n + 1)[i] = s[i] /\ First(s, n)[i] = s[i]
    BY <2>2 DEF First
  <2> HIDE DEF bad
  <2> QED BY <2>1, <2>2, <2>3
<1>4. i # 1 => i - 1 \in 1..n /\ i - 1 \notin bad
  BY <1>2
<1>5. f[i] # g[i]
  OBVIOUS
<1>6. i # 1 => f[i - 1] = g[i - 1]
  BY <1>4
<1> HIDE DEF bad
<1> QED BY <1>3, <1>5, <1>6

LEMMA FlattenNothing == ASSUME NEW s PROVE FlattenSeq(First(s, 0)) = <<>>
<1>1. First(s, 0) = <<>>
  BY DEF First
<1> QED BY <1>1 DEF FlattenSeq

LEMMA FlattenNext ==
  ASSUME NEW S, NEW s, NEW n \in Nat, \A i \in 1..(n + 1) : s[i] \in Seq(S),
         FlattenSeq(First(s, n)) \in Seq(S)
  PROVE  FlattenSeq(First(s, n + 1)) = FlattenSeq(First(s, n)) \o s[n + 1]
<1>1. /\ Len(First(s, n + 1)) = n + 1 /\ Len(First(s, n)) = n
      /\ \A i \in 1..(n + 1) : First(s, n + 1)[i] = s[i]
      /\ \A i \in 1..n : First(s, n)[i] = s[i]
  BY DEF First
<1>2. PICK f : Concats(f, First(s, n + 1), n + 1) /\ FlattenSeq(First(s, n + 1)) = f[n + 1]
  BY <1>1, FlattenIs
<1>3. f[n + 1] = IF n + 1 = 1 THEN s[n + 1] ELSE f[n] \o s[n + 1]
  <2>1. \A i \in 1..(n + 1) : f[i] = IF i = 1 THEN First(s, n + 1)[i]
                                     ELSE f[i - 1] \o First(s, n + 1)[i]
    BY <1>2 DEF Concats
  <2>2. n + 1 \in 1..(n + 1) /\ (n + 1) - 1 = n
    OBVIOUS
  <2> QED BY <1>1, <2>1, <2>2
<1>4. CASE n = 0
  <2>1. FlattenSeq(First(s, n)) = <<>> /\ s[n + 1] \in Seq(S)
    BY <1>4, FlattenNothing
  <2>2. <<>> \o s[n + 1] = s[n + 1]
    BY <2>1
  <2> QED BY <1>2, <1>3, <1>4, <2>1, <2>2
<1>5. CASE n # 0
  <2>1. PICK g : Concats(g, First(s, n), n) /\ FlattenSeq(First(s, n)) = g[n]
    BY <1>1, <1>5, FlattenIs
  <2>3. f[n] = g[n]
    <3>3. \A i \in 1..n : f[i] = g[i]
      BY <1>2, <2>1, ConcatsAgree
    <3> QED BY <1>5, <3>3
  <2>4. n + 1 # 1
    BY <1>5
  <2>5. f[n + 1] = f[n] \o s[n + 1]
    BY <1>3, <2>4
  <2> QED BY <1>2, <2>1, <2>3, <2>5
<1> QED BY <1>4, <1>5

LEMMA FlattenType ==
  ASSUME NEW S, NEW s, NEW N \in Nat, \A i \in 1..N : s[i] \in Seq(S)
  PROVE  \A n \in 0..N : FlattenSeq(First(s, n)) \in Seq(S)
<1> DEFINE bad == {n \in 0..N : FlattenSeq(First(s, n)) \notin Seq(S)}
<1>0. bad \in SUBSET Nat
  OBVIOUS
<1>1. SUFFICES ASSUME bad # {} PROVE FALSE
  OBVIOUS
<1>2. PICK n \in bad : \A m \in bad : n <= m
  <2> HIDE DEF bad
  <2> QED BY <1>0, <1>1, LeastNumber
<1>3. n # 0
  <2>1. FlattenSeq(First(s, 0)) = <<>> /\ <<>> \in Seq(S)
    BY FlattenNothing
  <2>2. 0 \notin bad
    BY <2>1
  <2> QED BY <2>2
<1>4. n - 1 \in 0..N /\ n - 1 \notin bad /\ (n - 1) + 1 = n /\ n \in 1..N
  BY <1>2, <1>3
<1>5. FlattenSeq(First(s, n - 1)) \in Seq(S)
  BY <1>4
<1>6. FlattenSeq(First(s, n)) = FlattenSeq(First(s, n - 1)) \o s[n]
  <2>1. n - 1 \in Nat /\ \A i \in 1..((n - 1) + 1) : s[i] \in Seq(S)
    BY <1>4
  <2> HIDE DEF bad
  <2>2. FlattenSeq(First(s, (n - 1) + 1)) = FlattenSeq(First(s, n - 1)) \o s[(n - 1) + 1]
    BY <1>5, <2>1, FlattenNext
  <2> QED BY <1>4, <2>2
<1>7. FlattenSeq(First(s, n)) \in Seq(S)
  BY <1>4, <1>5, <1>6
<1> QED BY <1>2, <1>7

\* ---------------------------------------------------------- rows of the shards

\* The rows of shards a + 1 to b.
Lift(m, s) == [n \in DOMAIN s |-> <<m, s[n]>>]
One(t, m, keys) == IF t = "record" THEN keys ELSE Lift(m, keys)
RowSet(t, m) == IF t = "record" THEN STRING ELSE {m} \X STRING
Part(t, m, S, a, b) == RowsOf(t, m, SubSeq(S, a + 1, b))

LEMMA Concatenated ==
  ASSUME NEW T, NEW s, NEW u, s \in Seq(T), u \in Seq(T)
  PROVE  /\ s \o u \in Seq(T) /\ Len(s \o u) = Len(s) + Len(u)
         /\ \A n \in 1..(Len(s) + Len(u)) :
              (s \o u)[n] = IF n <= Len(s) THEN s[n] ELSE u[n - Len(s)]
BY ConcatProperties

LEMMA Regrouped ==
  ASSUME NEW T, NEW s, NEW u, NEW v, s \in Seq(T), u \in Seq(T), v \in Seq(T)
  PROVE  (s \o u) \o v = s \o (u \o v)
BY ConcatAssociative

LEMMA LiftType ==
  ASSUME NEW m, NEW s \in Seq(STRING)
  PROVE  Lift(m, s) \in Seq({m} \X STRING) /\ Len(Lift(m, s)) = Len(s)
BY DEF Lift

LEMMA LiftConcat ==
  ASSUME NEW m, NEW s, NEW u, s \in Seq(STRING), u \in Seq(STRING)
  PROVE  Lift(m, s \o u) = Lift(m, s) \o Lift(m, u)
<1>1. PICK T, v, ls, lu, lv :
        /\ T = {m} \X STRING /\ v = s \o u
        /\ ls = Lift(m, s) /\ lu = Lift(m, u) /\ lv = Lift(m, v)
  OBVIOUS
<1>2. /\ v \in Seq(STRING) /\ Len(v) = Len(s) + Len(u) /\ Len(s) \in Nat /\ Len(u) \in Nat
      /\ \A n \in 1..(Len(s) + Len(u)) : v[n] = IF n <= Len(s) THEN s[n] ELSE u[n - Len(s)]
  BY <1>1, Concatenated
<1>3. ls \in Seq(T) /\ lu \in Seq(T) /\ lv \in Seq(T)
  BY <1>1, <1>2, LiftType
<1>n. Len(ls) = Len(s) /\ Len(lu) = Len(u) /\ Len(lv) = Len(s) + Len(u)
  BY <1>1, <1>2, LiftType
<1>4. /\ \A n \in 1..Len(s) : ls[n] = <<m, s[n]>>
      /\ \A n \in 1..Len(u) : lu[n] = <<m, u[n]>>
      /\ \A n \in 1..(Len(s) + Len(u)) : lv[n] = <<m, v[n]>>
  BY <1>1, <1>2 DEF Lift
<1>5. PICK w : w = ls \o lu
  OBVIOUS
<1>6. /\ w \in Seq(T) /\ Len(w) = Len(ls) + Len(lu)
      /\ \A n \in 1..(Len(ls) + Len(lu)) : w[n] = IF n <= Len(ls) THEN ls[n] ELSE lu[n - Len(ls)]
  BY <1>3, <1>5, Concatenated
<1>7. ASSUME NEW n \in 1..(Len(s) + Len(u)) PROVE lv[n] = w[n]
  <2>1. n \in Int /\ w[n] = IF n <= Len(s) THEN ls[n] ELSE lu[n - Len(s)]
    BY <1>2, <1>6, <1>n
  <2>2. CASE n <= Len(s)
    <3>1. n \in 1..Len(s)
      BY <1>2, <2>2
    <3> QED BY <1>2, <1>4, <2>1, <2>2, <3>1
  <2>3. CASE ~(n <= Len(s))
    <3>1. n - Len(s) \in 1..Len(u)
      BY <1>2, <2>3
    <3> QED BY <1>2, <1>4, <2>1, <2>3, <3>1
  <2> QED BY <2>2, <2>3
<1>8. lv = w
  <2>1. Len(lv) = Len(w) /\ \A n \in 1..Len(lv) : lv[n] = w[n]
    BY <1>6, <1>7, <1>n
  <2> QED BY <1>3, <1>6, <2>1, SeqEqual
<1> QED BY <1>1, <1>5, <1>8

\* The keys of shards a + 1 to b, one shard more at a time.
LEMMA KeysNext ==
  ASSUME NEW S \in Seq(ShardType), NEW a \in Nat, NEW b \in Nat, a <= b, b <= Len(S)
  PROVE  /\ Part("record", 0, S, a, b) \in Seq(STRING)
         /\ a = b => Part("record", 0, S, a, b) = <<>>
         /\ b < Len(S) => /\ S[b + 1].keys \in Seq(STRING)
                          /\ Part("record", 0, S, a, b + 1)
                               = Part("record", 0, S, a, b) \o S[b + 1].keys
<1> DEFINE k == [i \in 1..(Len(S) - a) |-> S[a + i].keys]
<1>1. \A i \in 1..(Len(S) - a) : k[i] = S[a + i].keys /\ k[i] \in Seq(STRING)
  <2> SUFFICES ASSUME NEW i \in 1..(Len(S) - a) PROVE S[a + i].keys \in Seq(STRING)
    OBVIOUS
  <2>1. a + i \in 1..Len(S)
    OBVIOUS
  <2>2. S[a + i] \in ShardType
    BY <2>1
  <2> QED BY <2>2 DEF ShardType
<1>2. ASSUME NEW c \in Nat, a <= c, c <= Len(S)
      PROVE  Part("record", 0, S, a, c) = FlattenSeq(First(k, c - a))
  <2> DEFINE sub == SubSeq(S, a + 1, c)
  <2>1. DOMAIN sub = 1..(c - a) /\ \A i \in 1..(c - a) : sub[i] = S[a + i]
    BY <1>2
  <2> HIDE DEF sub
  <2>2. [i \in DOMAIN sub |-> sub[i].keys] = First(k, c - a)
    BY <1>2, <2>1 DEF First
  <2> QED BY <2>2 DEF Part, RowsOf, sub
<1> HIDE DEF k
<1>3. /\ b - a \in Nat /\ b - a \in 0..(Len(S) - a) /\ Len(S) - a \in Nat
      /\ b < Len(S) => /\ b + 1 \in Nat /\ a <= b + 1 /\ b + 1 <= Len(S)
                       /\ (b + 1) - a = (b - a) + 1
                       /\ (b - a) + 1 \in 1..(Len(S) - a) /\ a + ((b - a) + 1) = b + 1
  OBVIOUS
<1>4. Part("record", 0, S, a, b) = FlattenSeq(First(k, b - a))
  BY <1>2
<1>5. FlattenSeq(First(k, b - a)) \in Seq(STRING)
  <2> DEFINE N == Len(S) - a
  <2>1. N \in Nat /\ (\A i \in 1..N : k[i] \in Seq(STRING)) /\ b - a \in 0..N
    BY <1>1, <1>3
  <2> HIDE DEF N
  <2> QED BY <2>1, FlattenType
<1>6. a = b => FlattenSeq(First(k, b - a)) = <<>>
  BY FlattenNothing
<1>7. ASSUME b < Len(S)
      PROVE  /\ S[b + 1].keys \in Seq(STRING)
             /\ Part("record", 0, S, a, b + 1) = Part("record", 0, S, a, b) \o S[b + 1].keys
  <2> DEFINE n == b - a
  <2>1. n \in Nat /\ (\A i \in 1..(n + 1) : k[i] \in Seq(STRING)) /\ FlattenSeq(First(k, n)) \in Seq(STRING)
    BY <1>1, <1>3, <1>5, <1>7
  <2>2. k[n + 1] = S[b + 1].keys /\ k[n + 1] \in Seq(STRING)
    BY <1>1, <1>3, <1>7
  <2>3. Part("record", 0, S, a, b + 1) = FlattenSeq(First(k, n + 1))
    BY <1>2, <1>3, <1>7
  <2> HIDE DEF n
  <2>4. FlattenSeq(First(k, n + 1)) = FlattenSeq(First(k, n)) \o k[n + 1]
    BY <2>1, FlattenNext
  <2> QED BY <1>4, <2>2, <2>3, <2>4 DEF n
<1> QED BY <1>4, <1>5, <1>6, <1>7

\* So for the rows of either table.
LEMMA PartIs ==
  ASSUME NEW t, NEW m, NEW S, NEW a, NEW b
  PROVE  Part(t, m, S, a, b) = One(t, m, Part("record", 0, S, a, b))
BY DEF Part, RowsOf, One, Lift

Grows(t, m, S, a, b) ==
  /\ Part(t, m, S, a, b) \in Seq(RowSet(t, m))
  /\ a = b => Part(t, m, S, a, b) = <<>>
  /\ b < Len(S) => /\ One(t, m, S[b + 1].keys) \in Seq(RowSet(t, m))
                   /\ Part(t, m, S, a, b + 1)
                        = Part(t, m, S, a, b) \o One(t, m, S[b + 1].keys)

LEMMA PartNext ==
  ASSUME NEW t, NEW m, NEW S \in Seq(ShardType), NEW a \in Nat, NEW b \in Nat,
         a <= b, b <= Len(S)
  PROVE  Grows(t, m, S, a, b)
<1> DEFINE keys == Part("record", 0, S, a, b)
           next == Part("record", 0, S, a, b + 1)
           more == S[b + 1].keys
<1>1. /\ keys \in Seq(STRING) /\ (a = b => keys = <<>>)
      /\ b < Len(S) => more \in Seq(STRING) /\ next = keys \o more
  BY KeysNext
<1>2. Part(t, m, S, a, b) = One(t, m, keys) /\ Part(t, m, S, a, b + 1) = One(t, m, next)
  BY PartIs
<1> HIDE DEF keys, next, more
<1>3. CASE t = "record"
  BY <1>1, <1>2, <1>3 DEF Grows, One, RowSet, more, keys, next
<1>4. CASE t # "record"
  <2>1. Lift(m, <<>>) = <<>>
    BY DEF Lift
  <2>2. b < Len(S) => Lift(m, next) = Lift(m, keys) \o Lift(m, more)
    BY <1>1, LiftConcat
  <2>3. Lift(m, keys) \in Seq({m} \X STRING) /\ (b < Len(S) => Lift(m, more) \in Seq({m} \X STRING))
    BY <1>1, LiftType
  <2>4. /\ One(t, m, keys) \in Seq(RowSet(t, m)) /\ (a = b => One(t, m, keys) = <<>>)
        /\ b < Len(S) => /\ One(t, m, more) \in Seq(RowSet(t, m))
                         /\ One(t, m, next) = One(t, m, keys) \o One(t, m, more)
    BY <1>1, <1>4, <2>1, <2>2, <2>3 DEF One, RowSet
  <2> QED BY <1>2, <2>4 DEF Grows, keys, next, more
<1> QED BY <1>3, <1>4

\* The rows of consecutive shards follow each other.
LEMMA PartSplit ==
  ASSUME NEW t, NEW m, NEW S \in Seq(ShardType), NEW a \in Nat, NEW b \in Nat,
         a <= b, b <= Len(S)
  PROVE  Part(t, m, S, 0, b) = Part(t, m, S, 0, a) \o Part(t, m, S, a, b)
<1> DEFINE R == RowSet(t, m)
           left(n) == Part(t, m, S, 0, n)
           right(n) == Part(t, m, S, a, n)
           bad == {n \in a..b : left(n) # left(a) \o right(n)}
<1>0. bad \in SUBSET Nat
  OBVIOUS
<1>1. SUFFICES ASSUME bad # {} PROVE FALSE
  OBVIOUS
<1>2. PICK n \in bad : \A k \in bad : n <= k
  <2> HIDE DEF bad
  <2> QED BY <1>0, <1>1, LeastNumber
<1>3. /\ n \in a..b /\ n \in Nat /\ a <= n /\ n <= Len(S) /\ Len(S) \in Nat
      /\ left(n) # left(a) \o right(n)
  OBVIOUS
<1>4. left(a) \in Seq(R) /\ right(a) = <<>>
  <2>1. Grows(t, m, S, 0, a) /\ Grows(t, m, S, a, a)
    BY PartNext
  <2> QED BY <2>1 DEF Grows
<1>5. n # a
  <2>1. left(a) \o <<>> = left(a)
    BY <1>4, ConcatEmptySeq
  <2> QED BY <1>3, <1>4, <2>1
<1> DEFINE k == n - 1
           one == One(t, m, S[n].keys)
<1>6. k \in a..b /\ k \in Nat /\ a <= k /\ 0 <= k /\ k < Len(S) /\ k + 1 = n /\ ~(n <= k)
  <2> HIDE DEF bad
  <2> QED BY <1>3, <1>5
<1>b. k \notin bad
  <2> HIDE DEF bad, k
  <2> QED BY <1>2, <1>6
<1>7. left(k) = left(a) \o right(k)
  <2> HIDE DEF k
  <2> QED BY <1>6, <1>b
<1>8. /\ left(k) \in Seq(R) /\ one \in Seq(R) /\ left(n) = left(k) \o one
      /\ right(k) \in Seq(R) /\ right(n) = right(k) \o one
  <2>1. Grows(t, m, S, 0, k) /\ Grows(t, m, S, a, k) /\ k < Len(S) /\ k + 1 = n
    BY <1>6, PartNext
  <2> HIDE DEF k, bad
  <2> QED BY <2>1 DEF Grows
<1>9. (left(a) \o right(k)) \o one = left(a) \o (right(k) \o one)
  <2>1. PICK x, y, z : x = left(a) /\ y = right(k) /\ z = one
    OBVIOUS
  <2>2. x \in Seq(R) /\ y \in Seq(R) /\ z \in Seq(R)
    BY <1>4, <1>8, <2>1
  <2>3. (x \o y) \o z = x \o (y \o z)
    <3> HIDE DEF left, right, one, R, bad
    <3> QED BY <2>2, Regrouped
  <2> QED BY <2>1, <2>3
<1> HIDE DEF left, right, one, bad
<1> QED BY <1>3, <1>7, <1>8, <1>9

\* Where the groups of a record set of L shards end.
GroupEnd(L, G, h) == IF h * G < L THEN h * G ELSE L

LEMMA GroupCount ==
  ASSUME NEW L \in Nat, NEW G \in Nat \ {0}, NEW N, N = (L + G - 1) \div G
  PROVE  N \in Nat /\ N * G >= L /\ (N # 0 => (N - 1) * G < L)
<1> DEFINE a == L + G - 1
           r == a % G
<1>1. a \in Nat /\ G > 0
  OBVIOUS
<1>2. N \in Nat /\ r \in Nat /\ r < G /\ a = G * N + r
  <2> HIDE DEF a
  <2> QED BY <1>1 DEF a
<1>3. G * N = N * G /\ (N - 1) * G = N * G - G
  BY <1>2
<1>4. PICK p \in Int : p = N * G
  BY <1>2
<1> HIDE DEF r
<1> QED BY <1>2, <1>3, <1>4

LEMMA GroupEnds ==
  ASSUME NEW L \in Nat, NEW G \in Nat \ {0}, NEW N, N = (L + G - 1) \div G
  PROVE  /\ N \in Nat /\ GroupEnd(L, G, 0) = 0 /\ GroupEnd(L, G, N) = L
         /\ \A h \in 0..N : GroupEnd(L, G, h) \in 0..L
         /\ \A h \in 1..N : /\ GroupEnd(L, G, h - 1) = (h - 1) * G
                            /\ GroupEnd(L, G, h - 1) <= GroupEnd(L, G, h)
<1>1. N \in Nat /\ N * G >= L /\ (N # 0 => (N - 1) * G < L)
  BY GroupCount
<1>2. GroupEnd(L, G, 0) = 0
  BY DEF GroupEnd
<1>3. GroupEnd(L, G, N) = L
  BY <1>1 DEF GroupEnd
<1>4. ASSUME NEW h \in 0..N PROVE GroupEnd(L, G, h) \in 0..L
  <2>1. h * G \in Nat
    BY <1>1
  <2> QED BY <2>1 DEF GroupEnd
<1>5. ASSUME NEW h \in 1..N
      PROVE  /\ GroupEnd(L, G, h - 1) = (h - 1) * G
             /\ GroupEnd(L, G, h - 1) <= GroupEnd(L, G, h)
  <2>1. h \in Nat /\ h - 1 \in Nat /\ N - h \in Nat /\ N # 0
    BY <1>1
  <2>2. PICK x, y, z, u : x = (h - 1) * G /\ y = h * G /\ z = (N - 1) * G /\ u = (N - h) * G
    OBVIOUS
  <2>3. x \in Nat /\ y \in Nat /\ z \in Int /\ u \in Nat
    BY <1>1, <2>1, <2>2
  <2>4. y = x + G
    BY <2>1, <2>2
  <2>5. z = x + u
    BY <1>1, <2>1, <2>2
  <2>6. z < L
    BY <1>1, <2>1, <2>2
  <2>7. x < L /\ x <= y
    BY <2>3, <2>4, <2>5, <2>6
  <2> QED BY <2>2, <2>3, <2>7 DEF GroupEnd
<1> QED BY <1>1, <1>2, <1>3, <1>4, <1>5

\* The rows of all groups are the rows of the record set.
LEMMA GroupsAreAll ==
  ASSUME NEW t, NEW m, NEW S \in Seq(ShardType), NEW G \in Nat \ {0}, NEW N, NEW rows,
         N = (Len(S) + G - 1) \div G,
         \A h \in 1..N :
           rows[h] = Part(t, m, S, (h - 1) * G, GroupEnd(Len(S), G, h))
  PROVE  FlattenSeq(First(rows, N)) = RowsOf(t, m, S) /\ RowsOf(t, m, S) \in Seq(RowSet(t, m))
<1> DEFINE R == RowSet(t, m)
           E(h) == GroupEnd(Len(S), G, h)
           left(h) == Part(t, m, S, 0, E(h))
           right(h) == Part(t, m, S, E(h - 1), E(h))
           flat(h) == FlattenSeq(First(rows, h))
<1>1. /\ N \in Nat /\ E(0) = 0 /\ E(N) = Len(S) /\ Len(S) \in Nat
      /\ \A h \in 0..N : E(h) \in 0..Len(S)
      /\ \A h \in 1..N : E(h - 1) = (h - 1) * G /\ E(h - 1) <= E(h)
  BY GroupEnds
<1> HIDE DEF E
<1>2. \A h \in 1..N : rows[h] = right(h)
  BY <1>1 DEF E
<1>3. ASSUME NEW h \in 0..N PROVE left(h) \in Seq(R)
  <2>1. E(h) \in Nat /\ 0 <= E(h) /\ E(h) <= Len(S)
    BY <1>1
  <2>2. Grows(t, m, S, 0, E(h))
    BY <2>1, PartNext
  <2> QED BY <2>2 DEF Grows
<1>4. ASSUME NEW h \in 1..N
      PROVE  right(h) \in Seq(R) /\ left(h) = left(h - 1) \o right(h)
  <2>1. /\ E(h) \in Nat /\ E(h - 1) \in Nat /\ E(h - 1) <= E(h) /\ E(h) <= Len(S)
    BY <1>1
  <2>2. Grows(t, m, S, E(h - 1), E(h))
    BY <2>1, PartNext
  <2>3. left(h) = left(h - 1) \o right(h)
    BY <2>1, PartSplit
  <2> QED BY <2>2, <2>3 DEF Grows
<1>5. left(0) = <<>>
  <2>1. Grows(t, m, S, 0, 0)
    BY <1>1, PartNext
  <2> QED BY <1>1, <2>1 DEF Grows
<1> HIDE DEF left, right
<1> DEFINE bad == {h \in 0..N : flat(h) # left(h)}
<1>6. bad = {}
  <2>0. bad \in SUBSET Nat
    BY <1>1
  <2>1. SUFFICES ASSUME bad # {} PROVE FALSE
    OBVIOUS
  <2>2. PICK h \in bad : \A k \in bad : h <= k
    <3> HIDE DEF bad
    <3> QED BY <2>0, <2>1, LeastNumber
  <2>3. h \in 0..N /\ flat(h) # left(h)
    OBVIOUS
  <2>4. h # 0
    BY <1>5, <2>3, FlattenNothing
  <2>5. PICK k : k = h - 1
    OBVIOUS
  <2>6. k \in 0..N /\ k \in Nat /\ k + 1 = h /\ ~(h <= k) /\ h \in 1..N /\ (k + 1) - 1 = k
    <3> HIDE DEF bad
    <3> QED BY <1>1, <2>3, <2>4, <2>5
  <2>7. k \notin bad
    <3> HIDE DEF bad
    <3> QED BY <2>2, <2>6
  <2>8. flat(k) = left(k)
    BY <2>6, <2>7
  <2>9. FlattenSeq(First(rows, k + 1)) = FlattenSeq(First(rows, k)) \o rows[k + 1]
    <3> HIDE DEF bad
    <3>1. \A i \in 1..(k + 1) : rows[i] \in Seq(R)
      <4>1. \A i \in 1..(k + 1) : i \in 1..N
        BY <1>1, <2>6
      <4> QED BY <1>2, <1>4, <4>1
    <3>2. FlattenSeq(First(rows, k)) \in Seq(R)
      BY <1>3, <2>6, <2>8
    <3> HIDE DEF R
    <3> QED BY <2>6, <3>1, <3>2, FlattenNext
  <2>10. flat(h) = left(k) \o right(h)
    BY <1>2, <2>6, <2>8, <2>9
  <2> HIDE DEF bad, flat
  <2> QED BY <1>4, <2>3, <2>5, <2>6, <2>10
<1>7. flat(N) = left(N)
  BY <1>1, <1>6
<1>8. left(N) = RowsOf(t, m, S)
  <2>1. SubSeq(S, 0 + 1, Len(S)) = S
    BY <1>1
  <2> QED BY <1>1, <2>1 DEF left, Part
<1>9. N \in 0..N
  BY <1>1
<1> QED BY <1>3, <1>7, <1>8, <1>9

\* ------------------------------------------------------------ what is landed

\* A job has a receipt of each group it has been through, and of all when it lands;
\* a table it has been through is there, unless the run is committed.
ReceiptsFollow(j) ==
  /\ job[j].receipts \in Seq(DOMAIN outputs) /\ Len(job[j].receipts) <= Groups(j)
  /\ \A g \in 1..Len(job[j].receipts) :
       HasOutputs(job[j].receipts[g]) /\ job[j].receipts[g][1] = ReceiptKey(j, g)

TablesFollow(j) ==
  /\ Len(job[j].receipts) = Groups(j) /\ IsInjective(Frame(j, "record"))
  /\ job[j].table \in 1..3
  /\ \/ Run(j) \in marks
     \/ \A i \in 1..(job[j].table - 1) :
          Run(j) \in DOMAIN landed /\ DataTables[i] \in DOMAIN landed[Run(j)]

PlanOK(j) ==
  job[j].image \in 1..2 /\ job[j].plan \in Plans[j] /\ job[j].n \in 1..Len(job[j].plan)

Active(j) == job[j].pc \notin {"idle"} \cup Ended

JobOK(j) ==
  /\ DOMAIN job[j] = DOMAIN IdleJob
  /\ Active(j) =>
       /\ PlanOK(j) /\ ReceiptsFollow(j)
       /\ At(j, "map") => Group(j) <= Groups(j)
       /\ IF At(j, "land") THEN TablesFollow(j) ELSE job[j].table = 1

\* A landed table is that of the run's record set, by one mapper; a marked run has
\* both.
LandedOK ==
  \A run \in DOMAIN landed : \A t \in DOMAIN landed[run] :
    /\ t \in ToSet(DataTables)
    /\ t = "record" => /\ landed[run][t] = RowsOf("record", 0, Shards(run[1]))
                       /\ IsInjective(landed[run][t])
    /\ t = "field" => \E n \in 1..2 :
                        landed[run][t] = RowsOf("field", images[n].mapper, Shards(run[1]))

MarksOK ==
  \A run \in marks : run \in DOMAIN landed /\ ToSet(DataTables) \subseteq DOMAIN landed[run]

LandInv ==
  /\ CheckpointInv
  /\ content \in Contents /\ deployed \in 1..2 /\ DOMAIN job = Jobs
  /\ \A j \in Jobs : JobOK(j)
  /\ LandedOK /\ MarksOK

\* The record set of a batch of a plan, and its groups.
SetOf(c, plan, n) == FlattenSeq(c[plan[n].set])
GroupsOf(c, plan, n) == (Len(SetOf(c, plan, n)) + GroupSize - 1) \div GroupSize

LEMMA PlanSound ==
  ASSUME SilverConstants, NEW c \in Contents, NEW j \in Jobs, NEW plan \in Plans[j]
  PROVE  /\ Len(plan) \in Nat \ {0}
         /\ \A n \in 1..Len(plan) :
              /\ SetOf(c, plan, n) \in Seq(ShardType)
              /\ GroupsOf(c, plan, n) \in Nat
<1>1. PICK T : T = [expect : STRING, set : DOMAIN c]
  OBVIOUS
<1>2. plan \in Seq(T) /\ plan # <<>>
  BY <1>1 DEF SilverConstants
<1>3. ASSUME NEW n \in 1..Len(plan)
      PROVE  SetOf(c, plan, n) \in Seq(ShardType) /\ GroupsOf(c, plan, n) \in Nat
  <2>1. plan[n].set \in DOMAIN c
    <3>1. plan[n] \in T
      BY <1>2
    <3> QED BY <1>1, <3>1
  <2>2. PICK s, N : s = c[plan[n].set] /\ N = Len(s)
    OBVIOUS
  <2>3. s \in Seq(Seq(ShardType))
    BY <2>1, <2>2 DEF SilverConstants
  <2>4. N \in Nat /\ (\A i \in 1..N : s[i] \in Seq(ShardType)) /\ s = First(s, N) /\ N \in 0..N
    BY <2>2, <2>3 DEF First
  <2>5. FlattenSeq(First(s, N)) \in Seq(ShardType)
    BY <2>4, FlattenType
  <2>6. SetOf(c, plan, n) \in Seq(ShardType)
    BY <2>2, <2>4, <2>5 DEF SetOf
  <2>7. Len(SetOf(c, plan, n)) \in Nat /\ GroupSize \in Nat \ {0}
    BY <2>6 DEF SilverConstants
  <2> QED BY <2>6, <2>7, GroupCount DEF GroupsOf
<1> QED BY <1>2, <1>3

LEMMA PlannedShards ==
  ASSUME SilverConstants, content \in Contents, NEW j \in Jobs, PlanOK(j)
  PROVE  Shards(Set(j)) \in Seq(ShardType) /\ Groups(j) \in Nat
<1>1. PICK plan, n : plan = job[j].plan /\ n = job[j].n
  OBVIOUS
<1>2. plan \in Plans[j] /\ n \in 1..Len(plan)
  BY <1>1 DEF PlanOK
<1>3. SetOf(content, plan, n) \in Seq(ShardType) /\ GroupsOf(content, plan, n) \in Nat
  BY <1>2, PlanSound
<1> QED BY <1>1, <1>3 DEF SetOf, GroupsOf, Shards, Set, Entry, Groups

\* The frames of a job that has all receipts are its record set.
LEMMA FramesAreAll ==
  ASSUME SilverConstants, OutputsOK, content \in Contents, NEW j \in Jobs, PlanOK(j),
         ReceiptsFollow(j), Len(job[j].receipts) = Groups(j)
  PROVE  /\ Frame(j, "record") = RowsOf("record", 0, Shards(Set(j)))
         /\ Frame(j, "field") = RowsOf("field", Image(j).mapper, Shards(Set(j)))
<1> DEFINE receipts == job[j].receipts
           rows(t) == [g \in DOMAIN receipts |-> outputs[receipts[g]][t]]
<1>1. PICK S, N, m : S = Shards(Set(j)) /\ N = Groups(j) /\ m = Image(j).mapper
  OBVIOUS
<1>2. /\ S \in Seq(ShardType) /\ Len(S) \in Nat /\ N \in Nat /\ GroupSize \in Nat \ {0}
      /\ N = (Len(S) + GroupSize - 1) \div GroupSize
  <2>1. S \in Seq(ShardType) /\ N \in Nat
    BY <1>1, PlannedShards
  <2>2. Len(S) \in Nat
    BY <2>1
  <2> QED BY <1>1, <2>1, <2>2 DEF SilverConstants, Groups
<1>3. DOMAIN receipts = 1..N
  BY <1>1, <1>2 DEF ReceiptsFollow
<1>4. ASSUME NEW t \in ToSet(DataTables), NEW h \in 1..N
      PROVE  rows(t)[h] = Part(t, m, S, (h - 1) * GroupSize, GroupEnd(Len(S), GroupSize, h))
  <2>1. PICK a : a = receipts[h]
    OBVIOUS
  <2>2. HasOutputs(a) /\ a[1] = <<"receipt", <<Set(j), m>>, h>>
    BY <1>1, <1>3, <2>1 DEF ReceiptsFollow, ReceiptKey, Checkpoint
  <2>3. outputs[a][t] = RowsOf(t, a[1][2][2], GroupOf(a[1]))
    BY <1>4, <2>2 DEF OutputsOK, HasOutputs
  <2>4. a[1][2][2] = m /\ a[1][2][1] = Set(j) /\ a[1][3] = h
    BY <2>2
  <2>5. GroupOf(a[1]) = SubSeq(S, (h - 1) * GroupSize + 1, GroupEnd(Len(S), GroupSize, h))
    BY <1>1, <2>4 DEF GroupOf, GroupEnd
  <2>6. rows(t)[h] = outputs[a][t]
    BY <1>3, <2>1
  <2> QED BY <2>3, <2>4, <2>5, <2>6 DEF Part
<1>5. ASSUME NEW t \in ToSet(DataTables)
      PROVE  Frame(j, t) = RowsOf(t, m, S)
  <2>1. First(rows(t), N) = rows(t)
    BY <1>3 DEF First
  <2>2. Frame(j, t) = FlattenSeq(rows(t))
    BY DEF Frame
  <2>3. \A h \in 1..N :
          rows(t)[h] = Part(t, m, S, (h - 1) * GroupSize, GroupEnd(Len(S), GroupSize, h))
    BY <1>4
  <2>4. PICK r, G : r = rows(t) /\ G = GroupSize
    OBVIOUS
  <2>5. FlattenSeq(First(r, N)) = RowsOf(t, m, S)
    <3>1. /\ G \in Nat \ {0} /\ N = (Len(S) + G - 1) \div G
          /\ \A h \in 1..N : r[h] = Part(t, m, S, (h - 1) * G, GroupEnd(Len(S), G, h))
      BY <1>2, <2>3, <2>4
    <3> HIDE DEF rows, receipts
    <3> QED BY <1>2, <3>1, GroupsAreAll
  <2> QED BY <2>1, <2>2, <2>4, <2>5
<1>6. RowsOf("record", m, S) = RowsOf("record", 0, S)
  BY DEF RowsOf
<1> QED BY <1>1, <1>5, <1>6, TwoTables

\* Outputs that are complete stay, and so do tables and marks.
Keeps ==
  /\ content' = content /\ images' = images
  /\ DOMAIN outputs \subseteq DOMAIN outputs'
  /\ \A a : HasOutputs(a) => HasOutputs(a)' /\ outputs'[a] = outputs[a]
  /\ marks \subseteq marks'
  /\ \A run \in DOMAIN landed :
       run \in DOMAIN landed' /\ DOMAIN landed[run] \subseteq DOMAIN landed'[run]

LEMMA WiderSeq ==
  ASSUME NEW S, NEW T, S \subseteq T, NEW s, s \in Seq(S)
  PROVE  s \in Seq(T)
OBVIOUS

\* The batch that a job is at is what it was.
SameBatch(j) ==
  /\ job'[j].plan = job[j].plan /\ job'[j].n = job[j].n /\ job'[j].image = job[j].image

LEMMA BatchKept ==
  ASSUME Keeps, NEW j, SameBatch(j)
  PROVE  /\ Set(j)' = Set(j) /\ Image(j)' = Image(j) /\ Groups(j)' = Groups(j)
         /\ Shards(Set(j))' = Shards(Set(j))
         /\ \A g : ReceiptKey(j, g)' = ReceiptKey(j, g)
         /\ PlanOK(j) => PlanOK(j)'
BY DEF Keeps, SameBatch, Set, Entry, Image, Groups, Shards, ReceiptKey, Checkpoint, PlanOK

LEMMA ReceiptsFollowKept ==
  ASSUME Keeps, NEW j, SameBatch(j), ReceiptsFollow(j), job'[j].receipts = job[j].receipts
  PROVE  ReceiptsFollow(j)'
<1>1. PICK r, N : r = job[j].receipts /\ N = Groups(j)
  OBVIOUS
<1>2. r \in Seq(DOMAIN outputs) /\ Len(r) <= N
      /\ \A g \in 1..Len(r) : HasOutputs(r[g]) /\ r[g][1] = ReceiptKey(j, g)
  BY <1>1 DEF ReceiptsFollow
<1>3. r \in Seq(DOMAIN outputs')
  BY <1>2, WiderSeq DEF Keeps
<1>4. Groups(j)' = N /\ \A g : ReceiptKey(j, g)' = ReceiptKey(j, g)
  BY <1>1, BatchKept
<1>5. ASSUME NEW g \in 1..Len(r)
      PROVE  HasOutputs(r[g])' /\ r[g][1] = ReceiptKey(j, g)'
  <2>1. PICK a : a = r[g]
    OBVIOUS
  <2>2. HasOutputs(a)'
    BY <1>2, <2>1 DEF Keeps
  <2> QED BY <1>2, <1>4, <2>1, <2>2 DEF HasOutputs
<1>6. job'[j].receipts = r
  BY <1>1
<1> QED BY <1>2, <1>3, <1>4, <1>5, <1>6 DEF ReceiptsFollow, HasOutputs

LEMMA FrameKept ==
  ASSUME Keeps, NEW j, SameBatch(j), ReceiptsFollow(j), job'[j].receipts = job[j].receipts
  PROVE  (\A t : Frame(j, t)' = Frame(j, t)) /\ Run(j)' = Run(j)
<1>1. PICK r : r = job[j].receipts /\ r = job'[j].receipts
  OBVIOUS
<1>2. DOMAIN r = 1..Len(r) /\ \A g \in DOMAIN r : outputs'[r[g]] = outputs[r[g]]
  BY <1>1 DEF ReceiptsFollow, Keeps
<1>3. ASSUME NEW t PROVE Frame(j, t)' = Frame(j, t)
  <2>1. [g \in DOMAIN r |-> outputs'[r[g]][t]] = [g \in DOMAIN r |-> outputs[r[g]][t]]
    BY <1>2
  <2> QED BY <1>1, <2>1 DEF Frame
<1>4. Set(j)' = Set(j)
  BY BatchKept
<1>5. \A t : Frame(j, t)' = Frame(j, t)
  BY <1>3
<1> QED BY <1>4, <1>5 DEF Run

\* A job that takes no step.
LEMMA JobKept ==
  ASSUME Keeps, NEW j, JobOK(j), job'[j] = job[j]
  PROVE  JobOK(j)'
<1>1. SUFFICES ASSUME Active(j)
      PROVE  /\ PlanOK(j)' /\ ReceiptsFollow(j)'
             /\ At(j, "map") => Group(j) <= Groups(j)'
             /\ IF At(j, "land") THEN TablesFollow(j)' ELSE job[j].table = 1
  BY DEF JobOK, Active, At, Group
<1>2. SameBatch(j) /\ PlanOK(j) /\ ReceiptsFollow(j)
  BY <1>1 DEF SameBatch, JobOK
<1>3. PlanOK(j)' /\ ReceiptsFollow(j)' /\ Groups(j)' = Groups(j)
  BY <1>2, BatchKept, ReceiptsFollowKept
<1>4. ASSUME TablesFollow(j) PROVE TablesFollow(j)'
  <2>1. Frame(j, "record")' = Frame(j, "record") /\ Run(j)' = Run(j)
    BY <1>2, FrameKept
  <2> QED BY <1>3, <1>4, <2>1 DEF TablesFollow, Keeps
<1> QED BY <1>1, <1>3, <1>4 DEF JobOK

\* A job that goes on with what it has.
LEMMA JobMoves ==
  ASSUME Keeps, NEW j, JobOK(j), Active(j), ~At(j, "land"), SameBatch(j),
         job'[j].receipts = job[j].receipts, job'[j].table = job[j].table,
         DOMAIN job'[j] = DOMAIN IdleJob, ~At(j, "land")',
         At(j, "map")' => Group(j) <= Groups(j)
  PROVE  JobOK(j)'
<1>1. PlanOK(j) /\ ReceiptsFollow(j) /\ job[j].table = 1
  BY DEF JobOK
<1>2. PlanOK(j)' /\ ReceiptsFollow(j)' /\ Groups(j)' = Groups(j)
  BY <1>1, BatchKept, ReceiptsFollowKept
<1>3. Group(j)' = Group(j)
  BY DEF Group
<1> QED BY <1>1, <1>2, <1>3 DEF JobOK

\* A job that leaves.
LEMMA JobLeaves ==
  ASSUME NEW j \in Jobs, DOMAIN job = Jobs, NEW pc \in {"idle"} \cup Ended, Leaves(j, pc)
  PROVE  JobOK(j)'
<1>1. job'[j] = [IdleJob EXCEPT !.pc = pc]
  BY DEF Leaves, Becomes
<1>2. DOMAIN job'[j] = DOMAIN IdleJob /\ job'[j].pc = pc
  BY <1>1 DEF IdleJob
<1> QED BY <1>2 DEF JobOK, Active, Ended

\* A job that takes the receipt of its group.
LEMMA JobResolves ==
  ASSUME Keeps, NEW j \in Jobs, DOMAIN job = Jobs, JobOK(j), Active(j), ~At(j, "land"),
         Group(j) <= Groups(j), NEW a, HasOutputs(a), a[1] = ReceiptKey(j, Group(j)),
         Resolved(j, a)
  PROVE  JobOK(j)'
<1>1. PlanOK(j) /\ ReceiptsFollow(j) /\ job[j].table = 1 /\ DOMAIN job[j] = DOMAIN IdleJob
  BY DEF JobOK
<1>2. job'[j] = [job[j] EXCEPT !.pc = "group", !.receipts = Append(@, a)]
  BY DEF Resolved, Becomes
<1>3. /\ DOMAIN job'[j] = DOMAIN IdleJob
      /\ job'[j].pc = "group" /\ job'[j].receipts = Append(job[j].receipts, a)
      /\ job'[j].plan = job[j].plan /\ job'[j].n = job[j].n /\ job'[j].image = job[j].image
      /\ job'[j].table = job[j].table
  BY <1>1, <1>2 DEF IdleJob
<1>4. SameBatch(j)
  BY <1>3 DEF SameBatch
<1>5. /\ PlanOK(j)' /\ Groups(j)' = Groups(j)
      /\ \A g : ReceiptKey(j, g)' = ReceiptKey(j, g)
  BY <1>1, <1>4, BatchKept
<1>6. ReceiptsFollow(j)'
  <2>1. PICK r, q : r = job[j].receipts /\ q = job'[j].receipts
    OBVIOUS
  <2>2. /\ r \in Seq(DOMAIN outputs') /\ a \in DOMAIN outputs'
        /\ \A g \in 1..Len(r) : HasOutputs(r[g]) /\ r[g][1] = ReceiptKey(j, g)
    <3>1. r \in Seq(DOMAIN outputs)
      BY <1>1, <2>1 DEF ReceiptsFollow
    <3>2. r \in Seq(DOMAIN outputs')
      BY <3>1, WiderSeq DEF Keeps
    <3> QED BY <1>1, <2>1, <3>2 DEF ReceiptsFollow, HasOutputs, Keeps
  <2>3. /\ q \in Seq(DOMAIN outputs') /\ Len(q) = Len(r) + 1 /\ Len(r) \in Nat
        /\ q[Len(r) + 1] = a /\ \A g \in 1..Len(r) : q[g] = r[g]
    BY <1>3, <2>1, <2>2
  <2>4. ASSUME NEW g \in 1..(Len(r) + 1)
        PROVE  HasOutputs(q[g])' /\ q[g][1] = ReceiptKey(j, g)
    <3>1. PICK b : b = q[g]
      OBVIOUS
    <3>2. HasOutputs(b) /\ b[1] = ReceiptKey(j, g)
      <4>1. CASE g = Len(r) + 1
        BY <2>1, <2>3, <3>1, <4>1 DEF Group
      <4>2. CASE g # Len(r) + 1
        <5>1. g \in 1..Len(r)
          BY <2>3, <4>2
        <5> QED BY <2>2, <2>3, <3>1, <5>1
      <4> QED BY <4>1, <4>2
    <3>3. HasOutputs(b)'
      BY <3>2 DEF Keeps
    <3> QED BY <3>1, <3>2, <3>3 DEF HasOutputs
  <2>5. Len(q) <= Groups(j)
    BY <2>1, <2>3 DEF Group
  <2> QED BY <1>5, <2>1, <2>3, <2>4, <2>5 DEF ReceiptsFollow, HasOutputs
<1> QED BY <1>1, <1>3, <1>5, <1>6 DEF JobOK, At

\* A job that begins a batch.
LEMMA JobBegins ==
  ASSUME SilverConstants, content \in Contents, content' = content, NEW j \in Jobs,
         DOMAIN job'[j] = DOMAIN IdleJob, job'[j].pc = "open", job'[j].image \in 1..2,
         job'[j].plan \in Plans[j], job'[j].n \in 1..Len(job'[j].plan),
         job'[j].receipts = <<>>, job'[j].table = 1
  PROVE  JobOK(j)'
<1>1. PICK plan, n : plan = job'[j].plan /\ n = job'[j].n
  OBVIOUS
<1>2. GroupsOf(content, plan, n) \in Nat
  BY <1>1, PlanSound
<1>3. Groups(j)' \in Nat
  BY <1>1, <1>2 DEF Groups, GroupsOf, SetOf, Shards, Set, Entry
<1>4. ReceiptsFollow(j)'
  <2>1. <<>> \in Seq(DOMAIN outputs') /\ Len(<<>>) = 0 /\ 1..0 = {}
    OBVIOUS
  <2> QED BY <1>3, <2>1 DEF ReceiptsFollow
<1> QED BY <1>4 DEF JobOK, PlanOK, At

LEMMA StepKeeps ==
  ASSUME OutputsOK, [SilverNext]_silverVars
  PROVE  Keeps
<1>1. CASE UNCHANGED <<content, images, outputs, landed, marks>>
  BY <1>1 DEF Keeps, HasOutputs
<1>2. ASSUME NEW j \in Jobs, WriteTable(j) PROVE Keeps
  <2>1. \A a : HasOutputs(a) => HasOutputs(a)' /\ outputs'[a] = outputs[a]
    BY <1>2, WriteOutputs
  <2>2. DOMAIN outputs \subseteq DOMAIN outputs'
    BY <1>2 DEF WriteTable, With
  <2> QED BY <1>2, <2>1, <2>2 DEF Keeps, WriteTable
<1>3. ASSUME NEW j \in Jobs, LandOutput(j) PROVE Keeps
  <2>1. \A run \in DOMAIN landed :
          run \in DOMAIN landed' /\ DOMAIN landed[run] \subseteq DOMAIN landed'[run]
    BY <1>3 DEF LandOutput, With, LandedTables
  <2> QED BY <1>3, <2>1 DEF Keeps, LandOutput, HasOutputs
<1>4. ASSUME NEW j \in Jobs, CommitBatch(j) PROVE Keeps
  BY <1>4 DEF Keeps, CommitBatch, HasOutputs
<1>5. ASSUME NEW j \in Jobs, Submit(j) \/ Fails(j) \/ Works(j), ~WriteTable(j), ~LandOutput(j), ~CommitBatch(j)
      PROVE  UNCHANGED <<content, images, outputs, landed, marks>>
  BY <1>5
  DEF Works, Submit, Fails, Open, StageShard, ReuseShard, BindShards, ReuseGroup, MapGroup,
      PublishReceipt, TakeWinner, AllMapped, JobOnly
<1>6. CASE QuietDeploy \/ UNCHANGED silverVars
  BY <1>1, <1>6 DEF QuietDeploy, silverVars
<1> QED BY <1>1, <1>2, <1>3, <1>4, <1>5, <1>6 DEF SilverNext

\* Each step is of one job.
LEMMA OneJob ==
  ASSUME DOMAIN job = Jobs, NEW j \in Jobs, Submit(j) \/ Fails(j) \/ Works(j)
  PROVE  \/ job' = job
         \/ \E state : Becomes(j, state)
BY DEF Works, Submit, Fails, Open, StageShard, ReuseShard, BindShards, ReuseGroup, MapGroup,
       WriteTable, PublishReceipt, TakeWinner, AllMapped, LandOutput, CommitBatch, Staged, Resolved, Goes,
       Leaves

\* The job that takes a step.
LEMMA JobStep ==
  ASSUME SilverConstants, LandInv, Keeps, NEW j \in Jobs,
         Submit(j) \/ Fails(j) \/ Works(j)
  PROVE  JobOK(j)'
<1>0. /\ DOMAIN job = Jobs /\ JobOK(j) /\ DOMAIN job[j] = DOMAIN IdleJob
      /\ deployed \in 1..2 /\ content \in Contents /\ content' = content
      /\ CheckpointInv
  BY DEF LandInv, JobOK, Keeps
<1>1. CASE Submit(j)
  <2>1. PICK plan \in Plans[j] :
          job'[j] = [IdleJob EXCEPT !.pc = "open", !.image = deployed, !.plan = plan]
    BY <1>0, <1>1 DEF Submit, Becomes
  <2>2. Len(plan) \in Nat \ {0}
    BY <1>0, PlanSound
  <2>3. /\ DOMAIN job'[j] = DOMAIN IdleJob /\ job'[j].pc = "open" /\ job'[j].image = deployed
        /\ job'[j].plan = plan /\ job'[j].n = 1 /\ job'[j].receipts = <<>> /\ job'[j].table = 1
    BY <2>1 DEF IdleJob
  <2>4. job'[j].n \in 1..Len(job'[j].plan)
    BY <2>2, <2>3
  <2> QED BY <1>0, <2>3, <2>4, JobBegins
<1>2. ASSUME NEW pc \in {"idle"} \cup Ended, Leaves(j, pc) PROVE JobOK(j)'
  BY <1>0, <1>2, JobLeaves
<1>3. CASE Fails(j)
  BY <1>2, <1>3 DEF Fails, Ended
<1>4. ASSUME Active(j), ~At(j, "land"), NEW state,
             Becomes(j, state), DOMAIN state = DOMAIN IdleJob,
             state.plan = job[j].plan, state.n = job[j].n, state.image = job[j].image,
             state.receipts = job[j].receipts, state.table = job[j].table,
             state.pc # "land", state.pc = "map" => Group(j) <= Groups(j)
      PROVE  JobOK(j)'
  <2>1. job'[j] = state
    BY <1>0, <1>4 DEF Becomes
  <2>2. SameBatch(j)
    BY <1>4, <2>1 DEF SameBatch
  <2> QED BY <1>0, <1>4, <2>1, <2>2, JobMoves DEF At
<1>5. ASSUME Active(j), ~At(j, "land"), NEW s, Staged(j, s), At(j, "stage") PROVE JobOK(j)'
  <2> DEFINE state == [job[j] EXCEPT !.staged = @ \cup {s}]
  <2>1. /\ DOMAIN state = DOMAIN IdleJob /\ state.pc = "stage"
        /\ state.plan = job[j].plan /\ state.n = job[j].n /\ state.image = job[j].image
        /\ state.receipts = job[j].receipts /\ state.table = job[j].table
    BY <1>0, <1>5 DEF IdleJob, At
  <2>2. Becomes(j, state)
    BY <1>5 DEF Staged
  <2> HIDE DEF state
  <2> QED BY <1>4, <1>5, <2>1, <2>2
<1>6. CASE Open(j)
  <2>1. PICK reuse : Becomes(j, [job[j] EXCEPT !.pc = "stage", !.reuse = reuse])
    BY <1>6 DEF Open
  <2> DEFINE state == [job[j] EXCEPT !.pc = "stage", !.reuse = reuse]
  <2>2. /\ DOMAIN state = DOMAIN IdleJob /\ state.pc = "stage"
        /\ state.plan = job[j].plan /\ state.n = job[j].n /\ state.image = job[j].image
        /\ state.receipts = job[j].receipts /\ state.table = job[j].table
    BY <1>0 DEF IdleJob
  <2>3. Active(j) /\ ~At(j, "land") /\ Becomes(j, state)
    BY <1>6, <2>1 DEF Open, At, Active, Ended
  <2> HIDE DEF state
  <2> QED BY <1>4, <2>2, <2>3
<1>7. CASE At(j, "stage") /\ \E s \in Waiting(j) : StageShard(j, s) \/ ReuseShard(j, s)
  <2>1. Active(j) /\ ~At(j, "land")
    BY <1>7 DEF At, Active, Ended
  <2>2. \/ Leaves(j, "failed")
        \/ \E s : Staged(j, s)
    BY <1>7 DEF StageShard, ReuseShard
  <2> QED BY <1>2, <1>5, <1>7, <2>1, <2>2 DEF Ended
<1>8. CASE BindShards(j)
  <2> DEFINE state == [job[j] EXCEPT !.pc = "group", !.staged = {}]
  <2>1. /\ DOMAIN state = DOMAIN IdleJob /\ state.pc = "group"
        /\ state.plan = job[j].plan /\ state.n = job[j].n /\ state.image = job[j].image
        /\ state.receipts = job[j].receipts /\ state.table = job[j].table
    BY <1>0 DEF IdleJob
  <2>2. Active(j) /\ ~At(j, "land") /\ Becomes(j, state)
    BY <1>8 DEF BindShards, At, Active, Ended
  <2> HIDE DEF state
  <2> QED BY <1>4, <2>1, <2>2
<1>9. ASSUME Checkpointed(j) PROVE HasOutputs(Winner(j)) /\ Winner(j)[1] = ReceiptKey(j, Group(j))
  <2>1. PICK key : key = ReceiptKey(j, Group(j))
    OBVIOUS
  <2>2. key \in DOMAIN store /\ key[1] = "receipt" /\ Winner(j) = store[key].bytes
    BY <1>9, <2>1 DEF Checkpointed, Winner, ReceiptKey
  <2> QED BY <1>0, <2>1, <2>2 DEF CheckpointInv, ReceiptsOK
<1>10. CASE ReuseGroup(j)
  <2>1. Active(j) /\ ~At(j, "land") /\ Group(j) <= Groups(j) /\ Checkpointed(j)
        /\ Resolved(j, Winner(j))
    BY <1>10 DEF ReuseGroup, At, Active, Ended
  <2> QED BY <1>0, <1>9, <2>1, JobResolves
<1>11. CASE MapGroup(j)
  <2> DEFINE state == [job[j] EXCEPT !.pc = "map"]
  <2>1. /\ DOMAIN state = DOMAIN IdleJob /\ state.pc = "map"
        /\ state.plan = job[j].plan /\ state.n = job[j].n /\ state.image = job[j].image
        /\ state.receipts = job[j].receipts /\ state.table = job[j].table
    BY <1>0 DEF IdleJob
  <2>2. Active(j) /\ ~At(j, "land") /\ Becomes(j, state) /\ Group(j) <= Groups(j)
    BY <1>11 DEF MapGroup, Goes, At, Active, Ended
  <2> HIDE DEF state
  <2> QED BY <1>4, <2>1, <2>2
<1>12. CASE WriteTable(j)
  BY <1>0, <1>12, JobKept DEF WriteTable
<1>13. ASSUME At(j, "map") PROVE Active(j) /\ ~At(j, "land") /\ Group(j) <= Groups(j)
  BY <1>0, <1>13 DEF At, Active, Ended, JobOK
<1>14. CASE PublishReceipt(j)
  <2>1. At(j, "map") /\ (Leaves(j, "failed") \/ Resolved(j, Attempt(j)))
    BY <1>14 DEF PublishReceipt
  <2>2. HasOutputs(Attempt(j)) /\ Attempt(j)[1] = ReceiptKey(j, Group(j))
    BY <1>0, <1>14, PublishedIsWhole DEF PublishReceipt, CheckpointInv, Attempt
  <2>3. CASE Leaves(j, "failed")
    BY <1>2, <2>3 DEF Ended
  <2>4. CASE Resolved(j, Attempt(j))
    BY <1>0, <1>13, <2>1, <2>2, <2>4, JobResolves
  <2> QED BY <2>1, <2>3, <2>4
<1>15. CASE TakeWinner(j)
  <2>1. At(j, "map") /\ Checkpointed(j) /\ Resolved(j, Winner(j))
    BY <1>15 DEF TakeWinner
  <2> QED BY <1>0, <1>9, <1>13, <2>1, JobResolves

<1>16. CASE AllMapped(j)
  <2> DEFINE state == [job[j] EXCEPT !.pc = "land"]
  <2>1. Active(j) /\ ~At(j, "land") /\ Becomes(j, state) /\ IsInjective(Frame(j, "record"))
        /\ Group(j) > Groups(j)
    BY <1>16 DEF AllMapped, Goes, At, Active, Ended
  <2>2. /\ DOMAIN state = DOMAIN IdleJob /\ state.pc = "land"
        /\ state.plan = job[j].plan /\ state.n = job[j].n /\ state.image = job[j].image
        /\ state.receipts = job[j].receipts /\ state.table = job[j].table
    BY <1>0 DEF IdleJob
  <2>3. job'[j] = state
    BY <1>0, <2>1 DEF Becomes
  <2> HIDE DEF state
  <2>4. PlanOK(j) /\ ReceiptsFollow(j) /\ job[j].table = 1
    BY <1>0, <2>1 DEF JobOK
  <2>5. SameBatch(j) /\ job'[j].receipts = job[j].receipts /\ job'[j].table = 1
    BY <2>2, <2>3, <2>4 DEF SameBatch
  <2>6. Groups(j) \in Nat
    BY <1>0, <2>4, PlannedShards
  <2>7. Len(job[j].receipts) = Groups(j)
    <3>1. Len(job[j].receipts) \in Nat /\ Len(job[j].receipts) <= Groups(j)
      BY <2>4 DEF ReceiptsFollow
    <3> QED BY <2>1, <2>6, <3>1 DEF Group
  <2>8. PlanOK(j)' /\ ReceiptsFollow(j)' /\ Groups(j)' = Groups(j)
        /\ Frame(j, "record")' = Frame(j, "record")
    BY <2>4, <2>5, BatchKept, ReceiptsFollowKept, FrameKept
  <2>9. TablesFollow(j)'
    <3>1. 1..(1 - 1) = {}
      OBVIOUS
    <3> QED BY <2>1, <2>5, <2>7, <2>8, <3>1 DEF TablesFollow
  <2> QED BY <2>2, <2>3, <2>8, <2>9 DEF JobOK, At
<1>17. CASE LandOutput(j)
  <2> DEFINE state == [job[j] EXCEPT !.table = @ + 1]
  <2>1. Active(j) /\ At(j, "land") /\ Becomes(j, state) /\ job[j].table <= 2
    BY <1>17, TwoTables DEF LandOutput, At, Active, Ended
  <2>2. /\ DOMAIN state = DOMAIN IdleJob /\ state.pc = "land"
        /\ state.plan = job[j].plan /\ state.n = job[j].n /\ state.image = job[j].image
        /\ state.receipts = job[j].receipts /\ state.table = job[j].table + 1
    BY <1>0, <2>1 DEF IdleJob, At
  <2>3. job'[j] = state
    BY <1>0, <2>1 DEF Becomes
  <2> HIDE DEF state
  <2>4. PlanOK(j) /\ ReceiptsFollow(j) /\ TablesFollow(j)
    BY <1>0, <2>1 DEF JobOK
  <2>5. SameBatch(j) /\ job'[j].receipts = job[j].receipts
    BY <2>2, <2>3 DEF SameBatch
  <2>6. PlanOK(j)' /\ ReceiptsFollow(j)' /\ Groups(j)' = Groups(j)
        /\ Frame(j, "record")' = Frame(j, "record") /\ Run(j)' = Run(j)
    BY <2>4, <2>5, BatchKept, ReceiptsFollowKept, FrameKept
  <2>7. PICK run, n : run = Run(j) /\ n = job[j].table
    OBVIOUS
  <2>8. n \in 1..2 /\ job'[j].table = n + 1
    BY <2>1, <2>2, <2>3, <2>4, <2>7 DEF TablesFollow
  <2>9. ASSUME run \notin marks, NEW i \in 1..n
        PROVE  run \in DOMAIN landed' /\ DataTables[i] \in DOMAIN landed'[run]
    <3>1. CASE i = n
      BY <1>17, <2>7, <2>9, <3>1 DEF LandOutput, With, LandedTables
    <3>2. CASE i # n
      <4>1. i \in 1..(n - 1)
        BY <2>8, <3>2
      <4> QED BY <2>4, <2>7, <2>9, <4>1 DEF TablesFollow, Keeps
    <3> QED BY <3>1, <3>2
  <2>10. TablesFollow(j)'
    <3>1. (n + 1) - 1 = n /\ n + 1 \in 1..3
      BY <2>8
    <3>2. run \in marks => run \in marks'
      BY DEF Keeps
    <3>3. \/ run \in marks'
          \/ \A i \in 1..((n + 1) - 1) :
               run \in DOMAIN landed' /\ DataTables[i] \in DOMAIN landed'[run]
      BY <2>9, <3>1, <3>2
    <3>4. /\ Len(job'[j].receipts) = Groups(j)' /\ IsInjective(Frame(j, "record")')
          /\ job'[j].table \in 1..3
      BY <2>4, <2>5, <2>6, <2>8, <3>1 DEF TablesFollow
    <3> QED BY <2>6, <2>7, <2>8, <3>3, <3>4 DEF TablesFollow
  <2> QED BY <2>2, <2>3, <2>6, <2>10 DEF JobOK, At
<1>18. CASE CommitBatch(j)
  <2>1. PICK n : n = job[j].n
    OBVIOUS
  <2>2. \/ Leaves(j, "failed") \/ Leaves(j, "done")
        \/ /\ n # Len(job[j].plan)
           /\ Becomes(j, [IdleJob EXCEPT !.pc = "open", !.image = job[j].image,
                                         !.plan = job[j].plan, !.n = n + 1])
    BY <1>18, <2>1 DEF CommitBatch
  <2>3. CASE Leaves(j, "failed") \/ Leaves(j, "done")
    BY <1>2, <2>3 DEF Ended
  <2>4. CASE /\ n # Len(job[j].plan)
             /\ Becomes(j, [IdleJob EXCEPT !.pc = "open", !.image = job[j].image,
                                           !.plan = job[j].plan, !.n = n + 1])
    <3>1. PlanOK(j)
      BY <1>0, <1>18 DEF CommitBatch, JobOK, Active, At, Ended
    <3>2. job'[j] = [IdleJob EXCEPT !.pc = "open", !.image = job[j].image,
                                    !.plan = job[j].plan, !.n = n + 1]
      BY <1>0, <2>4 DEF Becomes
    <3>3. /\ DOMAIN job'[j] = DOMAIN IdleJob /\ job'[j].pc = "open"
          /\ job'[j].image = job[j].image /\ job'[j].plan = job[j].plan /\ job'[j].n = n + 1
          /\ job'[j].receipts = <<>> /\ job'[j].table = 1
      BY <3>2 DEF IdleJob
    <3>4. PICK plan \in Plans[j] : plan = job[j].plan
      BY <3>1 DEF PlanOK
    <3>5. Len(plan) \in Nat /\ n \in 1..Len(plan) /\ n # Len(plan)
      BY <1>0, <2>1, <2>4, <3>1, <3>4, PlanSound DEF PlanOK
    <3>6. n + 1 \in 1..Len(plan)
      BY <3>5
    <3> QED BY <1>0, <3>1, <3>3, <3>4, <3>6, JobBegins DEF PlanOK
  <2> QED BY <2>2, <2>3, <2>4
<1> QED BY <1>1, <1>3, <1>6, <1>7, <1>8, <1>10, <1>11, <1>12, <1>14, <1>15, <1>16, <1>17, <1>18
        DEF Works

\* What a job lands is its record set.
LEMMA LandRun ==
  ASSUME SilverConstants, LandInv, NEW j \in Jobs, LandOutput(j)
  PROVE  LandedOK' /\ MarksOK'
<1>1. /\ OutputsOK /\ content \in Contents /\ JobOK(j) /\ LandedOK /\ MarksOK
      /\ content' = content /\ images' = images /\ marks' = marks
  BY DEF LandInv, CheckpointInv, LandOutput
<1>2. PlanOK(j) /\ ReceiptsFollow(j) /\ TablesFollow(j) /\ job[j].table <= 2
  BY <1>1, TwoTables DEF LandOutput, JobOK, Active, At, Ended
<1>3. PICK run, t, f, old :
        /\ run = Run(j) /\ t = DataTables[job[j].table] /\ f = Frame(j, t) /\ old = LandedTables(run)
  OBVIOUS
<1>4. t \in ToSet(DataTables) /\ run[1] = Set(j)
  BY <1>2, <1>3, TwoTables DEF TablesFollow, Run
<1>5. /\ t = "record" => f = RowsOf("record", 0, Shards(run[1])) /\ IsInjective(f)
      /\ t = "field" => \E n \in 1..2 : f = RowsOf("field", images[n].mapper, Shards(run[1]))
  <2>1. /\ Frame(j, "record") = RowsOf("record", 0, Shards(Set(j)))
        /\ Frame(j, "field") = RowsOf("field", Image(j).mapper, Shards(Set(j)))
    BY <1>1, <1>2, FramesAreAll DEF TablesFollow
  <2> QED BY <1>2, <1>3, <1>4, <2>1 DEF TablesFollow, PlanOK, Image
<1>6. \A r : Shards(r[1])' = Shards(r[1])
  BY <1>1 DEF Shards
<1>7. landed' = landed \/ landed' = With(landed, run, With(old, t, f))
  BY <1>3 DEF LandOutput
<1>8. CASE landed' = landed
  BY <1>1, <1>6, <1>8 DEF LandedOK, MarksOK
<1>9. CASE landed' = With(landed, run, With(old, t, f))
  <2>1. /\ DOMAIN landed' = DOMAIN landed \cup {run}
        /\ \A r \in DOMAIN landed : r # run => landed'[r] = landed[r]
        /\ DOMAIN landed'[run] = DOMAIN old \cup {t}
        /\ landed'[run][t] = f
        /\ \A u \in DOMAIN old : u # t => landed'[run][u] = old[u]
    BY <1>9 DEF With
  <2>2. (run \in DOMAIN landed => old = landed[run]) /\ (run \notin DOMAIN landed => DOMAIN old = {})
    BY <1>3 DEF LandedTables
  <2>3. ASSUME NEW r \in DOMAIN landed', NEW u \in DOMAIN landed'[r]
        PROVE  /\ u \in ToSet(DataTables)
               /\ u = "record" => /\ landed'[r][u] = RowsOf("record", 0, Shards(r[1]))
                                  /\ IsInjective(landed'[r][u])
               /\ u = "field" => \E n \in 1..2 :
                    landed'[r][u] = RowsOf("field", images[n].mapper, Shards(r[1]))
    <3>1. CASE r = run /\ u = t
      BY <1>4, <1>5, <2>1, <3>1
    <3>2. CASE ~(r = run /\ u = t)
      <4>1. r \in DOMAIN landed /\ u \in DOMAIN landed[r] /\ landed'[r][u] = landed[r][u]
        BY <2>1, <2>2, <2>3, <3>2
      <4> QED BY <1>1, <4>1 DEF LandedOK
    <3> QED BY <3>1, <3>2
  <2>4. LandedOK'
    BY <1>1, <1>6, <2>3 DEF LandedOK
  <2>5. MarksOK'
    BY <1>1, <2>1, <2>2 DEF MarksOK
  <2> QED BY <2>4, <2>5
<1> QED BY <1>7, <1>8, <1>9

\* What a job marks has landed.
LEMMA MarkRun ==
  ASSUME LandInv, NEW j \in Jobs, CommitBatch(j)
  PROVE  LandedOK' /\ MarksOK'
<1>1. JobOK(j) /\ LandedOK /\ MarksOK /\ UNCHANGED <<content, images, landed>>
  BY DEF LandInv, CommitBatch
<1>2. TablesFollow(j) /\ job[j].table > 2
  BY <1>1, TwoTables DEF CommitBatch, JobOK, Active, At, Ended
<1>3. PICK run : run = Run(j)
  OBVIOUS
<1>4. run \in marks \/ (run \in DOMAIN landed /\ ToSet(DataTables) \subseteq DOMAIN landed[run])
  <2>1. job[j].table - 1 = 2
    BY <1>2 DEF TablesFollow
  <2>2. run \in marks \/ \A i \in 1..2 : run \in DOMAIN landed /\ DataTables[i] \in DOMAIN landed[run]
    BY <1>2, <1>3, <2>1 DEF TablesFollow
  <2> QED BY <2>2, TwoTables
<1>5. marks' = marks \cup {run}
  BY <1>3 DEF CommitBatch
<1>6. MarksOK'
  BY <1>1, <1>4, <1>5 DEF MarksOK
<1>7. LandedOK'
  BY <1>1 DEF LandedOK, Shards
<1> QED BY <1>6, <1>7

LEMMA LandStep ==
  ASSUME SilverConstants, LandInv, [SilverNext]_silverVars
  PROVE  LandInv'
<1>1. CheckpointInv' /\ Keeps
  BY CheckpointStep, StepKeeps DEF LandInv, CheckpointInv
<1>2. content' \in Contents
  BY <1>1 DEF Keeps, LandInv
<1>3. ASSUME UNCHANGED job PROVE DOMAIN job' = Jobs /\ \A j \in Jobs : JobOK(j)'
  BY <1>1, <1>3, JobKept DEF LandInv
<1>4. ASSUME UNCHANGED <<content, images, landed, marks>> PROVE LandedOK' /\ MarksOK'
  BY <1>4 DEF LandInv, LandedOK, MarksOK, Shards
<1>5. CASE UNCHANGED silverVars
  BY <1>1, <1>2, <1>3, <1>4, <1>5 DEF LandInv, silverVars
<1>6. CASE QuietDeploy
  <2>1. deployed' \in 1..2 /\ UNCHANGED <<content, images, landed, marks, job>>
    BY <1>6 DEF QuietDeploy
  <2> QED BY <1>1, <1>2, <1>3, <1>4, <2>1 DEF LandInv
<1>7. ASSUME NEW j \in Jobs, Submit(j) \/ Fails(j) \/ Works(j) PROVE LandInv'
  <2>1. DOMAIN job' = Jobs /\ \A k \in Jobs \ {j} : job'[k] = job[k]
    <3>1. DOMAIN job = Jobs
      BY DEF LandInv
    <3>2. job' = job \/ \E state : Becomes(j, state)
      BY <1>7, <3>1, OneJob
    <3> QED BY <3>1, <3>2 DEF Becomes
  <2>2. JobOK(j)'
    BY <1>1, <1>7, JobStep
  <2>3. ASSUME NEW k \in Jobs \ {j} PROVE JobOK(k)'
    <3>1. JobOK(k) /\ job'[k] = job[k]
      BY <2>1 DEF LandInv
    <3> QED BY <1>1, <3>1, JobKept
  <2>4. deployed' = deployed
    BY <1>7
    DEF Works, Submit, Fails, Open, StageShard, ReuseShard, BindShards, ReuseGroup, MapGroup,
        WriteTable, PublishReceipt, TakeWinner, AllMapped, LandOutput, CommitBatch, JobOnly
  <2>5. LandedOK' /\ MarksOK'
    <3>1. CASE LandOutput(j)
      BY <3>1, LandRun
    <3>2. CASE CommitBatch(j)
      BY <3>2, MarkRun
    <3>3. CASE ~LandOutput(j) /\ ~CommitBatch(j)
      <4>1. UNCHANGED <<content, images, landed, marks>>
        BY <1>7, <3>3
        DEF Works, Submit, Fails, Open, StageShard, ReuseShard, BindShards, ReuseGroup,
            MapGroup, WriteTable, PublishReceipt, TakeWinner, AllMapped, JobOnly
      <4> QED BY <1>4, <4>1
    <3> QED BY <3>1, <3>2, <3>3
  <2>6. \A k \in Jobs : JobOK(k)'
    BY <2>2, <2>3
  <2> QED BY <1>1, <1>2, <2>1, <2>4, <2>5, <2>6 DEF LandInv
<1> QED BY <1>5, <1>6, <1>7 DEF SilverNext

\* A committed run has every record of its record set once and their fields by one
\* mapper, from whichever jobs' and images' checkpoints it was put together.
THEOREM CommittedStaysRecordSet ==
  ASSUME SilverConstants
  PROVE  SilverSpec => []CommittedIsRecordSet
<1>1. SilverInit => LandInv
  <2> SUFFICES ASSUME SilverInit PROVE LandInv
    OBVIOUS
  <2>1. CheckpointInv
    BY DEF SilverInit, CheckpointInv, OutputsOK, ReceiptsOK
  <2>2. \A j \in Jobs : JobOK(j)
    BY DEF SilverInit, JobOK, Active, IdleJob
  <2> QED BY <2>1, <2>2 DEF SilverInit, LandInv, LandedOK, MarksOK
<1>2. LandInv /\ [SilverNext]_silverVars => LandInv'
  BY LandStep
<1>3. LandInv => CommittedIsRecordSet
  <2> SUFFICES ASSUME LandInv, NEW run \in marks
               PROVE  /\ landed[run]["record"] = RowsOf("record", 0, Shards(run[1]))
                      /\ IsInjective(landed[run]["record"])
                      /\ \E n \in 1..2 : landed[run]["field"]
                                           = RowsOf("field", images[n].mapper, Shards(run[1]))
    BY DEF CommittedIsRecordSet
  <2>1. run \in DOMAIN landed /\ "record" \in DOMAIN landed[run] /\ "field" \in DOMAIN landed[run]
    BY TwoTables DEF LandInv, MarksOK
  <2> QED BY <2>1 DEF LandInv, LandedOK
<1> QED BY <1>1, <1>2, <1>3, PTL DEF SilverSpec
=============================================================================
