--------------------------- MODULE ExecutionInputs ---------------------------
(* What a Catalog execution may be asked for and what its image allows:      *)
(* provider profiles, ObjectRefs, transfer plans, and the locks of the       *)
(* runtime.  Digests are what they are taken over, so a document whose       *)
(* digest matches is the document.                                           *)
EXTENDS Naturals, Sequences

Clouds == {"AWS", "ALIYUN"}
StoreOf == [AWS |-> "AWS_S3", ALIYUN |-> "ALIBABA_OSS"]
BackendOf == [AWS |-> "AWS_EMR_SERVERLESS", ALIYUN |-> "ALIYUN_EMR_SERVERLESS_SPARK"]

\* WorkloadIdentityBinding: a role of the one cloud or of the other.
WorkloadIdentities == [cloud : Clouds]

\* SparkProviderProfile: store, backend and identity are those of one cloud.
SparkProviderProfile(cloud, transferOnly, maxBytes) ==
  CHOOSE p \in [cloud : Clouds, store : {StoreOf[c] : c \in Clouds},
                backend : {BackendOf[c] : c \in Clouds}, identity : WorkloadIdentities,
                transferOnly : BOOLEAN, maxBytes : {maxBytes}] :
    /\ p.cloud = cloud /\ p.transferOnly = transferOnly
    /\ p.store = StoreOf[p.cloud] /\ p.backend = BackendOf[p.cloud]
    /\ p.identity.cloud = p.cloud

\* ObjectRefV2: its identity is the tenant and what is stored where.
ObjectRefs == [tenant : {"own", "other"}, store : {StoreOf[c] : c \in Clouds}, key : 1..2, bytes : 1..2]

\* object_ref_cloud_provider
CloudOf(ref) == IF ref.store = "AWS_S3" THEN "AWS" ELSE "ALIYUN"

\* TransferPlanBinding: from one cloud to the other, over distinct objects.
TransferPlans(objects) ==
  {t \in [from : Clouds, to : Clouds, sources : objects] :
     /\ t.from # t.to
     /\ \A m, n \in DOMAIN t.sources : t.sources[m] = t.sources[n] => m = n}
NoTransfer == [from |-> "none", to |-> "none", sources |-> <<>>]

\* validate_execution_data_locality: a job computes where its objects are, or a
\* transfer plan binds exactly these objects and leads to the job's cloud.
DataLocal(profile, objects, kind, transfer) ==
  LET from == {CloudOf(objects[m]) : m \in DOMAIN objects}
  IN  /\ objects # <<>>
      /\ \A m, n \in DOMAIN objects : objects[m] = objects[n] => m = n
      /\ IF kind = "EXECUTION"
         THEN transfer = NoTransfer /\ ~profile.transferOnly /\ from = {profile.cloud}
         ELSE /\ transfer # NoTransfer /\ profile.transferOnly
              /\ transfer.to = profile.cloud /\ from = {transfer.from}
              /\ transfer.sources = objects

\* CatalogExecutionInput: one or two objects, a profile, perhaps a transfer plan,
\* and the store that the completion receipt goes to.
CatalogExecutionInputs ==
  LET objects == {<<o>> : o \in ObjectRefs} \cup
                 {<<o, p>> : o, p \in ObjectRefs}
  IN  [objects : objects, kind : {"EXECUTION", "TRANSFER"},
       profile : {SparkProviderProfile(c, b, m) : c \in Clouds, b \in BOOLEAN, m \in 1..2},
       transfer : {NoTransfer} \cup TransferPlans(objects),
       target : {StoreOf[c] : c \in Clouds}]

Bytes(objects) ==
  LET sum[n \in 0..Len(objects)] == IF n = 0 THEN 0 ELSE sum[n - 1] + objects[n].bytes
  IN  sum[Len(objects)]

\* validate_catalog_execution_shape: the objects belong to the tenant of the
\* execution, fit the profile and are local; the receipt goes to the profile's store.
Shape(input) ==
  /\ \A n \in DOMAIN input.objects : input.objects[n].tenant = "own"
  /\ Bytes(input.objects) <= input.profile.maxBytes
  /\ DataLocal(input.profile, input.objects, input.kind, input.transfer)
  /\ input.target = input.profile.store

\* The locks of a deployed image: which manifests are pinned, whether it is
\* activated, and the profiles it lists.
RuntimeLocks ==
  [p3 : BOOLEAN, p4 : BOOLEAN, active : BOOLEAN, clouds : SUBSET Clouds]

\* validate_catalog_execution_p4_runtime: the P4 manifest is pinned, allowlisted
\* and the lock activates it.
P4Runtime(lock) == lock.p4 /\ lock.active

\* validate_catalog_execution_runtime: the lock is active, and the contract, the
\* digest and the provider profile of the input are on its lists.
Runtime(lock, input) == lock.active /\ lock.p3 /\ input.profile.cloud \in lock.clouds
=============================================================================
