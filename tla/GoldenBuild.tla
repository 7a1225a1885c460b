----------------------------- MODULE GoldenBuild -----------------------------
(* GoldenBuildWorkflow and the evidence its activities ask for                *)
(* (temporal/activities/golden.py): preflight against a baseline snapshot and *)
(* its Identity run, the pre-identity snapshot, Identity (fresh, or another   *)
(* build's), the parentless epoch and the release.  Each stage is a command   *)
(* of SilverLineage, run as an EMR job, whose summary the activity compares   *)
(* with what it planned.  EmrPipeline has the jobs and the attempts.          *)
EXTENDS SilverLineage

CONSTANTS
  Builds,       \* build IDs, which issue commands
  SnapshotUri,  \* of each build: pre-identity-snapshot.json
  EpochUri,     \* of each build: silver-epoch.json
  Tmdb,         \* the pinned TMDB source runs
  Approved,     \* reviewed additive policy upgrades, as pairs
  KnownSources  \* the sources each source policy contract admits

VARIABLES
  policy,  \* the source policy contract of the deployed image
  gold     \* the builds

goldenVars == <<lineageVars, policy, gold>>

\* A build: its inputs, and what preflight, Identity and the epoch gave.
NoBuild == [pc |-> "idle", mode |-> None, gen |-> None, ident |-> SourceRun(None),
            spine |-> {}, contributing |-> {}, all |-> {}, reused |-> FALSE,
            policy |-> None, srcs |-> {}, result |-> SourceRun(None)]

Runs(S) == {SourceRun(s) : s \in S}
Names(S) == {x.name : x \in SourcesOf(S)}

\* _identity_source_run_ids: the planned candidates of a build.
Candidates(b) == IF b.mode = "full" THEN b.spine ELSE b.contributing \ b.ident.srcs

\* _validate_preflight_documents on the baseline: a snapshot of source runs and
\* one Identity run, in the generation that is extended, or another one.
BaselineAccepted(b, base) ==
  LET m == man[base] IN
  /\ m.kind = "snapshot"
  /\ Identities(m.runs) = {b.ident}
  /\ b.ident.srcs \subseteq Names(m.runs)
  /\ b.ident.gen = m.gen
  /\ b.ident.input \in Uris /\ man[b.ident.input].gen = m.gen
  /\ (b.mode = "incremental") = (m.gen = b.gen)

\* _normalized_source_run_states and the coverage checks that follow.
StatesAccepted(b, base) ==
  /\ b.contributing # {}
  /\ b.contributing \cup Names(man[base].runs) \subseteq KnownSources[b.policy]
  /\ \A s \in b.contributing \ b.spine :
       s \in Names(man[base].runs) \/ (b.reused /\ s \in Tmdb)
  /\ b.mode = "incremental" => b.ident.srcs \subseteq b.contributing
  /\ ~b.reused =>
       /\ Candidates(b) # {}
       /\ (IF b.mode = "full" THEN b.spine ELSE b.spine \ b.ident.srcs) = Candidates(b)

\* identity_source_policy_added_products knows the pair.
Compatible(from, to) == from = to \/ <<from, to>> \in Approved

\* Mutant: the reused run resolved some of the candidates, over any snapshot.
SomeReceipt(b, other) ==
  /\ other.result.kind = "incremental" /\ other.result.gen = b.gen
  /\ other.result.srcs \subseteq Candidates(b)
  /\ Compatible(other.result.policy, b.policy)

\* _validated_reused_identity: the receipt of another build names a successful
\* incremental job over a snapshot that is the planned one plus a lineage.
ReuseAccepted(b, other) ==
  /\ b.mode = "incremental"
  /\ other.result.kind = "incremental" /\ other.result.gen = b.gen
  /\ other.result.srcs # {} /\ other.result.srcs \subseteq Candidates(b)
  /\ man[other.result.input].kind = "snapshot"
  /\ b.all \subseteq man[other.result.input].runs
  /\ Compatible(other.result.policy, b.policy)

Goto(b, pc) == gold' = [gold EXCEPT ![b].pc = pc]

\* PrepareGoldenBuild writes the build's spec, once for a build ID.
Prepare(b, base, mode, g, ident, spine, contributing) ==
  LET plan(reused) ==
        [NoBuild EXCEPT !.mode = mode, !.gen = g, !.ident = ident, !.spine = spine,
                        !.contributing = contributing, !.reused = reused, !.policy = policy,
                        !.all = Runs(contributing) \cup
                                (IF mode = "full" THEN {} ELSE Runs(ident.srcs) \cup {ident}),
                        !.pc = "snapshot"]
      Accepted(p) == BaselineAccepted(p, base) /\ StatesAccepted(p, base)
  IN
  /\ gold[b].pc = "idle"
  /\ spine \subseteq contributing
  /\ \/ Accepted(plan(FALSE)) /\ gold' = [gold EXCEPT ![b] = plan(FALSE)]
     \/ \E o \in Builds \ {b} :
          /\ Accepted(plan(TRUE)) /\ ReuseAccepted(plan(TRUE), gold[o])
          /\ gold' = [gold EXCEPT ![b] = [plan(TRUE) EXCEPT !.result = gold[o].result]]
  /\ UNCHANGED <<lineageVars, policy>>

-----------------------------------------------------------------------------
(* The stages.  One EMR activity at a time (golden_worker.py).                *)
Fence(b) == \A o \in Builds : Ready(o)

Submit(b, from, to) == gold[b].pc = from /\ Fence(b) /\ Goto(b, to) /\ UNCHANGED policy

\* A stage that was refused is tried again, or fails the build.
Refused(b, from, to) ==
  /\ gold[b].pc = from /\ cmd[b].pc = "done" /\ cmd[b].out # "ok"
  /\ Goto(b, to) \/ Goto(b, "failed")
  /\ UNCHANGED <<lineageVars, policy>>

Succeeded(b, from) ==
  gold[b].pc = from /\ cmd[b].pc = "done" /\ cmd[b].out = "ok"

SubmitSnapshot(b) ==
  /\ Submit(b, "snapshot", "snapshotting")
  /\ BeginSnapshot(b, SnapshotUri[b], gold[b].gen, gold[b].all, gold[b].mode = "full")

\* publish_golden_snapshot: the request, its lineage and the unprocessed sources.
TakeSnapshot(b) ==
  LET m == man[SnapshotUri[b]]
      unprocessed == IF Identities(m.runs) = {} THEN {} ELSE Unprocessed(m.runs)
      valid == IF gold[b].mode = "full" THEN unprocessed = {} /\ m.runs = gold[b].all
               ELSE unprocessed # {} /\ unprocessed \subseteq Candidates(gold[b])
  IN
  /\ Succeeded(b, "snapshotting")
  /\ IF ~valid THEN Goto(b, "failed")
     ELSE gold' = [gold EXCEPT ![b].pc = IF gold[b].reused THEN "epoch" ELSE "identity",
                               ![b].srcs = IF gold[b].mode = "full" THEN Candidates(gold[b])
                                           ELSE unprocessed]
  /\ UNCHANGED <<lineageVars, policy>>

\* resolve_golden_identity: the job refuses a pinned policy it does not have.
SubmitIdentity(b) ==
  /\ Submit(b, "identity", "resolving")
  /\ policy = gold[b].policy
  /\ BeginResolve(b, SnapshotUri[b], gold[b].gen, gold[b].mode, gold[b].srcs, policy)

\* A job ends before it reads or writes: the generation is not empty, the policy
\* is another one, or the input is not to be resolved.
JobRejects(b) ==
  /\ Fence(b)
  /\ \/ /\ gold[b].pc = "snapshot" /\ gold[b].mode = "full"
        /\ IdentityRows(rows, gold[b].gen) # {}
     \/ /\ gold[b].pc = "identity"
        /\ \/ policy # gold[b].policy
           \/ ~Resolvable(SnapshotUri[b], gold[b].gen, gold[b].mode, gold[b].srcs)
  /\ Goto(b, "failed")
  /\ UNCHANGED <<lineageVars, policy>>

TakeIdentity(b) ==
  /\ Succeeded(b, "resolving")
  /\ gold' = [gold EXCEPT ![b].pc = "epoch", ![b].result = cmd[b].run]
  /\ UNCHANGED <<lineageVars, policy>>

SubmitEpoch(b) ==
  /\ Submit(b, "epoch", "publishing")
  /\ BeginEpoch(b, EpochUri[b], gold[b].gen, gold[b].all \cup {gold[b].result}, None)

\* publish_golden_epoch: the delta is the request and its lineage, and all there is.
TakeEpoch(b) ==
  LET m == man[EpochUri[b]] IN
  /\ Succeeded(b, "publishing")
  /\ Goto(b, IF /\ gold[b].all \cup {gold[b].result} \subseteq m.delta
                /\ Cardinality(m.runs) = Cardinality(m.delta)
             THEN "release" ELSE "failed")
  /\ UNCHANGED <<lineageVars, policy>>

\* _validate_identity_source_policy_provenance of the Gold job: an Identity run
\* under the current policy, or one under an approved predecessor and no source
\* that the upgrade added.
PolicyBound(epoch, p) ==
  \/ \E x \in Identities(epoch) : x.policy = p
  \/ \E x \in Identities(epoch) :
       <<x.policy, p>> \in Approved /\ Names(epoch) \subseteq KnownSources[x.policy]

\* submit_golden_release, and the commit of the release it submits.
Release(b) ==
  LET admitted == /\ policy = gold[b].policy
                  /\ Compatible(gold[b].result.policy, policy)
                  /\ PolicyBound(man[EpochUri[b]].runs, policy)
  IN
  /\ gold[b].pc = "release" /\ Fence(b)
  /\ Goto(b, IF admitted THEN "released" ELSE "failed")
  /\ UNCHANGED <<lineageVars, policy>>

\* A new image brings the next contract.
Deploy(p) ==
  /\ <<policy, p>> \in Approved
  /\ policy' = p
  /\ UNCHANGED <<lineageVars, gold>>

Stages(b) ==
  \/ SubmitSnapshot(b) \/ TakeSnapshot(b) \/ Refused(b, "snapshotting", "snapshot")
  \/ SubmitIdentity(b) \/ JobRejects(b) \/ TakeIdentity(b)
  \/ Refused(b, "resolving", "identity")
  \/ SubmitEpoch(b) \/ TakeEpoch(b) \/ Refused(b, "publishing", "epoch")
  \/ Release(b)

-----------------------------------------------------------------------------
\* ResolveGoldenIdentity and the reuse receipt: in an incremental release every
\* source run is resolved, by exactly one Identity run of its epoch, fresh, reused
\* or inherited, under a contract that admits the source; in a full one the whole
\* spine is, though builds, deployments and dead jobs come in between.
ReleaseIsResolved ==
  \A b \in Builds : gold[b].pc = "released" =>
    LET epoch == man[EpochUri[b]].runs
        owed == IF gold[b].mode = "full" THEN gold[b].spine ELSE Names(epoch)
        by(s) == {x \in Identities(epoch) : s \in x.srcs}
    IN  \A s \in owed :
          Cardinality(by(s)) = 1 /\ \A x \in by(s) : s \in KnownSources[x.policy]
=============================================================================
