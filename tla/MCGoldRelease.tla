---------------------------- MODULE MCGoldRelease ----------------------------
(* From source runs to a release: the Silver commands of operators beside an  *)
(* ingest, two Golden builds, or the Gold drivers of stage_and_commit, one    *)
(* cast for each behaviour.  Gold drivers are two of one plan and one of      *)
(* another, on a catalog that refuses a MERGE whose base moved or lets it     *)
(* land, or one of each plan.                                                 *)
EXTENDS GoldRelease

CONSTANTS
  Sources, Generations, Uris, Actors,                             \* SilverLineage
  Builds, SnapshotUri, EpochUri, Tmdb, Approved, KnownSources,    \* GoldenBuild
  MaxCommands  \* commands of operators

VARIABLES cast, used, runs, rows, marks, man, cmd, policy, gold

G == INSTANCE GoldenBuild

drivers == <<tbl, planRows, commits, bld>>
silver == <<runs, rows, marks, man, cmd, policy, gold>>
castVars == <<cast, used, drivers, silver>>

-----------------------------------------------------------------------------
(* Gold drivers                                                               *)
MCPlanOf == [b \in Builders |-> IF b = "c" THEN "p2" ELSE "p1"]
MCTableOrder == <<"entity", "field", "conflict">>
MCKeys == [p \in Plans |-> [t \in {"entity", "field", "conflict"} |->
  IF t = "conflict" THEN {} ELSE {<<p, "k1">>} \cup (IF t = "field" THEN {<<p, "k2">>} ELSE {})]]

GoldCasts == {"refusing", "landing", "plans"}

\* The cast "plans", which leaves out "b", has no two drivers of one plan.
ASSUME PlansApart ==
  \A b, c \in Builders \ {"b"} : b # c => PlanOf[b] # PlanOf[c]

\* A MERGE whose table moved since its anti-join.
Stale(b) ==
  LET head == CASE bld[b].pc = "plan_land" -> Len(planRows)
                [] bld[b].pc = "commit_land" -> Len(commits)
                [] bld[b].pc = "land" -> tbl[TableOrder[bld[b].i]].head
                [] OTHER -> bld[b].base
  IN  head # bld[b].base

DriverStep(b) ==
  /\ cast \in GoldCasts
  /\ cast = "plans" => b # "b"
  /\ Build(b) \/ Crash(b)
  /\ cast = "refusing" /\ Stale(b) =>
       <<tbl, planRows, commits>>' = <<tbl, planRows, commits>>
  /\ UNCHANGED <<cast, used, silver>>

-----------------------------------------------------------------------------
(* Silver commands.  The history: a full Identity run over the first source,  *)
(* an incremental one over that and the second source, and, from before       *)
(* publications closed over their lineage, a snapshot that lacks the first.   *)
S1 == G!SourceRun("s1")
S2 == G!SourceRun("s2")
Full == G!IdentityRun("full", "past", "g1", "u0", {"s1"}, "p1")
Incremental == G!IdentityRun("incremental", "past", "g1", "u1", {"s2"}, "p1")

Snapshot(S, all) ==
  [kind |-> "snapshot", gen |-> "g1", runs |-> S, delta |-> {}, parent |-> "none",
   heads |-> [commits |-> all, runs |-> all, data |-> all]]

Legacy == {"u2"}

\* The catalog names the history's publications, "none" is not a location, the
\* builds publish somewhere and the first contract knows the history's sources.
ASSUME HistoryAssumption ==
  /\ IsFiniteSet(Uris) /\ {"u0", "u1", "u2"} \subseteq Uris /\ G!None \notin Uris
  /\ Builds \subseteq Actors /\ SnapshotUri \in [Builds -> Uris] /\ EpochUri \in [Builds -> Uris]
  /\ "s1" \in KnownSources["p1"] /\ "s2" \in KnownSources["p1"]

History(all) ==
  /\ runs = all /\ rows = all /\ marks = all
  /\ man = [u \in Uris |->
       CASE u = "u0" -> Snapshot({S1}, {S1})
         [] u = "u1" -> Snapshot({S1, S2, Full}, {S1, S2, Full})
         [] u \in Legacy /\ Incremental \in all -> Snapshot({S1, S2, Incremental}, all)
         [] OTHER -> G!NoManifest]
  /\ cmd = [a \in Actors |-> G!Idle]

SilverInit ==
  CASE cast = "commands" -> History({S1, S2, Full}) \/ History({S1, S2, Full, Incremental})
    [] cast = "builds" -> History({S1, S2, Full, Incremental} \cup G!Runs({"s3", "s4"}))
    [] OTHER -> History({})

\* Where the next publication goes, and what it may ask for: all or all but one.
NextUri == IF man["as"] = G!NoManifest THEN "as" ELSE "bs"
Requests == {S \in SUBSET runs : Cardinality(runs \ S) <= 1} \cup {G!SourcesOf(runs)}

\* The second operator comes in while the first one's command runs.
Command(a) ==
  /\ used < MaxCommands /\ used' = used + 1
  /\ a = "b" => ~G!Ready("a")
  /\ \/ \E S \in Requests : G!BeginSnapshot(a, NextUri, "g1", S, FALSE)
     \/ \E S \in Requests : G!BeginEpoch(a, NextUri, "g1", S, "none")
     \/ \E S \in Requests, p \in {u \in Uris : man[u].kind = "epoch"} :
          G!BeginEpoch(a, NextUri, "g1", S \ man[p].runs, p)
     \/ \E u \in Uris, mode \in {"full", "incremental"}, S \in SUBSET Sources :
          G!BeginResolve(a, u, "g1", mode, S, policy)

CommandStep ==
  /\ cast = "commands"
  /\ \/ G!Ingest("s3") /\ UNCHANGED used
     \/ \E a \in Actors : G!Driver(a) /\ UNCHANGED used
     \/ \E a \in Actors : Command(a)
  /\ UNCHANGED <<cast, drivers, policy, gold>>

-----------------------------------------------------------------------------
(* Golden builds: the contract of p2 admits a fourth source.                  *)
MCSnapshotUri == [b \in Builds |-> IF b = "a" THEN "as" ELSE "bs"]
MCEpochUri == [b \in Builds |-> IF b = "a" THEN "ae" ELSE "be"]
MCApproved == {<<"p1", "p2">>}
MCKnownSources == [p \in {"p1", "p2"} |-> IF p = "p1" THEN {"s1", "s2", "s3"} ELSE Sources]

Contributions == {Sources, {"s1", "s2", "s3"}, {"s2", "s3"}}

Prepare(b) ==
  \E base \in {"u1", "u2"}, mode \in {"full", "incremental"}, g \in Generations,
     ident \in {Full, Incremental}, contributing \in Contributions :
    \E spine \in {contributing, contributing \ Tmdb} :
      G!Prepare(b, base, mode, g, ident, spine, contributing)

BuildStep ==
  /\ cast = "builds"
  /\ \/ \E b \in Builds : (b = "b" => gold["a"].pc # "idle") /\ Prepare(b)
     \/ \E b \in Builds : G!Stages(b)
     \/ \E b \in Builds : G!Driver(b) /\ UNCHANGED <<policy, gold>>
     \/ \E p \in DOMAIN KnownSources : G!Deploy(p)
  /\ UNCHANGED <<cast, used, drivers>>

-----------------------------------------------------------------------------
MCInit ==
  /\ cast \in GoldCasts \cup {"commands", "builds"}
  /\ Init /\ SilverInit
  /\ used = 0 /\ policy = "p1"
  /\ gold = [b \in Builds |-> G!NoBuild]

MCNext == (\E b \in Builders : DriverStep(b)) \/ CommandStep \/ BuildStep
MCSpec == MCInit /\ [][MCNext]_castVars

\* A release becomes visible in one step, whole and for good: the current tables
\* hold each planned row of a published release once, for two drivers of one
\* plan as well when the catalog refuses a MERGE whose base moved.
ReleasesAreAtomic ==
  [][cast # "landing" => Atomic!Next \/ UNCHANGED VisibleReleases]_castVars

\* A manifest that holds an Identity run holds every run whose state it extends,
\* and a publication never misses rows of a committed run because others write.
ManifestsAreWhole == G!LineageClosed(Legacy) /\ G!NeverTorn
\* An incremental release has each of its sources resolved by one Identity run,
\* and no source is resolved again on top of Identity runs that resolved it.
ReleaseIsResolved == G!ReleaseIsResolved /\ G!ResolvedOnce
=============================================================================
