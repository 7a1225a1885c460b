---------------------------- MODULE SilverLineage ----------------------------
(* The control commands of Research Silver (research_silver_cli.py):          *)
(* publish-snapshot, publish-epoch and resolve-identity.  A manifest pins the *)
(* heads of the run, commit and data tables and names the runs a reader may   *)
(* see; an incremental Identity run extends the manifest it was computed      *)
(* from, so a manifest that holds the run must hold the Identity runs of that *)
(* manifest as well.  Every command reads the heads one after the other while *)
(* others write.  An Iceberg snapshot is the set of runs it holds; the writes *)
(* of stage_and_commit are CommunityIngest's, here one action per table kind. *)
EXTENDS Naturals, FiniteSets

CONSTANTS
  Sources,      \* source runs
  Generations,  \* Identity generations, each with its own Identity tables
  Uris,         \* where manifests are published
  Actors        \* who issues commands

VARIABLES
  runs,   \* community_ingest_run: the manifests of runs
  rows,   \* the runs with rows in the data tables
  marks,  \* community_ingest_commit: the committed runs
  man,    \* the manifest published at each URI
  cmd     \* the command each actor runs or ran last

lineageVars == <<runs, rows, marks, man, cmd>>

None == "none"

\* A run: a source's, or an Identity resolution of sources over a manifest.
SourceRun(s) == [kind |-> "source", name |-> s, gen |-> None, input |-> None,
                 srcs |-> {}, policy |-> None]
IdentityRun(mode, who, g, u, S, p) ==
  [kind |-> mode, name |-> who, gen |-> g, input |-> u, srcs |-> S, policy |-> p]

SourcesOf(S) == {x \in S : x.kind = "source"}
Identities(S) == {x \in S : x.kind # "source"}
Resolved(S) == UNION {x.srcs : x \in Identities(S)}

\* The Identity tables of a generation belong to it alone.
IdentityRows(S, g) == {x \in Identities(S) : x.gen = g}

\* _validate_run_generations, and the selection of
\* generation_committed_runs_dataframe at two heads.
OfGeneration(S, g) == SourcesOf(S) \cup IdentityRows(S, g)
Available(h, g) == OfGeneration(h.commits \cap h.runs, g)

\* The heads a manifest pins, each a set of runs.
Heads == [commits |-> marks, runs |-> runs, data |-> rows]
NoHeads == [commits |-> {}, runs |-> {}, data |-> {}]

NoManifest == [kind |-> None, gen |-> None, runs |-> {}, delta |-> {}, parent |-> None,
               heads |-> NoHeads]

\* The runs of a snapshot are listed; those of an epoch are a count and a digest,
\* which a reader may compare with, and the deltas of its chain.
EpochChain(u) ==
  LET back[n \in 0..Cardinality(Uris)] ==
        IF n = 0 THEN {u}
        ELSE LET S == back[n - 1] IN S \cup {man[v].parent : v \in S \ {None}}
  IN  back[Cardinality(Uris)] \ {None}

ExplicitRuns(u) ==
  IF man[u].kind = "snapshot" THEN man[u].runs
  ELSE UNION {man[v].delta : v \in EpochChain(u)}

Enumerable(u) ==
  \/ man[u].kind = "snapshot"
  \/ /\ \A v, w \in EpochChain(u) : v # w => man[v].delta \cap man[w].delta = {}
     /\ \A v \in EpochChain(u) : man[v].gen = man[u].gen
     /\ Cardinality(ExplicitRuns(u)) = Cardinality(man[u].runs)

\* The manifests that Identity runs extend: a full run extends none.
Extended(S) == {x.input : x \in {y \in S : y.kind = "incremental"}}

\* The Identity runs of S and all that they extend.
IdentityClosure(S) ==
  LET reach[n \in 0..Cardinality(Uris)] ==
        IF n = 0 THEN Identities(S)
        ELSE LET T == reach[n - 1] IN
             T \cup Identities(UNION {ExplicitRuns(u) : u \in Extended(T)})
  IN  reach[Cardinality(Uris)]

\* _publication_identity_lineage_run_ids: what a publication adds to its request.
Lineage(S) == IdentityClosure(S) \ S

LineageReadable(S, g) ==
  \A u \in Extended(S \cup Lineage(S)) :
    /\ man[u].kind # None
    /\ man[u].gen = g
    /\ Enumerable(u)
    /\ ExplicitRuns(u) = OfGeneration(ExplicitRuns(u), g)

-----------------------------------------------------------------------------
(* A command and its place: "idle", the head it reads next, "publish", or     *)
(* "stage", "land", "commit" of a resolution, and "done".                     *)
Idle == [pc |-> "idle", op |-> None, uri |-> None, gen |-> None, req |-> {},
         parent |-> None, run |-> SourceRun(None), heads |-> NoHeads, out |-> None]

Ready(a) == cmd[a].pc \in {"idle", "done"}
Turn(a, upd) == cmd' = [cmd EXCEPT ![a] = upd]
End(a, out) == Turn(a, [Idle EXCEPT !.pc = "done", !.run = cmd[a].run, !.out = out])
Tables == <<runs, rows, marks>>

\* A source run is ingested: its manifest, its rows, its marker.
Ingest(s) ==
  LET x == SourceRun(s) IN
  /\ \/ x \notin runs /\ runs' = runs \cup {x} /\ UNCHANGED <<rows, marks>>
     \/ x \in runs \ rows /\ rows' = rows \cup {x} /\ UNCHANGED <<runs, marks>>
     \/ x \in rows \ marks /\ marks' = marks \cup {x} /\ UNCHANGED <<runs, rows>>
  /\ UNCHANGED <<man, cmd>>

\* Mutant: the commits last.
CommitsLast == <<"runs", "data", "commits">>

\* What is committed is in the heads that are read later.
HeadOrder == <<"commits", "runs", "data">>

\* publish-snapshot, with --initialize-identity-generation or without.
BeginSnapshot(a, u, g, req, initialize) ==
  /\ Ready(a) /\ req # {}
  /\ initialize => IdentityRows(rows, g) = {}
  /\ Turn(a, [Idle EXCEPT !.pc = HeadOrder[1], !.op = "snapshot", !.uri = u, !.gen = g,
                          !.req = req])
  /\ UNCHANGED <<Tables, man>>

\* publish-epoch, on a parent or on none; no delta asks for all there is.
BeginEpoch(a, u, g, req, parent) ==
  /\ Ready(a)
  /\ parent # None => man[parent].kind = "epoch" /\ man[parent].gen = g
  /\ Turn(a, [Idle EXCEPT !.pc = HeadOrder[1], !.op = "epoch", !.uri = u, !.gen = g,
                          !.req = req, !.parent = parent])
  /\ UNCHANGED <<Tables, man>>

ReadHead(a) ==
  /\ cmd[a].pc \in DOMAIN NoHeads
  /\ LET i == CHOOSE k \in 1..3 : HeadOrder[k] = cmd[a].pc IN
     Turn(a, [cmd[a] EXCEPT !.heads[cmd[a].pc] = Heads[cmd[a].pc],
                            !.pc = IF i = 3 THEN "publish" ELSE HeadOrder[i + 1]])
  /\ UNCHANGED <<Tables, man>>

\* Mutant: a snapshot holds what was asked for.
EpochsOnly(a) ==
  IF cmd[a].op = "epoch" /\ cmd[a].parent = None THEN Lineage(cmd[a].req) ELSE {}

\* The runs a publication adds to its request: on a parent, none.
Added(a) ==
  IF cmd[a].op = "epoch" /\ cmd[a].parent # None THEN {} ELSE Lineage(cmd[a].req)

\* What a publication says: the runs it selects, and its delta.
Selected(a) ==
  LET asked == cmd[a].req \cup Added(a) IN
  IF cmd[a].op = "epoch" /\ (cmd[a].parent # None \/ asked = {})
  THEN Available(cmd[a].heads, cmd[a].gen)
  ELSE asked

Proposed(a) ==
  [kind |-> cmd[a].op, gen |-> cmd[a].gen, runs |-> Selected(a),
   delta |-> IF cmd[a].op = "epoch" THEN cmd[a].req \cup Added(a) ELSE {},
   parent |-> cmd[a].parent, heads |-> cmd[a].heads]

\* Every selected run is committed, described and counted at the pinned heads
\* (_load_run_state, select_committed_runs, _verify_data_counts).
Pinned(a) == \A t \in DOMAIN NoHeads : Selected(a) \subseteq cmd[a].heads[t]

\* _incremental_unprocessed_source_run_ids: represented sources must be there.
Represented(S) == Resolved(S) \subseteq {x.name : x \in SourcesOf(S)}

Unprocessed(S) == {x.name : x \in SourcesOf(S)} \ Resolved(S)

\* validate_epoch_committed_runs of the parent, then _validate_epoch_delta.
DeltaIsExact(a) ==
  cmd[a].parent # None =>
    LET p == man[cmd[a].parent] IN
    /\ p.runs = Available(p.heads, p.gen)
    /\ p.runs \subseteq Selected(a)
    /\ Selected(a) \ p.runs = cmd[a].req

\* The checks of _run_snapshot_publication and _run_epoch_publication.
Publishable(a) ==
  /\ Selected(a) # {}
  /\ Pinned(a)
  /\ Selected(a) = OfGeneration(Selected(a), cmd[a].gen)
  /\ cmd[a].parent = None => LineageReadable(cmd[a].req, cmd[a].gen)
  /\ cmd[a].op = "snapshot" => Represented(Selected(a))
  /\ DeltaIsExact(a)

\* upload_bytes does not replace an object: the same bytes are found again.
Publish(a) ==
  /\ cmd[a].pc = "publish"
  /\ IF Publishable(a) /\ man[cmd[a].uri] \in {NoManifest, Proposed(a)}
     THEN /\ man' = [man EXCEPT ![cmd[a].uri] = Proposed(a)]
          /\ End(a, "ok")
     ELSE /\ End(a, IF Selected(a) \subseteq cmd[a].heads.commits /\ ~Pinned(a)
                    THEN "torn" ELSE "refused")
          /\ UNCHANGED man
  /\ UNCHANGED Tables

-----------------------------------------------------------------------------
(* resolve-identity                                                           *)

\* Mutant: the lineage is read and not required.
Unclosed(S, g) == LineageReadable(S, g)

\* _require_closed_identity_lineage: the Identity runs that S extends are in S.
Closed(S, g) == LineageReadable(S, g) /\ Lineage(S) = {}

\* _run_identity up to the resolution: an incremental run takes the unprocessed
\* sources of a closed manifest whose Identity heads are still the heads; a full
\* one takes what it is given, into empty tables.
Resolvable(u, g, mode, S) ==
  LET m == man[u] IN
  /\ m.kind # None
  /\ S # {} /\ S \subseteq {x.name : x \in SourcesOf(m.runs)}
  /\ mode = "full" => IdentityRows(rows, g) = {}
  /\ mode = "incremental" =>
       /\ m.gen = g
       /\ IdentityRows(rows, g) = IdentityRows(m.heads.data, g)
       /\ m.kind = "snapshot" => Closed(m.runs, g)
       /\ Identities(m.runs) # {}
       /\ Represented(m.runs)
       /\ S = Unprocessed(m.runs)

BeginResolve(a, u, g, mode, S, policy) ==
  /\ Ready(a)
  /\ Resolvable(u, g, mode, S)
  /\ Turn(a, [Idle EXCEPT !.pc = "stage", !.op = "resolve", !.uri = u, !.gen = g,
                          !.run = IdentityRun(mode, a, g, u, S, policy)])
  /\ UNCHANGED <<Tables, man>>

\* stage_and_commit up to the run's manifest: an exact retry returns the commit,
\* rows without one ask for a rollback, the heads are compared once more, and a
\* key owned by a run outside the pinned lineage is refused.
Stage(a) ==
  LET x == cmd[a].run
      pinned == man[cmd[a].uri]
      foreign == IdentityRows(rows, x.gen) \ pinned.runs
      admitted == /\ x \notin rows
                  /\ x.kind = "full" => IdentityRows(rows, x.gen) = {}
                  /\ x.kind = "incremental" =>
                       IdentityRows(rows, x.gen) = IdentityRows(pinned.heads.data, x.gen)
  IN
  /\ cmd[a].pc = "stage"
  /\ \/ x \in marks /\ End(a, "ok") /\ UNCHANGED Tables
     \/ x \notin marks /\ (~admitted \/ foreign # {}) /\ End(a, "refused") /\ UNCHANGED Tables
     \/ /\ x \notin marks /\ admitted
        /\ runs' = runs \cup {x}
        /\ Turn(a, [cmd[a] EXCEPT !.pc = "land"])
        /\ UNCHANGED <<rows, marks>>
  /\ UNCHANGED man

\* Its rows land.  Rows of others that came in meanwhile may hold some of its
\* keys, and then its counts differ and it stops.
Land(a) ==
  LET x == cmd[a].run IN
  /\ cmd[a].pc = "land"
  /\ rows' = rows \cup {x}
  /\ \/ Turn(a, [cmd[a] EXCEPT !.pc = "commit"])
     \/ /\ IdentityRows(rows, x.gen) # IdentityRows(man[cmd[a].uri].heads.data, x.gen)
        /\ End(a, "refused")
  /\ UNCHANGED <<runs, marks, man>>

CommitRun(a) ==
  /\ cmd[a].pc = "commit"
  /\ marks' = marks \cup {cmd[a].run}
  /\ End(a, "ok")
  /\ UNCHANGED <<runs, rows, man>>

\* The driver dies; before it writes, that leaves nothing behind.
Die(a) ==
  /\ cmd[a].pc \in {"land", "commit"}
  /\ End(a, "refused")
  /\ UNCHANGED <<Tables, man>>

Driver(a) ==
  \/ ReadHead(a) \/ Publish(a)
  \/ Stage(a) \/ Land(a) \/ CommitRun(a) \/ Die(a)

-----------------------------------------------------------------------------
(* What the manifests promise.  A history from before publications closed     *)
(* over their lineage may hold manifests that do not; Legacy names them.      *)

\* publish-snapshot and publish-epoch: a manifest that holds an Identity run
\* holds every Identity run whose state that run extends.
LineageClosed(legacy) ==
  \A u \in Uris \ legacy : IdentityClosure(man[u].runs) \subseteq man[u].runs

\* resolve-identity in incremental mode: no source is resolved a second time on
\* top of Identity runs that have resolved it, whatever manifest is handed in.
ResolvedOnce ==
  \A x \in Identities(marks) :
    \A y \in IdentityClosure({x}) \ {x} : x.srcs \cap y.srcs = {}

\* The reading order of the heads: runs that are committed are never missed for
\* their manifests or rows because others write while a publication reads.
NeverTorn == \A a \in Actors : cmd[a].out # "torn"
=============================================================================
