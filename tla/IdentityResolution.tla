-------------------------- MODULE IdentityResolution --------------------------
(* One run of the identity resolver (identity_spark.py): the memberships, index  *)
(* rows, entities and conflicts that build_identity_resolution_dataframes makes  *)
(* of the delta D it reads, the history and the resolution config c.  A source   *)
(* node is a number, its order that of node_id; an entity is named by the node   *)
(* and the instant it was allocated for.  A row says [node, type, ids, rels,     *)
(* season, episode], where rels are its hierarchy relations [to, kind, season,   *)
(* episode] with the qualifiers, 0 for none.                                     *)
EXTENDS SourceLifecycle, Sequences, TLC

CONSTANT ImdbTitles   \* nodes of imdb-title with a tconst

VARIABLES
  mem,   \* community_entity_membership: {[node, ent, dec, from, to]}
  idx    \* community_external_id_index: {<<id, ent>>}

Open == 0
Version(m) == <<m.node, m.ent, m.dec, m.from>>

\* assert_no_membership_closure_conflicts
Torn ==
  \E m, n \in mem : Version(m) = Version(n) /\ m.to # Open /\ n.to # Open /\ m.to # n.to

\* select_effective_membership_versions: a closed version hides the open one.
Effective(now) ==
  {m \in mem : /\ m.from <= now
               /\ m.to = Open \/ m.to > now
               /\ m.to = Open => ~\E n \in mem : Version(n) = Version(m) /\ n.to # Open}

-----------------------------------------------------------------------------
(* The view of a run: the current assertions and the effective memberships, and  *)
(* the identifiers of each node with the entities that are known to have them.  *)
About(v, n) == {r \in v.rows : r.says.node = n}
TypesOf(v, n) == {r.says.type : r \in About(v, n)} \ {"none"}
Typed(v) == {n \in {r.says.node : r \in v.rows} : TypesOf(v, n) # {}}
TypeOf(v, n) == CHOOSE t \in TypesOf(v, n) : TRUE
Ids(v, n) == v.ids[n]
ObservedAt(v, n) == Min({r.at : r \in {x \in About(v, n) : x.says.type # "none"}})

Assigned(v) == {m.node : m \in v.eff}
Unassigned(v, types) == {n \in Typed(v) \ Assigned(v) : TypeOf(v, n) \in types}

\* The index so far and the identifiers of nodes that have a membership.
Known(v) ==
  idx \cup UNION {{<<i, m.ent>> : i \in Ids(v, m.node)} : m \in v.eff}

Candidates(v, n) == v.cands[n]

Raw(rows, eff, at) == [rows |-> rows, eff |-> eff, now |-> at, ids |-> <<>>, cands |-> <<>>]
Identified(v) ==
  [v EXCEPT !.ids = [n \in {r.says.node : r \in v.rows} \cup Assigned(v) |->
     IF TypesOf(v, n) = {} THEN {} ELSE UNION {r.says.ids : r \in About(v, n)}]]
Matched(v) ==
  [v EXCEPT !.cands = [n \in DOMAIN v.ids |-> {k[2] : k \in {x \in Known(v) : x[1] \in v.ids[n]}}]]

View(D, at) == Matched(Identified(Raw(CurrentRows(D, at), Effective(at), at)))

\* A key derived from what could not be resolved, of no entity of the ledger.
Synthetic == <<0, 0>>

\* The node's outcome: an entity, or a conflict over candidates, at least one.
Accepted(e) == [ent |-> e, reason |-> "none", cands |-> {}]
Conflicting(reason, cands) ==
  [ent |-> Synthetic, reason |-> reason, cands |-> IF cands = {} THEN {Synthetic} ELSE cands]

\* The candidates that are collected: those of a node that has not too many.
Collected(v, c, n) == IF Cardinality(Candidates(v, n)) > c.nodeKeys THEN {} ELSE Candidates(v, n)

\* Members of a component get its one candidate, or the anchor's allocation.
Decide(v, C, c, anchor) ==
  LET cands == UNION {Candidates(v, n) : n \in C}
  IN  CASE Cardinality(C) > c.size -> Conflicting("EXACT_BLOCKING_COMPONENT_TOO_LARGE", {})
        [] Cardinality(cands) > c.componentKeys -> Conflicting("COMPONENT_CANDIDATE_LIMIT", {})
        [] Cardinality(cands) > 1 -> Conflicting("MULTIPLE_EXACT_IDENTIFIER_CANDIDATES", cands)
        [] Cardinality(cands) = 1 -> Accepted(CHOOSE e \in cands : TRUE)
        [] OTHER -> Accepted(<<anchor, ObservedAt(v, anchor)>>)

-----------------------------------------------------------------------------
(* Works and series: components of nodes that share an exact identifier.        *)
Primary == {"WORK", "SERIES"}

Bounded(v, c, types) ==
  {n \in Unassigned(v, types) : Cardinality(Candidates(v, n)) <= c.nodeKeys}

\* assign_exact_blocking_component_ids: the labels after k rounds, each of which
\* gives a node the least label of the nodes it shares an identifier with.
Labels(v, c) ==
  LET N == Bounded(v, c, Primary)
      ids == [n \in N |-> Ids(v, n)]
      L[k \in 0..c.rounds] ==
        IF k = 0 THEN [n \in N |-> n]
        ELSE LET P == L[k - 1]
             IN  [n \in N |-> Min({P[m] : m \in {x \in N : x = n \/ ids[x] \cap ids[n] # {}}})]
  IN  L

\* Mutant: labels that still change after the last round are used.
ConvergesNever(v, c) == TRUE

Converges(v, c) == LET L == Labels(v, c) IN L[c.rounds] = L[c.rounds - 1]

ExactOutcomes(v, c) ==
  LET L == Labels(v, c)[c.rounds]
  IN  [n \in Unassigned(v, Primary) |->
        IF n \notin DOMAIN L
        THEN Conflicting("EXACT_BLOCKING_NODE_CANDIDATE_LIMIT_EXCEEDED", {})
        ELSE Decide(v, {m \in DOMAIN L : L[m] = L[n]}, c, L[n])]

\* The membership row an outcome opens.
OpenedBy(v, out) ==
  {[node |-> n, ent |-> out[n].ent, dec |-> "resolver",
    from |-> ObservedAt(v, n), to |-> Open] : n \in {x \in DOMAIN out : out[x].reason = "none"}}

-----------------------------------------------------------------------------
(* Seasons and episodes: bound to a resolved parent and their ordinals          *)
(* (build_parent_constrained_work).  P are the memberships of parents.          *)
Fields(v, n, f) == UNION {r.says[f] : r \in About(v, n)}
Relations(v, n) == UNION {r.says.rels : r \in About(v, n)}

\* A parent's level is that of its type in the same delta.
ParentLevel(v, p) ==
  IF p \in Typed(v) /\ TypeOf(v, p) \in {"SERIES", "SEASON"} THEN TypeOf(v, p) ELSE "none"

TypeCompatible(v, level, r) ==
  \/ ParentLevel(v, r.to) = "SERIES" /\ r.kind = "series"
  \/ level = "EPISODE" /\ ParentLevel(v, r.to) = "SEASON" /\ r.kind = "season"

\* The ordinal a relation is qualified with, or else the node's own field.
Ordinal(v, n, r, f) ==
  CASE r[f] # 0 -> r[f] [] Fields(v, n, f) = {} -> 0 [] OTHER -> Min(Fields(v, n, f))

Consistent(v, n, r, f) ==
  /\ Cardinality(Fields(v, n, f)) <= 1
  /\ r[f] = 0 \/ Fields(v, n, f) \subseteq {r[f]}

OrdinalCompatible(v, level, n, r) ==
  IF level = "SEASON"
  THEN Ordinal(v, n, r, "season") # 0 /\ Consistent(v, n, r, "season")
  ELSE /\ Ordinal(v, n, r, "episode") # 0 /\ Consistent(v, n, r, "episode")
       /\ \/ ParentLevel(v, r.to) = "SEASON"
          \/ Ordinal(v, n, r, "season") # 0 /\ Consistent(v, n, r, "season")

ParentsOf(P, r) == {m \in P : m.node = r.to}

\* One IMDb episode with one relation to an IMDb parent and no ordinal at all.
FallbackApplies(v, level, n) ==
  /\ level = "EPISODE" /\ n \in ImdbTitles
  /\ Cardinality(Relations(v, n)) = 1
  /\ Fields(v, n, "season") = {} /\ Fields(v, n, "episode") = {}
  /\ \A r \in Relations(v, n) :
       r.to \in ImdbTitles /\ TypeCompatible(v, level, r) /\ r.season = 0 /\ r.episode = 0

Choice(v, n, r, m) ==
  [parent |-> r.to, ent |-> m.ent, level |-> ParentLevel(v, r.to),
   season |-> Ordinal(v, n, r, "season"), episode |-> Ordinal(v, n, r, "episode")]

\* The binding of a child: a choice of parent and ordinals, or why there is none.
Binding(v, P, level, c, n) ==
  LET R == Relations(v, n)
      T == {r \in R : TypeCompatible(v, level, r)}
      O == {r \in T : OrdinalCompatible(v, level, n, r)}
      S == IF O = {} THEN T ELSE O
      choices == UNION {{Choice(v, n, r, m) : m \in ParentsOf(P, r)} :
                        r \in {x \in S : Cardinality(ParentsOf(P, x)) = 1}}
      reason == CASE Cardinality(Candidates(v, n)) > c.nodeKeys ->
                       "EXACT_BLOCKING_NODE_CANDIDATE_LIMIT_EXCEEDED"
                  [] R = {} -> "PARENT_MEMBERSHIP_UNRESOLVED"
                  [] T = {} -> "PARENT_TYPE_INCOMPATIBLE"
                  [] O = {} /\ ~FallbackApplies(v, level, n) -> "PARENT_ORDINAL_UNRESOLVED"
                  [] \E r \in S : Cardinality(ParentsOf(P, r)) > 1 -> "PARENT_MEMBERSHIP_AMBIGUOUS"
                  [] choices = {} -> "PARENT_MEMBERSHIP_UNRESOLVED"
                  [] Cardinality(choices) > 1 -> "PARENT_MEMBERSHIP_AMBIGUOUS"
                  [] OTHER -> "none"
  IN  [reason |-> reason, scoped |-> O = {},
       choice |-> IF reason = "none" THEN CHOOSE x \in choices : TRUE ELSE <<>>]

\* Children of one parent entity with the same ordinals are one component.
GroupOf(level, n, b) ==
  IF b.scoped THEN <<level, n>>
  ELSE <<level, b.choice.ent, b.choice.level, b.choice.season, b.choice.episode>>

ChildOutcomes(v, P, level, c) ==
  LET N == Unassigned(v, {level})
      B == [n \in N |-> Binding(v, P, level, c, n)]
      ready == {n \in N : B[n].reason = "none"}
      G == [n \in ready |-> {m \in ready : GroupOf(level, m, B[m]) = GroupOf(level, n, B[n])}]
  IN  [n \in N |-> IF n \in ready THEN Decide(v, G[n], c, Min(G[n]))
                   ELSE Conflicting(B[n].reason, Collected(v, c, n))]

\* Primary nodes, then seasons, then episodes; each is a parent of the next.
Levels == <<"PRIMARY", "SEASON", "EPISODE">>
Outcomes(v, c) ==
  LET out[k \in DOMAIN Levels] ==
        IF k = 1 THEN ExactOutcomes(v, c)
        ELSE LET P == out[k - 1]
             IN  P @@ ChildOutcomes(v, v.eff \cup OpenedBy(v, P), Levels[k], c)
  IN  out[Len(Levels)]

-----------------------------------------------------------------------------
(* Nodes that have a membership: looked at again, never rewritten.              *)
RecheckReason(v, c, n) ==
  LET held == {m.ent : m \in {x \in v.eff : x.node = n}}
  IN  CASE Cardinality({m \in v.eff : m.node = n}) # 1 -> "EXISTING_MEMBERSHIP_AMBIGUOUS"
        [] Cardinality(Candidates(v, n)) > c.nodeKeys ->
             "EXACT_BLOCKING_NODE_CANDIDATE_LIMIT_EXCEEDED"
        [] ~(Candidates(v, n) \subseteq held) -> "EXISTING_MEMBERSHIP_EXACT_ID_CONFLICT"
        [] OTHER -> "none"

Rechecked(v, c) ==
  LET N == {n \in Typed(v) \cap Assigned(v) : RecheckReason(v, c, n) # "none"}
  IN  [n \in N |-> Conflicting(RecheckReason(v, c, n),
         {m.ent : m \in {x \in v.eff : x.node = n}}
         \cup IF Collected(v, c, n) = Candidates(v, n) THEN Collected(v, c, n) ELSE {Synthetic})]

(* Inactive records: the membership of the one node a record was about is closed *)
(* at the time the record went inactive.  One row for each inactive record.     *)
Revoked(D, v) ==
  UNION {{[rec |-> e.rec, row |-> m, at |-> e.at] :
            m \in {x \in v.eff : x.to = Open /\ NodesOf(D, e.rec) = {x.node}}} :
         e \in Inactive(D, v.now)}

Unmapped(D, v) == {e \in Inactive(D, v.now) : Cardinality(NodesOf(D, e.rec)) # 1}
=============================================================================
