----------------------------- MODULE IdentityRuns -----------------------------
(* The runs of one Identity generation over the source runs committed beside it: *)
(* the full and incremental resolver runs of research_silver_cli.py and the      *)
(* review manifests of identity_curation.py.  A run is one step here: that it is *)
(* committed as a whole, on the table heads it was computed from, is the subject *)
(* of CommunityIngest.                                                           *)
EXTENDS IdentityResolution

CONSTANTS
  Scripts,   \* orders in which source batches are committed
  Configs,   \* identity resolution configs a run may be started with
  MaxReviews \* bound on the review manifests applied

VARIABLES
  queue,  \* the batches to come
  done,   \* the batches whose source run is committed
  seen,   \* those a resolver run of the generation names in its sourceRunIds
  now,    \* the clock
  led,    \* community_entity_ledger: {[ent, level]}
  red,    \* community_entity_redirect: {[src, dst]}
  conf,   \* community_identity_conflict: {[node, cands, reason, run]}
  rev     \* conflicts with HUMAN_REVIEW evidence

identityVars == <<queue, done, seen, now, mem, idx, led, red, conf, rev>>

IdentityInit ==
  /\ queue \in Scripts
  /\ done = {} /\ seen = {} /\ now = 0
  /\ mem = {} /\ idx = {} /\ led = {} /\ red = {} /\ conf = {} /\ rev = {}

CommitBatch ==
  /\ queue # <<>>
  /\ done' = done \cup {Head(queue)}
  /\ queue' = Tail(queue)
  /\ now' = Max({now, Batches[Head(queue)].at}) + 1
  /\ UNCHANGED <<seen, mem, idx, led, red, conf, rev>>

-----------------------------------------------------------------------------
(* Resolver runs.  The first is a full one, over source runs the operator names; *)
(* the others read exactly the source runs no run has named.                    *)
Delta == done \ seen
Inputs == IF seen = {} THEN SUBSET done \ {{}} ELSE {Delta} \ {{}}

\* A run over D that raises writes nothing.
Resolvable(D, v, c) ==
  /\ ~Torn /\ Readable(D) /\ Converges(v, c)
  /\ \A n \in Typed(v) : Cardinality(TypesOf(v, n)) = 1
  /\ \A r \in Revoked(D, v) : r.at >= r.row.from
  /\ \A r, s \in Revoked(D, v) : r.row = s.row /\ r.at = s.at => r = s   \* duplicate keys

Raised(out, run) ==
  {[node |-> n, cands |-> out[n].cands, reason |-> out[n].reason, run |-> run] :
     n \in {x \in DOMAIN out : out[x].reason # "none"}}

\* A conflict of a record whose node is not known, over no entity of the ledger.
RaisedUnmapped(D, v, run) ==
  {[node |-> IF NodesOf(D, e.rec) = {} THEN 0 ELSE Min(NodesOf(D, e.rec)), cands |-> {Synthetic},
    reason |-> e.rec, run |-> run] : e \in Unmapped(D, v)}

Resolve(D, c) ==
  \E v \in {View(D, now)} : \E out \in {Outcomes(v, c)} : \E opened \in {OpenedBy(v, out)} :
    /\ Resolvable(D, v, c)
    /\ seen' = seen \cup D
    /\ mem' = mem \cup opened \cup {[r.row EXCEPT !.to = r.at] : r \in Revoked(D, v)}
    /\ idx' = idx \cup UNION {{<<i, m.ent>> : i \in Ids(v, m.node)} : m \in opened}
    /\ led' = led \cup {[ent |-> m.ent, level |-> TypeOf(v, m.node)] :
                        m \in {x \in opened : x.ent[1] = x.node /\ x.ent[2] = x.from}}
    /\ conf' = conf \cup Raised(out, now) \cup Raised(Rechecked(v, c), now)
                    \cup RaisedUnmapped(D, v, now)
    /\ now' = now + 1
    /\ UNCHANGED <<queue, done, red, rev>>

-----------------------------------------------------------------------------
(* Review manifests: operations on distinct conflicts of the pinned snapshot.   *)
(* An operation is what it would write: [of, opens, closes, reds, new].         *)
Entities == {e.ent : e \in led}
LevelOf(e) == (CHOOSE x \in led : x.ent = e).level
KindOf(n) ==
  CHOOSE t \in {r.says.type : r \in {x \in UNION {Rows(b) : b \in done} :
                  x.op = "UPSERT" /\ x.says.node = n}} : t # "none"
Active(n) == {m \in Effective(now) : m.node = n}

Operation(k, opens, closes, reds, new) ==
  [of |-> k, opens |-> opens, closes |-> closes, reds |-> reds, new |-> new]
Assign(n, e) == [node |-> n, ent |-> e, dec |-> "review", from |-> now, to |-> Open]
Redirect(s, t) == [src |-> s, dst |-> t]

\* Candidates of the conflict that are entities its node could belong to.
Fitting(k) == {e \in k.cands \cap Entities : LevelOf(e) = KindOf(k.node)}

Accepts(k) == {Operation(k, {Assign(k.node, e)}, {}, {}, {}) : e \in Fitting(k)}
Rejects(k) == {Operation(k, {}, {}, {}, {}) : e \in Fitting(k)}

\* The survivor of a merge is the candidate created first.
Older(e, f) == e[2] < f[2] \/ (e[2] = f[2] /\ e[1] <= f[1])
Merges(k) ==
  IF Cardinality(k.cands) < 2 \/ Fitting(k) # k.cands THEN {}
  ELSE LET s == CHOOSE e \in k.cands : \A f \in k.cands : Older(e, f)
       IN  {Operation(k, {Assign(k.node, s)}, {}, {Redirect(e, s) : e \in k.cands \ {s}}, {})}

Redirects(k) ==
  {Operation(k, {Assign(k.node, p[2])}, {}, {Redirect(p[1], p[2])}, {}) :
     p \in {q \in Fitting(k) \X Fitting(k) : q[1] # q[2]}}

\* A split assigns every member of the source, and the conflict's node, again.
Splits(k) ==
  UNION {LET members == {m \in Effective(now) : m.ent = s}
             nodes == {m.node : m \in members} \cup {k.node}
             fresh == <<-k.node, now>>
             targets == {e \in Entities : LevelOf(e) = LevelOf(s)} \cup {fresh}
         IN  {Operation(k, {Assign(n, a[n]) : n \in nodes}, members, {},
                        {[ent |-> e, level |-> LevelOf(s)] :
                         e \in {a[n] : n \in nodes} \cap {fresh}}) :
                a \in {x \in [nodes -> targets] : Cardinality({x[n] : n \in nodes}) > 1}} :
         s \in {e \in Fitting(k) : \A m \in Active(k.node) : m.ent = e}}

Opens(M) == UNION {o.opens : o \in M}
Closes(M) == UNION {o.closes : o \in M}
NodesIn(rows) == {m.node : m \in rows}

Operations(k) == Accepts(k) \cup Rejects(k) \cup Merges(k) \cup Redirects(k) \cup Splits(k)

\* Mutant: only the memberships the manifest opens itself are looked at.
AssignableOnce(M) == \A o, p \in M : o = p \/ NodesIn(o.opens) \cap NodesIn(p.opens) = {}

\* require_unassigned, and one assignment of a node in a manifest.
Assignable(M) ==
  /\ \A o \in M : o.closes = {} => NodesIn(o.opens) \cap NodesIn(Effective(now)) = {}
  /\ \A o, p \in M : o = p \/ NodesIn(o.opens) \cap NodesIn(p.opens) = {}

\* The entities a chain of redirects leads to.
Reach(R, S) ==
  LET f[k \in 0..Cardinality(R)] ==
        IF k = 0 THEN S
        ELSE LET P == f[k - 1] IN P \cup {r.dst : r \in {x \in R : x.src \in P}}
  IN  f[Cardinality(R)]

\* validate_redirect_graph
Valid(R) ==
  /\ \A r, s \in R : r.src = s.src => r.dst = s.dst
  /\ \A r \in R : r.src \notin Reach(R, {r.dst})

\* Mutant: the redirects of an entity are read, those they lead to are not.
CheckedOneHop(M) ==
  LET new == UNION {o.reds : o \in M}
      start == UNION {{r.src, r.dst} : r \in new}
  IN  Valid(new \cup {r \in red : r.src \in start})

\* It is given the redirects that the entities of the manifest lead to.
Checked(M) ==
  LET new == UNION {o.reds : o \in M}
      start == UNION {{r.src, r.dst} : r \in new}
  IN  Valid(new \cup {r \in red : r.src \in Reach(red, start)})

Review(M) ==
  /\ Assignable(M) /\ Checked(M)
  /\ mem' = mem \cup Opens(M) \cup {[m EXCEPT !.to = now] : m \in Closes(M)}
  /\ led' = led \cup UNION {o.new : o \in M}
  /\ red' = red \cup UNION {o.reds : o \in M}
  /\ rev' = rev \cup {o.of : o \in M}
  /\ now' = now + 1
  /\ UNCHANGED <<queue, done, seen, idx, conf>>

\* Conflicts that are not reviewed and have an entity to decide on.
Reviewable == {k \in conf \ rev : k.cands \cap Entities # {}}

Curate ==
  /\ Cardinality(rev) < MaxReviews
  /\ \E k \in Reviewable : \E o \in Operations(k) :
       \/ Review({o})
       \/ \E l \in Reviewable \ {k} : \E p \in Operations(l) : Review({o, p})

IdentityNext ==
  \/ CommitBatch
  \/ \E D \in Inputs, c \in Configs : Resolve(D, c)
  \/ Curate

-----------------------------------------------------------------------------
(* One node is never in two entities: after any runs and reviews, in any order,  *)
(* there is at most one membership of a source node in effect                    *)
(* (_active_memberships, identity_curation.py; require_unassigned).             *)
OneEntityPerNode == \A m, n \in Effective(now) : m.node = n.node => m = n

(* Every chain of redirects ends in one entity of the level it started from,     *)
(* although a review only validates the redirects its own entities lead to       *)
(* (_collect_redirect_closure, resolve_redirect_target).                        *)
RedirectsResolve ==
  \A e \in Entities :
    \E t \in Entities :
      /\ LevelOf(t) = LevelOf(e)
      /\ {x \in Reach(red, {e}) : ~\E r \in red : r.src = x} = {t}

(* What a resolver run opens is justified by the delta it reads, by a reference   *)
(* that closes the relation of sharing an identifier over any number of steps:   *)
(* a work or series gets the one candidate of its component or, with none, the   *)
(* entity of the component's anchor; a season or episode a candidate of its own  *)
(* or of a sibling, or the anchor of its siblings, who are children of one       *)
(* parent entity (assign_exact_blocking_component_ids, the resolution modes).    *)
Linked(v, N, S) ==
  LET f[k \in 0..Cardinality(N)] ==
        IF k = 0 THEN S
        ELSE LET P == f[k - 1]
             IN  P \cup {n \in N : \E p \in P : Ids(v, n) \cap Ids(v, p) # {}}
  IN  f[Cardinality(N)]

ParentEntities(v, P, n) ==
  {m.ent : m \in {x \in P : \E r \in Relations(v, n) : r.to = x.node}}

Family(v, c, opened, m) ==
  IF TypeOf(v, m.node) \in Primary
  THEN Linked(v, Bounded(v, c, Primary), {m.node})
  ELSE {n.node : n \in {x \in opened : x.ent = m.ent}}

Justified(v, c, opened, m) ==
  LET C == Family(v, c, opened, m)
      cands == UNION {Candidates(v, n) : n \in C}
  IN  /\ Cardinality(C) <= c.size
      /\ \/ cands = {m.ent}
         \/ cands = {} /\ m.ent[1] \in C /\ \A n \in opened : n.node \in C => n.ent = m.ent
      /\ \A n \in C : TypeOf(v, n) = TypeOf(v, m.node)
      /\ TypeOf(v, m.node) \notin Primary =>
           \E p \in UNION {ParentEntities(v, v.eff \cup opened, n) : n \in C} :
             \A n \in C : p \in ParentEntities(v, v.eff \cup opened, n)

OpeningsJustified ==
  [][seen' # seen =>
      LET v == View(seen' \ seen, now)
          opened == {m \in mem' \ mem : m.to = Open}
      IN  \E c \in Configs : \A m \in opened : Justified(v, c, opened, m)]_identityVars

(* A resolver run never closes the membership of a node that a current record    *)
(* still types: active memberships are inputs to incremental resolution.        *)
ActiveIsKept ==
  [][seen' # seen =>
      \A m \in mem' \ mem : m.to # Open => m.node \notin Typed(View(seen' \ seen, now))]_identityVars
=============================================================================
