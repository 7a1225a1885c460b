-------------------------- MODULE FailedRunRollback --------------------------
(* The rollback-failed-run command (iceberg_maintenance.py and its CLI)      *)
(* beside the submitters of CommunityIngest: it inventories the snapshots of *)
(* one uncommitted Identity run, plans a reverse-order rollback, and moves   *)
(* one table at a time, rechecking marker, refs and head before each move.   *)
(* Its checks and the move itself are separate catalog calls.                *)
EXTENDS CommunityIngestProps

CONSTANTS Operators,   \* invocations of the command with --execute
          MaxRefs      \* bound on the tags set by other tools

\* Generation-mapped tables take Identity runs only, and those write no source
\* table (_validate_identity_run_mapping).
ASSUME RollbackConstants ==
  /\ NoRun \notin RunId
  /\ \A r \in Runs, t \in Tables : Keys[r][t] # {} => (t \in IdentityTables <=> Generation(r))

VARIABLES rb,     \* the state of each invocation
          refs    \* snapshots protected by a tag or branch, as <<table, snapshot>>

rvars == <<tbl, markers, pins, wr, rb, refs>>

NoId == [base |-> NoRun, counts |-> [t \in Tables |-> 0]]

RollbackInit ==
  /\ Init
  /\ rb = [o \in Operators |-> [pc |-> "idle", id |-> NoId, plan |-> <<>>]]
  /\ refs = {}

\* ------------------------------------------------------------------- the plan

AllOwned(T, id) == {i \in Snapshots(T) : T.snaps[i].run = id}
RollbackMarkers(T, id) == {i \in Snapshots(T) : T.snaps[i].undo = id}
Latest(S) == CHOOSE i \in S : \A j \in S : j <= i
Cutoff(M) == IF M = {} THEN 0 ELSE Latest(M)

\* component_from: the owned descendants reached through owned snapshots only.
Component(T, id, root) ==
  {i \in AllOwned(T, id) :
     /\ root \in AncestorsAt(T, i)
     /\ \A j \in AncestorsAt(T, i) : j >= root => j \in AllOwned(T, id)}

\* The snapshots of the run that _owned_snapshot_chain considers.
ChainSet(T, id) ==
  LET marks == RollbackMarkers(T, id)
      cut == Cutoff(marks)
      active == {i \in AllOwned(T, id) : i \in AncestorsAt(T, T.head) /\ i > cut}
      roots == {i \in AllOwned(T, id) : T.snaps[i].parent = T.head /\ i > cut}
      previous == Cutoff(marks \ {cut})
  IN  IF active # {} THEN active
      ELSE IF roots # {} THEN Component(T, id, Latest(roots))
      ELSE IF marks # {} THEN {i \in AllOwned(T, id) : previous < i /\ i < cut}
      ELSE AllOwned(T, id)

Tips(T, C) == {i \in C : \A j \in C : T.snaps[j].parent # i}
Roots(T, C) == {i \in C : T.snaps[i].parent \notin C}

\* The head is back at the target: the parent of the chain, or the snapshot of
\* the row delete that stands for "no parent".
AtTarget(T, id, target) ==
  \/ T.head = target
  \/ target = 0 /\ T.head # 0 /\ T.snaps[T.head].undo = id

\* A non-empty chain that may be rolled back: journalled parents, one linear
\* chain, the head still its tip or already at its target.
Sound(T, id, C) ==
  /\ \A i \in C : T.snaps[i].journal = T.snaps[i].parent
  /\ Cardinality(Tips(T, C)) = 1 /\ Cardinality(Roots(T, C)) = 1
  /\ \A i \in Tips(T, C), r \in Roots(T, C) :
       /\ C = {j \in AncestorsAt(T, i) : j >= r}
       /\ T.head = i \/ AtTarget(T, id, T.snaps[r].parent)

\* Mutant: write order instead of reverse write order.
ForwardOrder == <<RunTable>> \o TableOrder

\* Rollback order: latest owned snapshot first.  A submitter stages the run
\* manifest first and the data tables in declaration order.
RollbackOrder == [n \in 1..(Len(TableOrder) + 1) |->
                    IF n <= Len(TableOrder) THEN TableOrder[Len(TableOrder) + 1 - n]
                                            ELSE RunTable]
\* Mutant: only the data tables are rolled back.
DataOnly == IdentityTables

Eligible == IdentityTables \cup {RunTable}

ActionOf(t, id) ==
  LET C == ChainSet(tbl[t], id)
  IN  [table |-> t, tip |-> CHOOSE i \in Tips(tbl[t], C) : TRUE, owned |-> C,
       target |-> tbl[t].snaps[CHOOSE r \in Roots(tbl[t], C) : TRUE].parent,
       refs |-> {f \in refs : f[1] = t}]

\* The affected tables, by their place in the order.
Affected(id) ==
  {n \in DOMAIN RollbackOrder :
     RollbackOrder[n] \in Eligible /\ ChainSet(tbl[RollbackOrder[n]], id) # {}}
PlanFor(id) == [n \in Affected(id) |-> ActionOf(RollbackOrder[n], id)]

Plannable(id) ==
  /\ RunRows(tbl[RunTable], id) # {}
  /\ \A t \in Eligible :
       LET C == ChainSet(tbl[t], id)
       IN  C # {} => /\ Sound(tbl[t], id, C)
                     /\ \A i \in C : <<t, i>> \notin refs
  /\ \E t \in Eligible : ChainSet(tbl[t], id) # {}

RbGoto(o, pc) == rb' = [rb EXCEPT ![o].pc = pc]
Quiet == UNCHANGED <<tbl, markers, pins, wr, refs>>

\* ACTION Inventory: read_run and _rollback_table_state of every table.
Inventory(o, id) ==
  /\ rb[o].pc = "idle"
  /\ rb' = [rb EXCEPT ![o] =
       IF Plannable(id) THEN [pc |-> "commit", id |-> id, plan |-> PlanFor(id)]
                        ELSE [pc |-> "refused", id |-> id, plan |-> rb[o].plan]]
  /\ Quiet

\* Mutant: no marker is looked for.
CheckNothing(o) == rb[o].pc = "commit" /\ RbGoto(o, "state") /\ Quiet

\* ACTION CheckCommit: read_commit, for the plan and again before every action.
CheckCommit(o) ==
  /\ rb[o].pc = "commit"
  /\ RbGoto(o, IF MarkersOf(rb[o].id) # {} THEN "refused" ELSE "state")
  /\ Quiet

Place(o) == CHOOSE n \in DOMAIN rb[o].plan : \A m \in DOMAIN rb[o].plan : n <= m
Todo(o) == rb[o].plan[Place(o)]
NextAction(o) ==
  LET rest == DOMAIN rb[o].plan \ {Place(o)}
  IN  rb' = [rb EXCEPT ![o] = [pc |-> IF rest = {} THEN "done" ELSE "commit", id |-> rb[o].id,
                               plan |-> [n \in rest |-> rb[o].plan[n]]]]

\* ACTION CheckState: refs unchanged and free of owned snapshots; an action that
\* is already rolled back is skipped; otherwise the head must be the expected.
CheckState(o) ==
  /\ rb[o].pc = "state"
  /\ LET a == Todo(o)
         T == tbl[a.table]
         now == {f \in refs : f[1] = a.table}
     IN  IF now # a.refs \/ \E i \in a.owned : <<a.table, i>> \in now
         THEN RbGoto(o, "refused")
         ELSE IF AtTarget(T, rb[o].id, a.target) THEN NextAction(o)
         ELSE RbGoto(o, IF T.head = a.tip THEN "recheck" ELSE "refused")
  /\ Quiet

\* Mutant: the head is not read a second time.
RecheckNothing(o) == rb[o].pc = "recheck" /\ RbGoto(o, "move") /\ Quiet

\* ACTION RecheckHead: the second current_state read.
RecheckHead(o) ==
  /\ rb[o].pc = "recheck"
  /\ RbGoto(o, IF tbl[Todo(o).table].head = Todo(o).tip THEN "move" ELSE "refused")
  /\ Quiet

\* Rows of a table once the rows of one run are deleted.
WithoutRun(T, id) == {x \in Rows(T) : x.run # id}

\* ACTION Move: rollback_to_snapshot resets the head to the target, which must
\* be an ancestor of the current head; without a target the rows of the run are
\* deleted in a snapshot that carries the rollback marker.
Move(o) ==
  /\ rb[o].pc = "move"
  /\ LET a == Todo(o)
         T == tbl[a.table]
     IN  IF a.target = 0
         THEN /\ tbl' = [tbl EXCEPT ![a.table] =
                           Commit(T, NoRun, 0, rb[o].id, WithoutRun(T, rb[o].id))]
              /\ RbGoto(o, "verify")
         ELSE IF a.target \in AncestorsAt(T, T.head)
         THEN tbl' = [tbl EXCEPT ![a.table].head = a.target] /\ RbGoto(o, "verify")
         ELSE RbGoto(o, "refused") /\ UNCHANGED tbl
  /\ UNCHANGED <<markers, pins, wr, refs>>

\* ACTION VerifyMove: the target must be current.
VerifyMove(o) ==
  /\ rb[o].pc = "verify"
  /\ IF AtTarget(tbl[Todo(o).table], rb[o].id, Todo(o).target)
       THEN NextAction(o) ELSE RbGoto(o, "refused")
  /\ Quiet

OpStopped == {"idle", "done", "refused", "dead"}

\* ACTION OpCrash: the command dies between two calls.
OpCrash(o) ==
  /\ rb[o].pc \notin OpStopped
  /\ RbGoto(o, "dead")
  /\ Quiet

\* ACTION Tag: another tool protects the current snapshot of a table.
Tag(t) ==
  /\ Cardinality(refs) < MaxRefs /\ tbl[t].head # 0
  /\ refs' = refs \cup {<<t, tbl[t].head>>}
  /\ UNCHANGED <<tbl, markers, pins, wr, rb>>

Operate(o) ==
  \/ CheckCommit(o) \/ CheckState(o) \/ RecheckHead(o) \/ Move(o) \/ VerifyMove(o)

\* Identity runs that some submitter has named; the operator passes one.
FailedIds == {wr[w].id : w \in {v \in Writers : wr[v].pc \in {"failed", "dead"}}}

\* Identity drivers start one at a time and never beside an invocation; source
\* drivers, which share the run table, are not fenced.
InProgress(o) == rb[o].pc \notin OpStopped
Drive(w) ==
  /\ wr[w].pc = "idle" /\ Generation(RunOf[w]) =>
       Fenced(w) /\ \A o \in Operators : ~InProgress(o)
  /\ Advance(w) \/ Crash(w)
  /\ UNCHANGED <<rb, refs>>

\* The operator waits for every Identity driver to stop, and runs one invocation
\* at a time.
Invoke(o) ==
  /\ \A w \in Writers : Running(w) => ~Generation(RunOf[w])
  /\ \A p \in Operators : ~InProgress(p)
  /\ \E id \in FailedIds : Generation(id.base) /\ Inventory(o, id)

\* Nothing lands between the last head check and the move.
NoRace ==
  (\E o \in Operators : rb[o].pc = "move") => (\E o \in Operators : Move(o)) \/ UNCHANGED tbl

RollbackNext ==
  /\ \/ \E r \in Runs : Plan(r) /\ UNCHANGED <<rb, refs>>
     \/ \E w \in Writers : Drive(w)
     \/ \E o \in Operators : Invoke(o) \/ Operate(o) \/ OpCrash(o)
     \/ \E t \in Eligible : Tag(t)
  /\ NoRace

RollbackSpec == RollbackInit /\ [][RollbackNext]_rvars

\* ------------------------------------------------------------------- properties

\* Completing the command leaves no row of the failed run in any table it may
\* touch, so a direct retry is not refused as partial
\* (_assert_no_partial_run_state).
DoneMeansClean ==
  [][\A o \in Operators :
       rb[o].pc # "done" /\ rb'[o].pc = "done" =>
         /\ \A t \in IdentityTables \cup {RunTable} : RunRows(tbl'[t], rb[o].id) = {}
         /\ ~Partial(rb[o].id)']_rvars

\* As long as rows of an uncommitted run remain in a data table, its manifest
\* remains too: a command that died half-way can be run again, since it starts
\* from read_run ("removes the uncommitted manifest last").
RollbackResumable ==
  \A t \in IdentityTables : \A x \in Rows(tbl[t]) :
    x.run \notin Committed => RunRows(tbl[RunTable], x.run) # {}

\* Moving a table back removes rows of the failed run and of no other run.
RollbackSparesOtherRuns ==
  [][\A o \in Operators :
       rb[o].pc = "move" =>
         \A t \in Eligible : \A x \in Rows(tbl[t]) :
           x \in Rows(tbl'[t]) \/ x.run = rb[o].id]_rvars

=============================================================================
