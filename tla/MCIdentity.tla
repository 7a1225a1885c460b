------------------------------ MODULE MCIdentity ------------------------------
(* Identity runs of one generation, with one of four casts in a behaviour:  *)
(* a full, an incremental (submitted twice) and a curation run one after the *)
(* other; a failed run rolled back by up to two invocations and submitted    *)
(* again, with every driver stopped; a rollback beside live source runs; and *)
(* what the runs of a generation decide, each of them one step.             *)
EXTENDS FailedRunRollback, Sequences

MCRunOf == [w \in Writers |->
  CASE w = "f" -> "full" [] w \in {"i", "i2"} -> "inc" [] w = "c" -> "cur"
    [] w = "s" -> "src" [] OTHER -> "src2"]
MCMode == [r \in Runs |->
  CASE r = "full" -> "full" [] r = "inc" -> "incremental" [] r = "cur" -> "curation"
    [] OTHER -> "source"]
MCTableOrder == <<"ledger", "member">>
MCKeys == [r \in Runs |->
  CASE r = "full" -> [t \in {"ledger", "member"} |-> IF t = "ledger" THEN {"k1"} ELSE {"m1"}]
    [] r = "inc"  -> [t \in {"ledger", "member"} |-> IF t = "ledger" THEN {"k1", "k2"} ELSE {"m2"}]
    [] r = "cur"  -> [t \in {"ledger", "member"} |-> IF t = "ledger" THEN {} ELSE {"m3"}]
    [] OTHER      -> [t \in {"ledger", "member"} |-> {}]]

-----------------------------------------------------------------------------
(* The source batches, of five stories; each is one source run.             *)
Never == 1000
Asserts(n, t, ids) ==
  [node |-> n, type |-> t, ids |-> ids, rels |-> {}, season |-> {}, episode |-> {}]
Child(n, t, rel, s, e) ==
  [node |-> n, type |-> t, ids |-> {}, rels |-> {rel}, season |-> s, episode |-> e]
Of(to, kind, s, e) == [to |-> to, kind |-> kind, season |-> s, episode |-> e]
Upsert(rec, at, says) == [rec |-> rec, op |-> "UPSERT", at |-> at, until |-> Never, says |-> says]
Batch(scope, at, rows) == [scope |-> scope, full |-> FALSE, at |-> at, rows |-> rows]
Full(at, rows) == [scope |-> "titles", full |-> TRUE, at |-> at, rows |-> rows]

MCBatches == <<
  \* 1-3: two works and one with the identifiers of both; then updates
  Batch("a", 10, {Upsert("r1", 10, Asserts(1, "WORK", {"i"})),
                  Upsert("r3", 10, Asserts(3, "WORK", {"j"}))}),
  Batch("b", 20, {Upsert("r2", 20, Asserts(2, "WORK", {"i", "j"}))}),
  Batch("a", 30, {Upsert("r1", 30, Asserts(1, "WORK", {"i", "j"})),
                  Upsert("r12", 30, Asserts(12, "WORK", {"i", "j"}))}),
  \* 4, 5 and 16: the series, seasons and episodes of two sources
  Batch("a", 10, {Upsert("r4", 10, Asserts(4, "SERIES", {"k"})),
                  Upsert("r6", 10, Child(6, "SEASON", Of(4, "series", 1, 0), {}, {}))}),
  Batch("b", 20, {Upsert("r5", 20, Asserts(5, "SERIES", {"k"})),
                  Upsert("r7", 20, Child(7, "SEASON", Of(5, "series", 0, 0), {1}, {})),
                  Upsert("r8", 20, Child(8, "EPISODE", Of(7, "season", 0, 0), {}, {1}))}),
  \* 6-9: complete snapshots, where a record that is gone is absent
  Full(10, {Upsert("t1", 10, Asserts(11, "WORK", {"m"}))}),
  Full(20, {Upsert("t1", 20, Asserts(11, "WORK", {"m"})),
                Upsert("a1", 20, Asserts(11, "none", {"m2"}))}),
  Full(30, {Upsert("t1", 30, Asserts(11, "WORK", {"m"}))}),
  Full(40, {}),
  \* 10-13: a record that expires, is deleted and comes back
  Batch("d", 10, {Upsert("r14", 10, Asserts(14, "WORK", {"p"}))}),
  Batch("d", 20, {[Upsert("r14", 20, Asserts(14, "WORK", {"p"})) EXCEPT !.until = 25]}),
  Batch("d", 30, {[Upsert("r14", 30, <<>>) EXCEPT !.op = "DELETE"]}),
  Batch("d", 40, {Upsert("r14", 40, Asserts(14, "WORK", {"p"}))}),
  \* 14-15: three works, and three that could be any of them
  Batch("e", 10, {Upsert("r15", 10, Asserts(15, "WORK", {"q"})),
                  Upsert("r16", 10, Asserts(16, "WORK", {"s"})),
                  Upsert("r17", 10, Asserts(17, "WORK", {"u"}))}),
  Batch("e", 20, {Upsert(r, 20, Asserts(IF r = "r18" THEN 18 ELSE IF r = "r19" THEN 19 ELSE 20,
                                        "WORK", {"q", "s", "u"})) : r \in {"r18", "r19", "r20"}}),
  Batch("b", 30, {Upsert("r9", 30, Child(9, "EPISODE", Of(5, "series", 1, 1), {}, {})),
                  Upsert("r10", 30, Child(10, "EPISODE", Of(5, "series", 0, 0), {}, {}))})>>

MCScripts == {<<1, 2, 3>>, <<4, 5, 16>>, <<6, 7, 8, 9>>, <<10, 11, 12, 13>>, <<14, 15>>}
MCConfigs == {[size |-> 4, nodeKeys |-> 3, componentKeys |-> 3, rounds |-> 3],
              [size |-> 4, nodeKeys |-> 3, componentKeys |-> 2, rounds |-> 3],
              [size |-> 2, nodeKeys |-> 1, componentKeys |-> 2, rounds |-> 1]}

VARIABLES queue, done, seen, now, mem, idx, led, red, conf, rev
I == INSTANCE IdentityRuns WITH
  Batches <- MCBatches, Scripts <- MCScripts, Configs <- MCConfigs,
  ImdbTitles <- {5, 10}, MaxReviews <- 3

\* The reviews of the last story are those that redirect, one at a time.
Decide ==
  /\ I!IdentityNext
  /\ done = {14, 15} /\ rev' # rev => red' # red /\ Cardinality(rev') = Cardinality(rev) + 1

OneEntityPerNode == I!OneEntityPerNode
RedirectsResolve == I!RedirectsResolve
OpeningsJustified == I!OpeningsJustified
ActiveIsKept == I!ActiveIsKept

-----------------------------------------------------------------------------
VARIABLE cast
castVars == <<tbl, markers, pins, wr, rb, refs, cast,
              queue, done, seen, now, mem, idx, led, red, conf, rev>>
Casts == {"generation", "quiet", "shared", "decisions"}

Playing ==
  CASE cast = "generation" -> {"f", "i", "i2", "c"}
    [] cast = "quiet"      -> {"f", "i", "i2"}
    [] cast = "shared"     -> {"f", "s", "s2"}
    [] OTHER               -> {}
Invocations == CASE cast = "generation" -> {} [] cast = "quiet" -> Operators [] OTHER -> {"o1"}

\* Drivers that may die or see a failing MERGE; under the operator the others
\* only show what a failed run is rolled back onto.
Fragile ==
  CASE cast = "generation" -> Playing [] cast = "quiet" -> {"i", "i2"} [] OTHER -> {"f"}
\* In the cast "shared" one source driver finishes before the run that fails, so
\* that there is a snapshot to go back to.
Run(w) ==
  /\ cast = "shared" /\ w # "s2" => wr["s2"].pc \in Stopped
  /\ Drive(w)
  /\ w \notin Fragile => wr'[w].pc \notin {"dead", "err", "merr", "verify_err"}

Step ==
  \/ \E r \in {RunOf[w] : w \in Playing} : Plan(r) /\ UNCHANGED <<rb, refs>>
  \/ \E w \in Playing : Run(w)
  \/ \E o \in Invocations : Invoke(o) \/ Operate(o)
  \/ \E o \in Invocations : cast = "quiet" /\ OpCrash(o)
  \/ \E t \in Eligible : cast = "quiet" /\ Tag(t)

MCNext ==
  /\ \/ /\ Step /\ NoRace
        /\ UNCHANGED <<queue, done, seen, now, mem, idx, led, red, conf, rev>>
     \/ /\ cast = "decisions" /\ Decide
        /\ UNCHANGED <<tbl, markers, pins, wr, rb, refs>>
  /\ UNCHANGED cast
MCInit ==
  /\ RollbackInit /\ cast \in Casts
  /\ I!IdentityInit
  /\ cast # "decisions" => queue = <<4, 5, 16>>
MCSpec == MCInit /\ [][MCNext]_castVars

\* The decisions alone.
DecisionsSpec == MCInit /\ cast = "decisions" /\ [][MCNext]_castVars
=============================================================================
