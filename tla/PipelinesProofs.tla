---------------------------- MODULE PipelinesProofs ----------------------------
(* The jobs of the long-running workflows, for any number of stages, sources,  *)
(* attempts and runs: at most one is live, results rest on jobs that           *)
(* succeeded, and what was proved of a Catalog execution holds where it is     *)
(* composed with the others.                                                   *)
EXTENDS MCPipelines, WellFoundedInduction, TLAPS

\* ------------------------------------------------------------ EmrPipeline

JobRecord ==
  [token : {0}, state : {"running", "cancelling", "success", "failed", "cancelled"},
   done : BOOLEAN, log : BOOLEAN]
AttemptRecord == [pc : {"begin", "poll", "read", "unwind", "ended", "dead"}, job : {0, 1}]

BuildTypes ==
  /\ wf \in {"prepare", "stages", "summary", "done", "failed"}
  /\ stage \in 0..Stage /\ reused \subseteq Stages
  /\ jobs \in [Stages -> Seq(JobRecord)]
  /\ att \in [Stages -> Seq(AttemptRecord)]
  /\ phase \in [Stages -> {"off", "run", "ok", "failed"}]

\* The one job of a stage has succeeded, after its commit.
Succeeded(s) == Len(jobs[s]) = 1 /\ jobs[s][1].state = "success" /\ jobs[s][1].done
Untouched(s) == jobs[s] = <<>> /\ att[s] = <<>> /\ phase[s] = "off"

\* An attempt that polls has submitted the job; one that reads has seen its success.
AttemptOK(s, b) ==
  /\ b.pc \in {"poll", "read", "unwind"} => Len(jobs[s]) = 1 /\ b.job = 1
  /\ b.pc = "read" => Succeeded(s)

\* The token allows a stage one job; stages before the current one have succeeded.
StageOK(s) ==
  /\ Len(jobs[s]) <= 1
  /\ \A j \in DOMAIN jobs[s] : jobs[s][j].state = "success" => jobs[s][j].done
  /\ s > stage \/ s \in reused => Untouched(s)
  /\ s < stage \/ wf \in {"summary", "done"} => s \in reused \/ phase[s] = "ok"
  /\ phase[s] = "ok" => Succeeded(s)
  /\ phase[s] = "run" => Len(att[s]) > 0
  /\ \A a \in DOMAIN att[s] : AttemptOK(s, att[s][a])

BuildInv ==
  /\ BuildTypes
  /\ wf = "prepare" => stage = 0
  /\ \A s \in Stages : StageOK(s)

\* A step at one stage leaves the others as they are.
LEMMA StageMoves ==
  ASSUME BuildInv, NEW s \in Stages, s <= stage, s \notin reused,
         jobs' = [jobs EXCEPT ![s] = jobs'[s]], jobs'[s] \in Seq(JobRecord), Len(jobs'[s]) <= 1,
         \A j \in DOMAIN jobs'[s] : jobs'[s][j].state = "success" => jobs'[s][j].done,
         att' = [att EXCEPT ![s] = att'[s]], att'[s] \in Seq(AttemptRecord),
         \A a \in DOMAIN att'[s] : AttemptOK(s, att[s][a])',
         phase' = [phase EXCEPT ![s] = phase'[s]], phase'[s] \in {"off", "run", "ok", "failed"},
         phase[s] = "ok" => phase'[s] = "ok",
         phase'[s] = "ok" => Succeeded(s)',
         phase'[s] = "run" => Len(att'[s]) > 0,
         UNCHANGED <<wf, stage, reused>>
  PROVE  BuildInv'
<1>1. BuildTypes'
  BY DEF BuildInv, BuildTypes
<1>2. ASSUME NEW t \in Stages PROVE StageOK(t)'
  <2>1. CASE t = s
    <3>1. stage \in Nat /\ s \in Nat
      BY PipelineConstants DEF BuildInv, BuildTypes, Stages
    <3>2. StageOK(s)
      BY DEF BuildInv
    <3>3. ~(s > stage \/ s \in reused)'
      BY <3>1
    <3>4. (s < stage \/ wf \in {"summary", "done"} => s \in reused \/ phase[s] = "ok")'
      BY <3>2 DEF StageOK
    <3> QED BY <2>1, <3>3, <3>4 DEF StageOK
  <2>2. CASE t # s
    <3>1. jobs'[t] = jobs[t] /\ att'[t] = att[t] /\ phase'[t] = phase[t] /\ StageOK(t)
      BY <2>2 DEF BuildInv, BuildTypes
    <3> QED BY <3>1 DEF StageOK, Untouched, AttemptOK, Succeeded
  <2> QED BY <2>1, <2>2
<1> QED BY <1>1, <1>2 DEF BuildInv

\* What a stage is where something may happen at it.
LEMMA AtStage ==
  ASSUME BuildInv, NEW s \in Stages, ~Untouched(s)
  PROVE  /\ s <= stage /\ s \notin reused /\ StageOK(s)
         /\ jobs[s] \in Seq(JobRecord) /\ att[s] \in Seq(AttemptRecord)
         /\ phase[s] \in {"off", "run", "ok", "failed"}
<1>1. stage \in Nat /\ s \in Nat /\ StageOK(s)
  BY PipelineConstants DEF BuildInv, BuildTypes, Stages
<1> QED BY <1>1 DEF BuildInv, BuildTypes, StageOK

\* Only the jobs move: what is known of a success stays true.
LEMMA JobsMove ==
  ASSUME BuildInv, NEW s \in Stages, ~Untouched(s),
         jobs' = [jobs EXCEPT ![s] = jobs'[s]], jobs'[s] \in Seq(JobRecord), Len(jobs'[s]) = 1,
         jobs'[s][1].state = "success" => jobs'[s][1].done,
         Succeeded(s) => Succeeded(s)',
         UNCHANGED <<wf, stage, reused, att, phase>>
  PROVE  BuildInv'
<1>1. /\ s <= stage /\ s \notin reused /\ StageOK(s)
      /\ att[s] \in Seq(AttemptRecord) /\ phase[s] \in {"off", "run", "ok", "failed"}
  BY AtStage
<1>2. att' = [att EXCEPT ![s] = att'[s]] /\ phase' = [phase EXCEPT ![s] = phase'[s]]
  BY DEF BuildInv, BuildTypes
<1>3. \A a \in DOMAIN att'[s] : AttemptOK(s, att[s][a])'
  BY <1>1 DEF StageOK, AttemptOK
<1>4. \A j \in DOMAIN jobs'[s] : jobs'[s][j].state = "success" => jobs'[s][j].done
  OBVIOUS
<1>5. /\ phase'[s] = "ok" => Succeeded(s)'
      /\ phase'[s] = "run" => Len(att'[s]) > 0
  BY <1>1 DEF StageOK
<1> QED BY <1>1, <1>2, <1>3, <1>4, <1>5, StageMoves

LEMMA EmptyOrOne == \A q \in Seq(JobRecord) : Len(q) <= 1 /\ Len(q) # 1 => Len(q) = 0
<1>1. \A n \in Nat : n <= 1 /\ n # 1 => n = 0
  OBVIOUS
<1>2. \A q \in Seq(JobRecord) : Len(q) \in Nat
  OBVIOUS
<1>3. TAKE q \in Seq(JobRecord)
<1>4. PICK n \in Nat : n = Len(q)
  BY <1>2
<1> QED BY <1>1, <1>4

LEMMA FirstJob ==
  ASSUME NEW q \in Seq(JobRecord), Len(q) = 0, NEW job \in JobRecord
  PROVE  Append(q, job) \in Seq(JobRecord) /\ Len(Append(q, job)) = 1 /\ Append(q, job)[1] = job
<1>1. Append(q, job) \in Seq(JobRecord) /\ Len(Append(q, job)) = Len(q) + 1
  OBVIOUS
<1>2. Append(q, job)[Len(q) + 1] = job
  OBVIOUS
<1> QED BY <1>1, <1>2

LEMMA OnlyOne == ASSUME NEW n \in Nat, n <= 1, NEW j \in 1..n PROVE j = 1 /\ n = 1
  OBVIOUS

\* A job is set in one of its fields.
LEMMA EmrStep ==
  ASSUME BuildInv, NEW s \in Stages, NEW j \in DOMAIN jobs[s],
         JobCommits(s, j) \/ LogArrives(s, j) \/ JobEnds(s, j)
  PROVE  BuildInv'
<1>1. ~Untouched(s)
  BY DEF Untouched
<1>2. StageOK(s) /\ jobs[s] \in Seq(JobRecord)
  BY <1>1, AtStage
<1>3. j = 1 /\ Len(jobs[s]) = 1 /\ jobs[s][1] \in JobRecord
  <2>1. Len(jobs[s]) <= 1 /\ Len(jobs[s]) \in Nat /\ j \in 1..Len(jobs[s])
    BY <1>2 DEF StageOK
  <2>2. j = 1 /\ Len(jobs[s]) = 1
    BY <2>1, OnlyOne
  <2> QED BY <1>2, <2>2
<1>4. PICK job \in JobRecord :
        /\ jobs' = [jobs EXCEPT ![s][j] = job]
        /\ job.state = "success" => job.done
        /\ jobs[s][1].state = "success" => job.state = "success"
  <2>1. CASE JobCommits(s, j)
    <3> DEFINE job == [jobs[s][j] EXCEPT !.done = TRUE]
    <3>1. jobs' = [jobs EXCEPT ![s][j] = job]
      BY <2>1 DEF JobCommits, SetJob
    <3>2. job \in JobRecord /\ job.done /\ job.state = jobs[s][j].state
      BY <1>3 DEF JobRecord
    <3> QED BY <1>3, <3>1, <3>2
  <2>2. CASE LogArrives(s, j)
    <3> DEFINE job == [jobs[s][j] EXCEPT !.log = TRUE]
    <3>1. jobs' = [jobs EXCEPT ![s][j] = job]
      BY <2>2 DEF LogArrives, SetJob
    <3>2. job \in JobRecord /\ job.done /\ job.state = jobs[s][j].state
      BY <1>3, <2>2 DEF JobRecord, LogArrives
    <3> QED BY <1>3, <3>1, <3>2
  <2>3. CASE JobEnds(s, j)
    <3>1. PICK state \in {"success", "failed", "cancelled"} :
            /\ SetJob(s, j, "state", state)
            /\ state = "success" => jobs[s][j].done
      BY <2>3 DEF JobEnds
    <3> DEFINE job == [jobs[s][j] EXCEPT !.state = state]
    <3>2. jobs' = [jobs EXCEPT ![s][j] = job]
      BY <3>1 DEF SetJob
    <3>3. job \in JobRecord /\ (job.state = "success" => job.done) /\ jobs[s][1].state # "success"
      BY <1>3, <2>3, <3>1 DEF JobRecord, JobEnds, Live
    <3> QED BY <1>3, <3>2, <3>3
  <2> QED BY <2>1, <2>2, <2>3
<1>5. /\ jobs'[s] = [jobs[s] EXCEPT ![1] = job] /\ jobs' = [jobs EXCEPT ![s] = jobs'[s]]
      /\ jobs'[s] \in Seq(JobRecord) /\ Len(jobs'[s]) = 1 /\ jobs'[s][1] = job
  <2>1. jobs'[s] = [jobs[s] EXCEPT ![1] = job]
    BY <1>3, <1>4 DEF BuildInv, BuildTypes
  <2>2. jobs' = [jobs EXCEPT ![s] = jobs'[s]]
    BY <1>3, <1>4, <2>1 DEF BuildInv, BuildTypes
  <2> QED BY <1>2, <1>3, <2>1, <2>2
<1>6. Succeeded(s) => Succeeded(s)'
  BY <1>4, <1>5 DEF Succeeded
<1>7. UNCHANGED <<wf, stage, reused, att, phase>>
  BY DEF JobCommits, LogArrives, JobEnds
<1> QED BY <1>1, <1>4, <1>5, <1>6, <1>7, JobsMove
\* ------------------------------------------------------------------- the attempts

\* What a step of the server or of an attempt makes of the attempts: it moves one,
\* may add a fresh one, and takes an answer only where one is awaited.
Settled(s, a, how) ==
  /\ att' = [att EXCEPT ![s] = att'[s]] /\ att'[s] \in Seq(AttemptRecord)
  /\ Len(att'[s]) > 0
  /\ \A b \in DOMAIN att'[s] :
       att'[s][b].pc \in {"begin", "ended"} \/ (b \in DOMAIN att[s] /\ att'[s][b] = att[s][b])
  /\ phase' = [phase EXCEPT ![s] = phase'[s]] /\ phase'[s] \in {"off", "run", "ok", "failed"}
  /\ phase[s] = "ok" => phase'[s] = "ok"
  /\ phase'[s] = "ok" => phase[s] = "ok" \/ how = "ok"

LEMMA FreshIs == Fresh \in AttemptRecord /\ Fresh.pc = "begin"
  BY DEF Fresh, AttemptRecord

LEMMA SettleOK ==
  ASSUME BuildTypes, NEW s \in Stages, phase[s] = "run", NEW new \in Seq(AttemptRecord),
         Len(new) = Len(att[s]), Len(new) > 0,
         \A b \in DOMAIN new : new[b].pc = "ended" \/ new[b] = att[s][b],
         NEW how \in {"retry", "fatal", "ok"}, Settle(s, new, how), NEW a
  PROVE  Settled(s, a, how)
<1>0. att[s] \in Seq(AttemptRecord) /\ DOMAIN att[s] = DOMAIN new
  BY DEF BuildTypes
<1>1. CASE how = "retry" /\ Retries(s)
  <2>1. att' = [att EXCEPT ![s] = Append(new, Fresh)] /\ phase' = phase
    BY <1>1 DEF Settle
  <2>2. att'[s] = Append(new, Fresh) /\ att' = [att EXCEPT ![s] = att'[s]]
    BY <2>1 DEF BuildTypes
  <2>3. /\ att'[s] \in Seq(AttemptRecord) /\ Len(att'[s]) > 0
        /\ \A b \in DOMAIN att'[s] : att'[s][b] = IF b \in DOMAIN new THEN new[b] ELSE Fresh
    BY <2>2, FreshIs
  <2>4. phase' = [phase EXCEPT ![s] = phase'[s]] /\ phase'[s] \in {"off", "run", "ok", "failed"}
    BY <2>1 DEF BuildTypes
  <2> QED BY <1>0, <2>1, <2>2, <2>3, <2>4, FreshIs DEF Settled
<1>2. CASE ~(how = "retry" /\ Retries(s))
  <2>1. /\ att' = [att EXCEPT ![s] = new]
        /\ phase' = [phase EXCEPT ![s] = IF how = "ok" THEN "ok" ELSE "failed"]
    BY <1>2 DEF Settle
  <2>2. att'[s] = new /\ att' = [att EXCEPT ![s] = att'[s]]
    BY <2>1 DEF BuildTypes
  <2>3. /\ phase' = [phase EXCEPT ![s] = phase'[s]] /\ phase'[s] \in {"off", "run", "ok", "failed"}
        /\ phase'[s] = "ok" => how = "ok"
    BY <2>1 DEF BuildTypes
  <2> QED BY <1>0, <2>2, <2>3 DEF Settled
<1> QED BY <1>1, <1>2

LEMMA EndOK ==
  ASSUME BuildTypes, NEW s \in Stages, NEW a \in DOMAIN att[s],
         NEW how \in {"retry", "fatal", "ok"}, End(s, a, how)
  PROVE  Settled(s, a, how)
<1> DEFINE new == [att[s] EXCEPT ![a].pc = "ended"]
<1>1. att[s] \in Seq(AttemptRecord) /\ a \in 1..Len(att[s]) /\ att[s][a] \in AttemptRecord
  BY DEF BuildTypes
<1>2. /\ new \in Seq(AttemptRecord) /\ Len(new) = Len(att[s]) /\ Len(new) > 0
      /\ \A b \in DOMAIN new : new[b].pc = "ended" \/ new[b] = att[s][b]
  <2> DEFINE ended == [att[s][a] EXCEPT !.pc = "ended"]
  <2>1. ended \in AttemptRecord /\ ended.pc = "ended"
    BY <1>1 DEF AttemptRecord
  <2>2. new = [att[s] EXCEPT ![a] = ended]
    OBVIOUS
  <2> HIDE DEF ended, new
  <2> QED BY <1>1, <2>1, <2>2
<1>3. IF Current(s, a) THEN Settle(s, new, how) ELSE att' = [att EXCEPT ![s] = new] /\ UNCHANGED phase
  BY DEF End
<1> HIDE DEF new
<1>4. CASE Current(s, a)
  BY <1>2, <1>3, <1>4, SettleOK DEF Current
<1>5. CASE ~Current(s, a)
  <2>1. att' = [att EXCEPT ![s] = new] /\ phase' = phase
    BY <1>3, <1>5
  <2>2. att'[s] = new /\ att' = [att EXCEPT ![s] = att'[s]]
    BY <2>1 DEF BuildTypes
  <2>3. phase' = [phase EXCEPT ![s] = phase'[s]] /\ phase'[s] \in {"off", "run", "ok", "failed"}
    BY <2>1 DEF BuildTypes
  <2> QED BY <1>1, <1>2, <2>1, <2>2, <2>3 DEF Settled
<1> QED BY <1>4, <1>5

\* A step that settles an attempt and leaves true what is known of the job.
LEMMA SettledStep ==
  ASSUME BuildInv, NEW s \in Stages, ~Untouched(s), NEW a, NEW how, Settled(s, a, how),
         jobs' = [jobs EXCEPT ![s] = jobs'[s]], jobs'[s] \in Seq(JobRecord), Len(jobs'[s]) <= 1,
         Len(jobs[s]) <= Len(jobs'[s]),
         \A j \in DOMAIN jobs'[s] : jobs'[s][j].state = "success" => jobs'[s][j].done,
         Succeeded(s) => Succeeded(s)', how = "ok" => Succeeded(s),
         UNCHANGED <<wf, stage, reused>>
  PROVE  BuildInv'
<1>1. /\ s <= stage /\ s \notin reused /\ StageOK(s)
      /\ jobs[s] \in Seq(JobRecord) /\ att[s] \in Seq(AttemptRecord)
  BY AtStage
<1>2. Len(jobs[s]) = 1 => Len(jobs'[s]) = 1
  BY <1>1 DEF StageOK
<1>3. ASSUME NEW b \in DOMAIN att'[s] PROVE AttemptOK(s, att[s][b])'
  <2>1. CASE att'[s][b].pc \in {"begin", "ended"}
    BY <2>1 DEF AttemptOK
  <2>2. CASE b \in DOMAIN att[s] /\ att'[s][b] = att[s][b]
    BY <1>1, <1>2, <2>2 DEF StageOK, AttemptOK
  <2> QED BY <2>1, <2>2 DEF Settled
<1>4. phase'[s] = "ok" => Succeeded(s)'
  BY <1>1 DEF StageOK, Settled
<1> QED BY <1>1, <1>3, <1>4, StageMoves DEF Settled

\* A step that moves one attempt and nothing else.
LEMMA GotoStep ==
  ASSUME BuildInv, NEW s \in Stages, NEW a \in DOMAIN att[s],
         NEW pc \in {"poll", "read", "unwind", "dead"}, NEW j \in {0, 1},
         att' = [att EXCEPT ![s][a] = [pc |-> pc, job |-> j]],
         pc # "dead" => Len(jobs'[s]) = 1 /\ j = 1,
         pc = "read" => Succeeded(s),
         jobs' = [jobs EXCEPT ![s] = jobs'[s]], jobs'[s] \in Seq(JobRecord), Len(jobs'[s]) <= 1,
         Len(jobs[s]) <= Len(jobs'[s]),
         \A i \in DOMAIN jobs'[s] : jobs'[s][i].state = "success" => jobs'[s][i].done,
         Succeeded(s) => Succeeded(s)',
         UNCHANGED <<wf, stage, reused, phase>>
  PROVE  BuildInv'
<1>0. ~Untouched(s)
  BY DEF Untouched
<1>1. /\ s <= stage /\ s \notin reused /\ StageOK(s)
      /\ jobs[s] \in Seq(JobRecord) /\ att[s] \in Seq(AttemptRecord)
      /\ phase[s] \in {"off", "run", "ok", "failed"} /\ a \in 1..Len(att[s])
  BY <1>0, AtStage
<1> DEFINE to == [pc |-> pc, job |-> j]
<1>2. to \in AttemptRecord
  BY DEF AttemptRecord
<1>3. att'[s] = [att[s] EXCEPT ![a] = to] /\ att' = [att EXCEPT ![s] = att'[s]]
  BY DEF BuildInv, BuildTypes
<1>4. /\ att'[s] \in Seq(AttemptRecord) /\ Len(att'[s]) > 0
      /\ \A b \in DOMAIN att'[s] : att'[s][b] = IF b = a THEN to ELSE att[s][b]
      /\ DOMAIN att'[s] = DOMAIN att[s]
  BY <1>1, <1>2, <1>3
<1>5. Len(jobs[s]) = 1 => Len(jobs'[s]) = 1
  BY <1>1 DEF StageOK
<1>6. ASSUME NEW b \in DOMAIN att'[s] PROVE AttemptOK(s, att[s][b])'
  <2>1. CASE b = a
    BY <1>4, <2>1 DEF AttemptOK
  <2>2. CASE b # a
    BY <1>1, <1>4, <1>5, <2>2 DEF StageOK, AttemptOK
  <2> QED BY <2>1, <2>2
<1>7. phase' = [phase EXCEPT ![s] = phase'[s]]
  BY DEF BuildInv, BuildTypes
<1>8. phase'[s] = "ok" => Succeeded(s)'
  BY <1>1 DEF StageOK
<1> QED BY <1>1, <1>3, <1>4, <1>6, <1>7, <1>8, StageMoves

\* The jobs stay as they are.
LEMMA JobsStay ==
  ASSUME BuildInv, NEW s \in Stages, NEW a \in DOMAIN att[s], UNCHANGED jobs
  PROVE  /\ ~Untouched(s) /\ StageOK(s) /\ AttemptOK(s, att[s][a])
         /\ att[s][a] \in AttemptRecord
         /\ jobs' = [jobs EXCEPT ![s] = jobs'[s]] /\ jobs'[s] \in Seq(JobRecord)
         /\ Len(jobs'[s]) <= 1 /\ Len(jobs[s]) <= Len(jobs'[s])
         /\ \A j \in DOMAIN jobs'[s] : jobs'[s][j].state = "success" => jobs'[s][j].done
         /\ Succeeded(s) => Succeeded(s)'
<1>1. ~Untouched(s)
  BY DEF Untouched
<1>2. StageOK(s) /\ jobs[s] \in Seq(JobRecord) /\ att[s] \in Seq(AttemptRecord)
  BY <1>1, AtStage
<1>3. jobs' = [jobs EXCEPT ![s] = jobs'[s]]
  BY DEF BuildInv, BuildTypes
<1> QED BY <1>1, <1>2, <1>3 DEF StageOK, Succeeded

LEMMA TimesOutStep ==
  ASSUME BuildInv, NEW s \in Stages, TimesOut(s)
  PROVE  BuildInv'
<1>1. phase[s] = "run" /\ Settle(s, att[s], "retry") /\ UNCHANGED <<wf, stage, reused, jobs>>
  BY DEF TimesOut
<1>2. att[s] \in Seq(AttemptRecord) /\ Len(att[s]) > 0
  BY <1>1 DEF BuildInv, BuildTypes, StageOK
<1>3. Settled(s, 0, "retry")
  BY <1>1, <1>2, SettleOK DEF BuildInv
<1>4. 1 \in DOMAIN att[s]
  BY <1>2
<1> QED BY <1>1, <1>3, <1>4, JobsStay, SettledStep

LEMMA WorkerDiesStep ==
  ASSUME BuildInv, NEW s \in Stages, NEW a \in DOMAIN att[s], WorkerDies(s, a)
  PROVE  BuildInv'
<1>1. att' = [att EXCEPT ![s][a].pc = "dead"] /\ UNCHANGED <<wf, stage, reused, phase, jobs>>
  BY DEF WorkerDies
<1>2. att[s][a] \in AttemptRecord
  BY <1>1, JobsStay
<1>3. [att[s][a] EXCEPT !.pc = "dead"] = [pc |-> "dead", job |-> att[s][a].job]
  BY <1>2 DEF AttemptRecord
<1>4. att' = [att EXCEPT ![s][a] = [pc |-> "dead", job |-> att[s][a].job]]
  BY <1>1, <1>3
<1> DEFINE j == att[s][a].job
<1>5. j \in {0, 1} /\ att' = [att EXCEPT ![s][a] = [pc |-> "dead", job |-> j]]
  BY <1>2, <1>4 DEF AttemptRecord
<1>6. UNCHANGED <<wf, stage, reused, phase>>
  BY <1>1
<1>7. /\ jobs' = [jobs EXCEPT ![s] = jobs'[s]] /\ jobs'[s] \in Seq(JobRecord)
      /\ Len(jobs'[s]) <= 1 /\ Len(jobs[s]) <= Len(jobs'[s])
      /\ \A i \in DOMAIN jobs'[s] : jobs'[s][i].state = "success" => jobs'[s][i].done
      /\ Succeeded(s) => Succeeded(s)'
  BY <1>1, JobsStay
<1> HIDE DEF j
<1> QED BY <1>5, <1>6, <1>7, GotoStep

\* The token of the stage finds its job again, or starts the first one.
LEMMA StartedOK ==
  ASSUME BuildInv, NEW s \in Stages, StageOK(s), jobs[s] \in Seq(JobRecord),
         jobs' = [jobs EXCEPT ![s] = Started(s, 0)]
  PROVE  /\ jobs' = [jobs EXCEPT ![s] = jobs'[s]] /\ jobs'[s] \in Seq(JobRecord)
         /\ Len(jobs'[s]) = 1 /\ Len(jobs[s]) <= 1
         /\ jobs'[s][1].state = "success" => jobs'[s][1].done
         /\ Succeeded(s) => Succeeded(s)'
         /\ JobOf(jobs'[s], 0) = 1
<1>0. jobs'[s] = Started(s, 0) /\ jobs' = [jobs EXCEPT ![s] = jobs'[s]]
  BY DEF BuildInv, BuildTypes
<1>1. /\ jobs'[s] \in Seq(JobRecord) /\ Len(jobs'[s]) = 1
      /\ jobs'[s][1].state = "success" => jobs'[s][1].done
      /\ Succeeded(s) => jobs'[s] = jobs[s]
  <2>1. CASE Len(jobs[s]) = 1
    <3>1. jobs[s][1] \in JobRecord
      BY <2>1
    <3>2. jobs'[s] = jobs[s]
      <4>1. 1 \in DOMAIN jobs[s] /\ jobs[s][1].token = 0
        BY <2>1, <3>1 DEF JobRecord
      <4> QED BY <1>0, <4>1 DEF Started
    <3> QED BY <2>1, <3>2 DEF StageOK
  <2>2. CASE Len(jobs[s]) # 1
    <3> DEFINE job == [token |-> 0, state |-> "running", done |-> FALSE, log |-> FALSE]
    <3>0. Len(jobs[s]) = 0
      BY <2>2, EmptyOrOne DEF StageOK
    <3>1. DOMAIN jobs[s] = {}
      BY <3>0
    <3>2. jobs'[s] = Append(jobs[s], job)
      BY <1>0, <3>1 DEF Started
    <3>3. job \in JobRecord /\ job.state # "success"
      BY DEF JobRecord
    <3> HIDE DEF job
    <3>4. Append(jobs[s], job) \in Seq(JobRecord) /\ Len(Append(jobs[s], job)) = 1
          /\ Append(jobs[s], job)[1] = job
      BY <3>0, <3>3, FirstJob
    <3>5. Len(jobs'[s]) = 1 /\ jobs'[s][1] = job /\ jobs'[s] \in Seq(JobRecord)
      BY <3>2, <3>4
    <3> QED BY <3>0, <3>3, <3>5 DEF Succeeded
  <2> QED BY <2>1, <2>2
<1>2. JobOf(jobs'[s], 0) = 1
  <2>0. jobs'[s][1] \in JobRecord
    BY <1>1
  <2>1. DOMAIN jobs'[s] = {1} /\ jobs'[s][1].token = 0
    BY <1>1, <2>0 DEF JobRecord
  <2> QED BY <2>1 DEF JobOf
<1>3. Len(jobs[s]) <= 1
  BY DEF StageOK
<1>4. Succeeded(s) => Succeeded(s)'
  BY <1>1 DEF Succeeded
<1> QED BY <1>0, <1>1, <1>2, <1>3, <1>4

LEMMA BeginStep ==
  ASSUME BuildInv, NEW s \in Stages, NEW a \in DOMAIN att[s], Begin(s, a)
  PROVE  BuildInv'
<1>0. /\ ~Untouched(s) /\ UNCHANGED <<wf, stage, reused>> /\ ClientToken(s, a) = 0
      /\ Classify("transient") = "retry"
  BY DEF Untouched, Begin, ClientToken, Classify
<1>1. StageOK(s) /\ jobs[s] \in Seq(JobRecord)
  BY <1>0, AtStage
<1>2. CASE jobs' = [jobs EXCEPT ![s] = Started(s, 0)]
  <2>1. /\ jobs' = [jobs EXCEPT ![s] = jobs'[s]] /\ jobs'[s] \in Seq(JobRecord)
        /\ Len(jobs'[s]) = 1 /\ Len(jobs[s]) <= 1
        /\ jobs'[s][1].state = "success" => jobs'[s][1].done
        /\ Succeeded(s) => Succeeded(s)'
        /\ JobOf(jobs'[s], 0) = 1
    BY <1>1, <1>2, StartedOK
  <2>2. \A i \in DOMAIN jobs'[s] : jobs'[s][i].state = "success" => jobs'[s][i].done
    BY <2>1
  <2>3. Len(jobs'[s]) <= 1 /\ Len(jobs[s]) <= Len(jobs'[s])
    BY <2>1
  <2>4. CASE Goto(s, a, "poll", JobOf(jobs'[s], ClientToken(s, a))) /\ UNCHANGED phase
    <3>1. att' = [att EXCEPT ![s][a] = [pc |-> "poll", job |-> 1]]
      BY <1>0, <2>1, <2>4 DEF Goto
    <3> QED BY <1>0, <2>1, <2>2, <2>3, <2>4, <3>1, GotoStep
  <2>5. CASE End(s, a, "retry")
    BY <1>0, <2>1, <2>2, <2>3, <2>5, EndOK, SettledStep DEF BuildInv
  <2>6. CASE UNCHANGED jobs /\ End(s, a, "retry")
    BY <1>0, <2>6, JobsStay, EndOK, SettledStep DEF BuildInv
  <2> QED BY <1>0, <2>4, <2>5, <2>6 DEF Begin
<1>3. CASE UNCHANGED jobs /\ End(s, a, "retry")
  BY <1>0, <1>3, JobsStay, EndOK, SettledStep DEF BuildInv
<1> QED BY <1>0, <1>2, <1>3 DEF Begin

LEMMA PollingStep ==
  ASSUME BuildInv, NEW s \in Stages, NEW a \in DOMAIN att[s],
         StopPolling(s, a) \/ ObserveFails(s, a) \/ Observe(s, a)
  PROVE  BuildInv'
<1>0. /\ att[s][a].pc = "poll" /\ UNCHANGED <<wf, stage, reused, jobs>>
  BY DEF StopPolling, ObserveFails, Observe, Polling
<1>1. att[s][a].job = 1 /\ Len(jobs'[s]) = 1 /\ StageOK(s) /\ ~Untouched(s)
  BY <1>0, JobsStay DEF AttemptOK
<1>2. CASE Goto(s, a, "unwind", att[s][a].job) /\ UNCHANGED phase
  <2>1. att' = [att EXCEPT ![s][a] = [pc |-> "unwind", job |-> 1]]
    BY <1>1, <1>2 DEF Goto
  <2> QED BY <1>0, <1>1, <1>2, <2>1, JobsStay, GotoStep
<1>3. CASE jobs[s][1].state = "success" /\ Goto(s, a, "read", att[s][a].job) /\ UNCHANGED phase
  <2>1. att' = [att EXCEPT ![s][a] = [pc |-> "read", job |-> 1]]
    BY <1>1, <1>3 DEF Goto
  <2>2. Succeeded(s)
    BY <1>0, <1>1, <1>3 DEF Succeeded, StageOK
  <2> QED BY <1>0, <1>1, <1>3, <2>1, <2>2, JobsStay, GotoStep
<1>4. CASE jobs[s][1].state \in {"failed", "cancelled"} /\ End(s, a, Classify(jobs[s][1].state))
  <2>1. Classify(jobs[s][1].state) \in {"fatal", "retry"}
    BY <1>4 DEF Classify
  <2>2. Settled(s, a, Classify(jobs[s][1].state))
    BY <1>4, <2>1, EndOK DEF BuildInv
  <2> QED BY <1>0, <1>1, <2>1, <2>2, JobsStay, SettledStep
<1>5. \/ Goto(s, a, "unwind", att[s][a].job) /\ UNCHANGED phase
      \/ jobs[s][1].state = "success" /\ Goto(s, a, "read", att[s][a].job) /\ UNCHANGED phase
      \/ jobs[s][1].state \in {"failed", "cancelled"} /\ End(s, a, Classify(jobs[s][1].state))
  BY <1>1 DEF StopPolling, ObserveFails, Observe, Observed
<1> QED BY <1>2, <1>3, <1>4, <1>5

LEMMA UnwindStep ==
  ASSUME BuildInv, NEW s \in Stages, NEW a \in DOMAIN att[s], Unwind(s, a)
  PROVE  BuildInv'
<1>0. /\ att[s][a].pc = "unwind" /\ UNCHANGED <<wf, stage, reused>> /\ End(s, a, "retry")
      /\ CancelJob(s, att[s][a].job) \/ UNCHANGED jobs
      /\ ~Untouched(s)
  BY DEF Unwind, Classify, Untouched
<1>1. Settled(s, a, "retry")
  BY <1>0, EndOK DEF BuildInv
<1>2. StageOK(s) /\ jobs[s] \in Seq(JobRecord) /\ AttemptOK(s, att[s][a])
  BY <1>0, AtStage DEF StageOK
<1>3. CASE CancelJob(s, att[s][a].job)
  <2>1. att[s][a].job = 1 /\ Len(jobs[s]) = 1 /\ jobs[s][1] \in JobRecord
    BY <1>0, <1>2 DEF AttemptOK
  <2> DEFINE job == [jobs[s][1] EXCEPT
               !.state = IF jobs[s][1].state = "running" THEN "cancelling" ELSE jobs[s][1].state]
  <2>2. jobs' = [jobs EXCEPT ![s][1] = job]
    BY <1>3, <2>1 DEF CancelJob
  <2>3. /\ job \in JobRecord /\ (job.state = "success" => jobs[s][1].state = "success")
        /\ (jobs[s][1].state = "success" => job.state = "success") /\ job.done = jobs[s][1].done
    BY <2>1 DEF JobRecord
  <2> HIDE DEF job
  <2>4. jobs'[s] = [jobs[s] EXCEPT ![1] = job] /\ jobs' = [jobs EXCEPT ![s] = jobs'[s]]
    BY <2>1, <2>2 DEF BuildInv, BuildTypes
  <2>5. jobs'[s] \in Seq(JobRecord) /\ Len(jobs'[s]) = 1 /\ jobs'[s][1] = job
    BY <1>2, <2>1, <2>3, <2>4
  <2>6. \A j \in DOMAIN jobs'[s] : jobs'[s][j].state = "success" => jobs'[s][j].done
    BY <1>2, <2>1, <2>3, <2>5 DEF StageOK
  <2>7. Succeeded(s) => Succeeded(s)'
    BY <2>3, <2>5 DEF Succeeded
  <2>8. Len(jobs'[s]) <= 1 /\ Len(jobs[s]) <= Len(jobs'[s])
    BY <2>1, <2>5
  <2> QED BY <1>0, <1>1, <2>4, <2>5, <2>6, <2>7, <2>8, SettledStep
<1>4. CASE UNCHANGED jobs
  BY <1>0, <1>1, <1>4, JobsStay, SettledStep
<1> QED BY <1>0, <1>3, <1>4

LEMMA ReadSummaryStep ==
  ASSUME BuildInv, NEW s \in Stages, NEW a \in DOMAIN att[s], ReadSummary(s, a)
  PROVE  BuildInv'
<1>0. /\ att[s][a].pc = "read" /\ UNCHANGED <<wf, stage, reused, jobs>>
      /\ \E how \in {"retry", "fatal", "ok"} : End(s, a, how)
  BY DEF ReadSummary, Classify
<1>1. PICK how \in {"retry", "fatal", "ok"} : End(s, a, how)
  BY <1>0
<1>2. Settled(s, a, how)
  BY <1>1, EndOK DEF BuildInv
<1>3. Succeeded(s) /\ ~Untouched(s)
  BY <1>0, JobsStay DEF AttemptOK
<1> QED BY <1>0, <1>2, <1>3, JobsStay, SettledStep

\* ------------------------------------------------------------------- the workflow

Below == {p \in Nat \X Nat : p[1] < p[2]}

LEMMA Least ==
  ASSUME NEW T \in SUBSET Nat, T # {}
  PROVE  \E t \in T : \A u \in T : t <= u
<1>1. IsWellFoundedOn(Below, Nat)
  BY NatLessThanWellFounded DEF OpToRel, Below
<1>2. PICK x \in T : \A y \in T : ~(<<y, x>> \in Below)
  BY <1>1, WFMin
<1>3. \A y \in T : ~(y < x)
  BY <1>2 DEF Below
<1> QED BY <1>3

\* The workflow goes to the next stage without a reused result, over stages with one.
LEMMA AdvanceStep ==
  ASSUME BuildInv, Advance(stage), UNCHANGED jobs, reused' \in SUBSET Stages,
         wf \in {"prepare", "stages"}, wf = "stages" => reused' = reused,
         stage \in Stages => phase[stage] = "ok"
  PROVE  BuildInv'
<1> DEFINE rest == {t \in stage+1..Stage : t \notin reused'}
<1>0. /\ stage \in 0..Stage /\ Stage \in Nat /\ \A s \in Stages : s \in Nat /\ s > 0 /\ s <= Stage
      /\ wf = "prepare" => stage = 0
  BY PipelineConstants DEF BuildInv, BuildTypes, Stages
<1>1. ASSUME NEW s \in Stages
      PROVE  /\ s > stage \/ s \in reused' => Untouched(s)
             /\ s <= stage => s \in reused' \/ phase[s] = "ok"
  BY <1>0 DEF BuildInv, StageOK
<1>2. CASE rest = {}
  <2>1. wf' = "summary" /\ UNCHANGED <<stage, att, phase>>
    BY <1>2 DEF Advance
  <2>2. BuildTypes'
    BY <2>1 DEF BuildInv, BuildTypes
  <2>3. ASSUME NEW s \in Stages PROVE s \in reused' \/ phase[s] = "ok"
    BY <1>0, <1>1, <1>2
  <2>4. ASSUME NEW s \in Stages PROVE StageOK(s)'
    BY <1>1, <2>1, <2>3 DEF BuildInv, StageOK, Untouched, AttemptOK, Succeeded
  <2> QED BY <2>1, <2>2, <2>4 DEF BuildInv
<1>3. CASE rest # {}
  <2>1. rest \in SUBSET Nat /\ rest \subseteq Stages
    BY <1>0 DEF Stages
  <2>2. \E t \in rest : \A u \in rest : t <= u
    BY <1>3, <2>1, Least
  <2> DEFINE t == CHOOSE t \in rest : \A u \in rest : t <= u
  <2>3. t \in rest /\ \A u \in rest : t <= u
    BY <2>2
  <2>4. /\ wf' = "stages" /\ stage' = t
        /\ att' = [att EXCEPT ![t] = <<Fresh>>]
        /\ phase' = [phase EXCEPT ![t] = "run"]
    BY <1>3 DEF Advance
  <2> HIDE DEF t
  <2>5. t \in Stages /\ t > stage /\ t \notin reused' /\ t \in Nat
    BY <1>0, <2>1, <2>3
  <2>6. <<Fresh>> \in Seq(AttemptRecord)
    BY FreshIs
  <2>7. BuildTypes'
    BY <2>4, <2>5, <2>6 DEF BuildInv, BuildTypes, Stages
  <2>8. ASSUME NEW s \in Stages PROVE StageOK(s)'
    <3>1. CASE s = t
      <4>1. jobs'[s] = <<>> /\ att'[s] = <<Fresh>> /\ phase'[s] = "run"
        BY <1>1, <2>4, <2>5, <3>1 DEF Untouched, BuildInv, BuildTypes
      <4>2. ~(s > stage' \/ s \in reused') /\ ~(s < stage' \/ wf' \in {"summary", "done"})
        BY <2>4, <2>5, <3>1
      <4>3. \A a \in DOMAIN att'[s] : AttemptOK(s, att[s][a])'
        BY <4>1, FreshIs DEF AttemptOK
      <4> QED BY <4>1, <4>2, <4>3 DEF StageOK
    <3>2. CASE s # t
      <4>1. jobs'[s] = jobs[s] /\ att'[s] = att[s] /\ phase'[s] = phase[s]
        BY <2>4, <3>2 DEF BuildInv, BuildTypes
      <4>2. s > stage' => s > stage
        BY <1>0, <2>4, <2>5
      <4>3. s < stage' => s \in reused' \/ phase[s] = "ok"
        <5>1. s > stage => s \in reused' \/ s \in rest
          BY <1>0
        <5>2. s \in rest => ~(s < t)
          BY <1>0, <2>3, <2>5
        <5> QED BY <1>0, <1>1, <2>4, <5>1, <5>2
      <4> QED BY <1>1, <2>4, <4>1, <4>2, <4>3 DEF BuildInv, StageOK, Untouched, AttemptOK, Succeeded
    <3> QED BY <3>1, <3>2
  <2> QED BY <2>4, <2>7, <2>8 DEF BuildInv
<1> QED BY <1>2, <1>3

\* The workflow ends, fails, is asked to cancel, or rests.
LEMMA WorkflowStays ==
  ASSUME BuildInv, UNCHANGED <<stage, reused, jobs, att, phase>>,
         wf' \in {wf, "failed"} \/ (wf = "summary" /\ wf' = "done")
  PROVE  BuildInv'
<1>1. BuildTypes'
  BY DEF BuildInv, BuildTypes
<1>2. ASSUME NEW s \in Stages PROVE StageOK(s)'
  BY DEF BuildInv, StageOK, Untouched, AttemptOK, Succeeded
<1> QED BY <1>1, <1>2 DEF BuildInv

LEMMA BuildInit == Init => BuildInv
<1>1. SUFFICES ASSUME Init PROVE BuildInv
  OBVIOUS
<1>2. BuildTypes
  BY <1>1, PipelineConstants DEF Init, BuildTypes, Stages
<1>3. ASSUME NEW s \in Stages PROVE StageOK(s)
  <2>1. jobs[s] = <<>> /\ att[s] = <<>> /\ phase[s] = "off" /\ s > stage /\ ~(s < stage)
    BY <1>1, PipelineConstants DEF Init, Stages
  <2> QED BY <1>1, <2>1 DEF StageOK, Untouched, Init
<1> QED BY <1>1, <1>2, <1>3 DEF BuildInv, Init

LEMMA BuildNext == BuildInv /\ [Next]_vars => BuildInv'
<1> SUFFICES ASSUME BuildInv, [Next]_vars PROVE BuildInv'
  OBVIOUS
<1>1. CASE Server
  BY <1>1, TimesOutStep DEF Server
<1>2. CASE Emr
  BY <1>2, EmrStep DEF Emr
<1>3. CASE Worker
  BY <1>3, BeginStep, PollingStep, UnwindStep, ReadSummaryStep, WorkerDiesStep DEF Worker, Attempt
<1>4. CASE Prepare
  <2>1. CASE wf' = "failed" /\ UNCHANGED <<stage, reused, att, phase>>
    BY <1>4, <2>1, WorkflowStays DEF Prepare
  <2>2. CASE \E R \in SUBSET (IF golden THEN Reusable ELSE {}) : reused' = R /\ Advance(0)
    <3>1. stage = 0 /\ wf = "prepare" /\ UNCHANGED jobs /\ stage \notin Stages
      BY <1>4 DEF Prepare, BuildInv, Stages
    <3>2. reused' \in SUBSET Stages
      BY <2>2, PipelineConstants DEF Stages
    <3> QED BY <2>2, <3>1, <3>2, AdvanceStep
  <2> QED BY <1>4, <2>1, <2>2 DEF Prepare
<1>5. CASE StageDone
  <2>1. wf = "stages" /\ reused' = reused /\ UNCHANGED jobs /\ reused \in SUBSET Stages
    BY <1>5 DEF StageDone, BuildInv, BuildTypes
  <2>2. CASE phase[stage] = "ok" /\ Advance(stage)
    BY <2>1, <2>2, AdvanceStep
  <2>3. CASE wf' = "failed" /\ UNCHANGED <<stage, att, phase>>
    BY <2>1, <2>3, WorkflowStays
  <2> QED BY <1>5, <2>2, <2>3 DEF StageDone
<1>6. CASE Summarise \/ Cancel \/ Quiet \/ UNCHANGED vars
  BY <1>6, WorkflowStays DEF Summarise, Cancel, Quiet, vars
<1> QED BY <1>1, <1>2, <1>3, <1>4, <1>5, <1>6 DEF Next, Workflow

\* A live job is that of the stage the workflow awaits.
LEMMA BuildOneJob == BuildInv => OneJobAtATime
<1> SUFFICES ASSUME BuildInv, NEW s \in Stages, NEW t \in Stages,
                    NEW i \in DOMAIN jobs[s], NEW j \in DOMAIN jobs[t],
                    Live(jobs[s][i]), Live(jobs[t][j])
             PROVE  s = t /\ i = j
  BY DEF OneJobAtATime
<1>1. ASSUME NEW r \in Stages, NEW k \in DOMAIN jobs[r], Live(jobs[r][k])
      PROVE  r = stage /\ k = 1
  <2>1. ~Untouched(r)
    BY DEF Untouched
  <2>2. r <= stage /\ r \notin reused /\ StageOK(r) /\ jobs[r] \in Seq(JobRecord)
    BY <2>1, AtStage
  <2>3. k = 1
    <3>1. Len(jobs[r]) \in Nat /\ Len(jobs[r]) <= 1 /\ k \in 1..Len(jobs[r])
      BY <2>2 DEF StageOK
    <3> QED BY <3>1, OnlyOne
  <2>4. ~Succeeded(r)
    BY <1>1, <2>3 DEF Succeeded, Live
  <2>5. ~(r < stage)
    BY <2>2, <2>4 DEF StageOK
  <2>6. r \in Nat /\ stage \in Nat
    BY PipelineConstants DEF Stages, BuildInv, BuildTypes
  <2> QED BY <2>2, <2>3, <2>5, <2>6
<1> QED BY <1>1

LEMMA BuildResults == BuildInv => ResultsOfSuccess
<1> SUFFICES ASSUME BuildInv, NEW s \in Stages, phase[s] = "ok" \/ (wf = "done" /\ s \notin reused)
             PROVE  \E j \in DOMAIN jobs[s] : jobs[s][j].state = "success" /\ jobs[s][j].done
  BY DEF ResultsOfSuccess
<1>1. StageOK(s) /\ jobs[s] \in Seq(JobRecord)
  BY DEF BuildInv, BuildTypes
<1>2. Succeeded(s)
  BY <1>1 DEF StageOK
<1>3. 1 \in DOMAIN jobs[s]
  BY <1>1, <1>2 DEF Succeeded
<1> QED BY <1>2, <1>3 DEF Succeeded

\* ------------------------------------------------------------ ResearchDomain

SilverKeys == (1..Fires) \X (1..Sources)
DomainRecord ==
  [pc : {"next", "capture", "silver", "golden", "stuck", "completed", "failed", "cancelled"},
   index : 1..Sources+1, here : Nat, done : Seq(1..Sources), failed : Seq(1..Sources), stop : BOOLEAN]
ChildRecord ==
  [kind : {"none", "capture", "silver", "golden"}, state : {"none", "open", "ok", "failed"}]
SlotRecord == [key : SilverKeys \cup {<<0, 0>>}, attempt : Nat, pc : {"free", "poll"}]
SilverStates == {"none", "running", "success", "failed", "cancelled"}

DomainTypes ==
  /\ fire \in 1..Fires
  /\ dom \in DomainRecord /\ (dom.pc \in {"capture", "silver"} => dom.index <= Sources)
  /\ child \in ChildRecord /\ queued \in Nat
  /\ slot \in SlotRecord /\ (slot.pc = "poll" => slot.key \in SilverKeys)
  /\ silverJobs \in [SilverKeys -> SilverStates]
  /\ goldens \in [1..Fires -> SUBSET (1..Sources)]

\* What the workflow hands on: the sources tried before this one, as successes of
\* this run or, one of them at least, as failures.
Collected ==
  /\ \A n \in DOMAIN dom.done : silverJobs[<<fire, dom.done[n]>>] = "success"
  /\ dom.failed = <<>> => \A s \in 1..dom.index-1 : \E n \in DOMAIN dom.done : dom.done[n] = s
ChildSucceeded == dom.pc = "silver" /\ child.kind = "silver" /\ child.state = "ok" =>
                    silverJobs[<<fire, dom.index>>] = "success"
\* The job that runs is the one the Silver worker polls.
Watched ==
  ~gone => \A k \in SilverKeys : silverJobs[k] = "running" => slot.pc = "poll" /\ slot.key = k

DomainInv == DomainTypes /\ Collected /\ ChildSucceeded /\ Watched /\ RD!GoldenOfAllSources

LEMMA KeyIs == DomainTypes /\ dom.pc \in {"capture", "silver"} =>
                 RD!Key = <<fire, dom.index>> /\ <<fire, dom.index>> \in SilverKeys
  BY PipelinesConstants DEF DomainTypes, DomainRecord, RD!Key, SilverKeys

HereAfter(d) == IF d.here + 1 >= input.bound /\ d.index < Sources THEN 0 ELSE d.here + 1

LEMMA ContinuedIs ==
  ASSUME NEW d \in DomainRecord, d.index <= Sources
  PROVE  /\ RD!Continued(d) \in DomainRecord
         /\ RD!Continued(d).pc = "next" /\ RD!Continued(d).index = d.index + 1
         /\ RD!Continued(d).done = d.done /\ RD!Continued(d).failed = d.failed
<1>1. HereAfter(d) \in Nat
  BY DEF DomainRecord, HereAfter
<1>2. d.index + 1 \in 1..Sources+1
  BY PipelinesConstants DEF DomainRecord
<1>3. RD!Continued(d) = [d EXCEPT !.pc = "next", !.index = d.index + 1, !.here = HereAfter(d)]
  BY DEF RD!Continued, HereAfter
<1> QED BY <1>1, <1>2, <1>3 DEF DomainRecord

LEMMA ElementIs == ASSUME NEW S, NEW q \in Seq(S), NEW n \in DOMAIN q PROVE q[n] \in S
  OBVIOUS

\* The elements of r are those of q, and x.
Adds(q, x, r) ==
  /\ \A n \in DOMAIN r : r[n] = x \/ (n \in DOMAIN q /\ r[n] = q[n])
  /\ \A n \in DOMAIN q : n \in DOMAIN r /\ r[n] = q[n]
  /\ \E n \in DOMAIN r : r[n] = x

LEMMA AppendIs ==
  ASSUME NEW S, NEW q \in Seq(S), NEW x \in S
  PROVE  Adds(q, x, Append(q, x)) /\ Append(q, x) # <<>> /\ Append(q, x) \in Seq(S)
<1> DEFINE r == Append(q, x)
<1>1. r \in Seq(S) /\ Len(r) = Len(q) + 1 /\ Len(q) \in Nat
  OBVIOUS
<1>2. /\ r[Len(q) + 1] = x /\ \A n \in 1..Len(q) : r[n] = q[n]
  OBVIOUS
<1>3. DOMAIN r = 1..Len(q)+1 /\ DOMAIN q = 1..Len(q)
  BY <1>1
<1>4. r # <<>>
  BY <1>1
<1>5. \E n \in DOMAIN r : r[n] = x
  BY <1>1, <1>2, <1>3
<1> HIDE DEF r
<1>6. Adds(q, x, r) /\ r # <<>> /\ r \in Seq(S)
  BY <1>1, <1>2, <1>3, <1>4, <1>5 DEF Adds
<1> QED BY <1>6 DEF r

\* The workflow moves and collects nothing.
LEMMA FlowStep ==
  ASSUME DomainInv, dom' \in DomainRecord, dom'.pc \in {"capture", "silver"} => dom'.index <= Sources,
         dom'.index = dom.index, dom'.done = dom.done, dom'.failed = dom.failed,
         child' \in ChildRecord, queued' \in Nat,
         dom'.pc = "silver" /\ child'.state = "ok" => UNCHANGED <<dom, child>>,
         UNCHANGED <<fire, slot, silverJobs, goldens, gone>>
  PROVE  DomainInv'
<1>1. DomainTypes'
  BY DEF DomainInv, DomainTypes
<1>2. Collected' /\ ChildSucceeded' /\ Watched' /\ RD!GoldenOfAllSources'
  BY DEF DomainInv, Collected, ChildSucceeded, Watched, RD!GoldenOfAllSources
<1> QED BY <1>1, <1>2 DEF DomainInv

\* A source is through, and the next one is tried.
LEMMA SourceStep ==
  ASSUME DomainInv, dom.pc \in {"capture", "silver"}, NEW d \in DomainRecord, dom' = RD!Continued(d),
         d.index = dom.index,
         \/ d.failed = dom.failed /\ d.done = Append(dom.done, dom.index)
            /\ silverJobs[<<fire, dom.index>>] = "success"
         \/ d.done = dom.done /\ d.failed = Append(dom.failed, dom.index),
         child' = RD!NoChild, UNCHANGED <<fire, queued, slot, silverJobs, goldens, gone>>
  PROVE  DomainInv'
<1>1. dom \in DomainRecord /\ dom.index \in 1..Sources /\ dom.index + 1 \in Nat
      /\ dom.done \in Seq(1..Sources) /\ dom.failed \in Seq(1..Sources)
  BY PipelinesConstants DEF DomainInv, DomainTypes, DomainRecord
<1>2. /\ dom' \in DomainRecord /\ dom'.pc = "next" /\ dom'.index = dom.index + 1
      /\ dom'.done = d.done /\ dom'.failed = d.failed
  BY <1>1, ContinuedIs
<1>3. child' \in ChildRecord /\ child'.state = "none"
  BY DEF RD!NoChild, ChildRecord
<1>4. DomainTypes'
  BY <1>2, <1>3 DEF DomainInv, DomainTypes
<1>5. Collected'
  <2>1. CASE d.failed = dom.failed /\ d.done = Append(dom.done, dom.index)
             /\ silverJobs[<<fire, dom.index>>] = "success"
    <3>1. Adds(dom.done, dom.index, d.done)
      BY <1>1, <2>1, AppendIs
    <3>2. \A n \in DOMAIN d.done : silverJobs[<<fire, d.done[n]>>] = "success"
      BY <2>1, <3>1 DEF DomainInv, Collected, Adds
    <3>3. ASSUME dom.failed = <<>>, NEW s \in 1..dom.index PROVE \E n \in DOMAIN d.done : d.done[n] = s
      <4>1. CASE s = dom.index
        BY <3>1, <4>1 DEF Adds
      <4>2. CASE s # dom.index
        <5>1. s \in 1..dom.index-1
          BY <1>1, <4>2
        <5>2. PICK n \in DOMAIN dom.done : dom.done[n] = s
          BY <3>3, <5>1 DEF DomainInv, Collected
        <5> QED BY <3>1, <5>2 DEF Adds
      <4> QED BY <4>1, <4>2
    <3>4. dom'.index - 1 = dom.index
      BY <1>1, <1>2
    <3> QED BY <1>2, <2>1, <3>2, <3>3, <3>4 DEF Collected
  <2>2. CASE d.done = dom.done /\ d.failed = Append(dom.failed, dom.index)
    <3>1. d.failed # <<>>
      BY <1>1, <2>2, AppendIs
    <3> QED BY <1>2, <2>2, <3>1 DEF DomainInv, Collected
  <2> QED BY <2>1, <2>2
<1>6. ChildSucceeded' /\ Watched' /\ RD!GoldenOfAllSources'
  BY <1>2 DEF DomainInv, ChildSucceeded, Watched, RD!GoldenOfAllSources
<1> QED BY <1>4, <1>5, <1>6 DEF DomainInv

\* The worker and its job move; a success is final.
LEMMA WorkerStep ==
  ASSUME DomainInv, UNCHANGED <<fire, dom, goldens>>,
         child' \in ChildRecord, queued' \in Nat,
         slot' \in SlotRecord, slot'.pc = "poll" => slot'.key \in SilverKeys,
         silverJobs' \in [SilverKeys -> SilverStates],
         \A k \in SilverKeys : silverJobs[k] = "success" => silverJobs'[k] = "success",
         child'.state = "ok" => child' = child \/ silverJobs[<<fire, dom.index>>] = "success",
         Watched'
  PROVE  DomainInv'
<1>1. DomainTypes'
  BY DEF DomainInv, DomainTypes
<1>2. ASSUME NEW n \in DOMAIN dom.done PROVE <<fire, dom.done[n]>> \in SilverKeys
  <2>1. dom.done \in Seq(1..Sources)
    BY DEF DomainInv, DomainTypes, DomainRecord
  <2>2. dom.done[n] \in 1..Sources
    BY <2>1, ElementIs
  <2> QED BY <2>2 DEF DomainInv, DomainTypes, SilverKeys
<1>3. Collected'
  BY <1>2 DEF DomainInv, Collected
<1>4. ChildSucceeded'
  BY KeyIs DEF DomainInv, ChildSucceeded
<1>5. \A f \in 1..Fires : \A s \in goldens[f] : <<f, s>> \in SilverKeys
  BY DEF DomainInv, DomainTypes, SilverKeys
<1>6. RD!GoldenOfAllSources'
  BY <1>5 DEF DomainInv, RD!GoldenOfAllSources
<1> QED BY <1>1, <1>3, <1>4, <1>6 DEF DomainInv

\* The steps in which the workflow only moves.
LEMMA FlowSteps ==
  ASSUME DomainInv,
         \/ RD!StartCapture \/ RD!CaptureEnds \/ RD!StartSilver \/ RD!GoldenEnds
         \/ RD!Cancel \/ RD!ExecutionTimesOut \/ RD!AttemptTimesOut
  PROVE  DomainInv'
<1>0. dom \in DomainRecord /\ child \in ChildRecord /\ queued \in Nat
      /\ (dom.pc \in {"capture", "silver"} => dom.index <= Sources)
  BY DEF DomainInv, DomainTypes
<1>1. CASE RD!StartCapture
  <2>1. /\ dom.index <= Sources /\ dom' = [dom EXCEPT !.pc = "capture"]
        /\ child' = [kind |-> "capture", state |-> "open"]
        /\ UNCHANGED <<fire, queued, slot, silverJobs, goldens, gone>>
    BY <1>1 DEF RD!StartCapture
  <2>2. /\ dom' \in DomainRecord /\ dom'.pc = "capture" /\ dom'.index = dom.index
        /\ dom'.done = dom.done /\ dom'.failed = dom.failed /\ child' \in ChildRecord
    BY <1>0, <2>1 DEF DomainRecord, ChildRecord
  <2> QED BY <1>0, <2>1, <2>2, FlowStep
<1>2. CASE RD!CaptureEnds
  <2>1. PICK s \in {"ok", "failed"} : child' = [child EXCEPT !.state = s]
    BY <1>2 DEF RD!CaptureEnds
  <2>2. dom.pc = "capture" /\ UNCHANGED <<fire, dom, queued, slot, silverJobs, goldens, gone>>
    BY <1>2 DEF RD!CaptureEnds, RD!Awaits
  <2>3. child' \in ChildRecord
    BY <1>0, <2>1 DEF ChildRecord
  <2> QED BY <1>0, <2>2, <2>3, FlowStep
<1>3. CASE RD!StartSilver
  <2>1. /\ dom.pc = "capture" /\ dom' = [dom EXCEPT !.pc = "silver"] /\ queued' = 1
        /\ child' = [kind |-> "silver", state |-> "open"]
        /\ UNCHANGED <<fire, slot, silverJobs, goldens, gone>>
    BY <1>3 DEF RD!StartSilver, RD!Awaits
  <2>2. /\ dom' \in DomainRecord /\ dom'.pc = "silver" /\ dom'.index = dom.index
        /\ dom'.done = dom.done /\ dom'.failed = dom.failed
        /\ child' \in ChildRecord /\ child'.state = "open"
    BY <1>0, <2>1 DEF DomainRecord, ChildRecord
  <2> QED BY <1>0, <2>1, <2>2, FlowStep
<1>4. ASSUME NEW pc \in {"completed", "failed", "cancelled"}, dom' = [dom EXCEPT !.pc = pc],
             child' = RD!NoChild, queued' \in Nat, UNCHANGED <<fire, slot, silverJobs, goldens, gone>>
      PROVE  DomainInv'
  <2>1. /\ dom' \in DomainRecord /\ dom'.pc = pc /\ dom'.index = dom.index
        /\ dom'.done = dom.done /\ dom'.failed = dom.failed
        /\ child' \in ChildRecord /\ child'.state = "none"
    BY <1>0, <1>4 DEF DomainRecord, ChildRecord, RD!NoChild
  <2> QED BY <1>4, <2>1, FlowStep
<1>5. CASE RD!GoldenEnds
  <2>1. PICK how \in {"completed", "failed"} :
          dom' = [dom EXCEPT !.pc = IF how = "failed" /\ dom.stop THEN "cancelled" ELSE how]
    BY <1>5 DEF RD!GoldenEnds
  <2>2. child' = RD!NoChild /\ UNCHANGED <<fire, queued, slot, silverJobs, goldens, gone>>
    BY <1>5 DEF RD!GoldenEnds
  <2>3. CASE how = "failed" /\ dom.stop
    BY <1>0, <1>4, <2>1, <2>2, <2>3
  <2>4. CASE ~(how = "failed" /\ dom.stop)
    BY <1>0, <1>4, <2>1, <2>2, <2>4
  <2> QED BY <2>3, <2>4
<1>6. CASE RD!ExecutionTimesOut
  BY <1>4, <1>6 DEF RD!ExecutionTimesOut
<1>7. CASE RD!Cancel
  <2>1. /\ dom' = [dom EXCEPT !.stop = TRUE, !.pc = IF child.state = "ok" THEN "cancelled" ELSE @]
        /\ child' = IF child.state = "ok" THEN RD!NoChild
                    ELSE IF child.kind \in {"capture", "silver"} THEN [child EXCEPT !.state = "failed"]
                    ELSE child
        /\ queued' = 0 /\ UNCHANGED <<fire, slot, silverJobs, goldens, gone>>
    BY <1>7 DEF RD!Cancel
  <2>2. /\ dom' \in DomainRecord /\ dom'.pc \in {dom.pc, "cancelled"} /\ dom'.index = dom.index
        /\ dom'.done = dom.done /\ dom'.failed = dom.failed
    BY <1>0, <2>1 DEF DomainRecord
  <2>3. child' \in ChildRecord /\ child'.state # "ok"
    BY <1>0, <2>1 DEF ChildRecord, RD!NoChild
  <2> QED BY <1>0, <2>1, <2>2, <2>3, FlowStep
<1>8. CASE RD!AttemptTimesOut
  <2>1. /\ queued' = 0 \/ queued' = queued + 1
        /\ child' = child \/ child' = [child EXCEPT !.state = "failed"]
        /\ child.state = "open" /\ UNCHANGED <<fire, dom, slot, silverJobs, goldens, gone>>
    BY <1>8 DEF RD!AttemptTimesOut, RD!NextAttempt
  <2>2. child' \in ChildRecord /\ child'.state # "ok" /\ queued' \in Nat
    BY <1>0, <2>1 DEF ChildRecord
  <2> QED BY <1>0, <2>1, <2>2, FlowStep
<1> QED BY <1>1, <1>2, <1>3, <1>5, <1>6, <1>7, <1>8

LEMMA SourceDoneStep == DomainInv /\ RD!SourceDone => DomainInv'
<1> SUFFICES ASSUME DomainInv, RD!SourceDone PROVE DomainInv'
  OBVIOUS
<1> DEFINE d == [dom EXCEPT !.done = Append(dom.done, dom.index)]
<1>1. /\ dom.pc = "silver" /\ child.kind = "silver" /\ child.state = "ok"
      /\ dom' = RD!Continued([dom EXCEPT !.done = Append(@, dom.index)])
      /\ child' = RD!NoChild /\ UNCHANGED <<fire, queued, slot, silverJobs, goldens, gone>>
  BY DEF RD!SourceDone, RD!Awaits
<1>2. silverJobs[<<fire, dom.index>>] = "success"
  BY <1>1 DEF DomainInv, ChildSucceeded
<1>3. dom \in DomainRecord /\ dom.done \in Seq(1..Sources) /\ dom.index \in 1..Sources
  BY <1>1, PipelinesConstants DEF DomainInv, DomainTypes, DomainRecord
<1>4. Append(dom.done, dom.index) \in Seq(1..Sources)
  BY <1>3, AppendIs
<1>5. d \in DomainRecord /\ d.index = dom.index /\ d.failed = dom.failed /\ d.done = Append(dom.done, dom.index)
  BY <1>3, <1>4 DEF DomainRecord
<1>6. dom' = RD!Continued(d)
  BY <1>1
<1> HIDE DEF d
<1> QED BY <1>1, <1>2, <1>5, <1>6, SourceStep

LEMMA SourceFailsStep == DomainInv /\ RD!SourceFails => DomainInv'
<1> SUFFICES ASSUME DomainInv, RD!SourceFails PROVE DomainInv'
  OBVIOUS
<1>1. /\ dom.pc \in {"capture", "silver"} /\ child' = RD!NoChild
      /\ UNCHANGED <<fire, queued, slot, silverJobs, goldens, gone>>
  BY DEF RD!SourceFails
<1>2. /\ dom \in DomainRecord /\ dom.failed \in Seq(1..Sources) /\ dom.index \in 1..Sources
      /\ queued \in Nat
  BY <1>1, PipelinesConstants DEF DomainInv, DomainTypes, DomainRecord
<1>3. CASE dom' = [dom EXCEPT !.pc = IF dom.stop THEN "cancelled" ELSE "failed"]
  <2>1. /\ dom' \in DomainRecord /\ dom'.pc \in {"cancelled", "failed"} /\ dom'.index = dom.index
        /\ dom'.done = dom.done /\ dom'.failed = dom.failed
    BY <1>2, <1>3 DEF DomainRecord
  <2>2. child' \in ChildRecord
    BY <1>1 DEF ChildRecord, RD!NoChild
  <2> QED BY <1>1, <1>2, <2>1, <2>2, FlowStep
<1>4. CASE dom' = RD!Continued([dom EXCEPT !.failed = Append(@, dom.index)])
  <2> DEFINE d == [dom EXCEPT !.failed = Append(dom.failed, dom.index)]
  <2>1. Append(dom.failed, dom.index) \in Seq(1..Sources)
    BY <1>2, AppendIs
  <2>2. d \in DomainRecord /\ d.index = dom.index /\ d.done = dom.done /\ d.failed = Append(dom.failed, dom.index)
    BY <1>2, <2>1 DEF DomainRecord
  <2>3. dom' = RD!Continued(d)
    BY <1>4
  <2> HIDE DEF d
  <2> QED BY <1>1, <2>2, <2>3, SourceStep
<1> QED BY <1>3, <1>4 DEF RD!SourceFails

LEMMA ExhaustStep == DomainInv /\ RD!Exhaust => DomainInv'
<1> SUFFICES ASSUME DomainInv, RD!Exhaust PROVE DomainInv'
  OBVIOUS
<1>1. /\ dom.pc = "next" /\ dom.index > Sources /\ dom \in DomainRecord /\ child \in ChildRecord
      /\ queued \in Nat /\ fire \in 1..Fires /\ UNCHANGED <<fire, queued, slot, silverJobs, gone>>
  BY DEF RD!Exhaust, DomainInv, DomainTypes
<1>2. CASE dom' = [dom EXCEPT !.pc = "stuck"] /\ UNCHANGED <<child, goldens>>
  <2>1. /\ dom' \in DomainRecord /\ dom'.pc = "stuck" /\ dom'.index = dom.index
        /\ dom'.done = dom.done /\ dom'.failed = dom.failed
    BY <1>1, <1>2 DEF DomainRecord
  <2> QED BY <1>1, <1>2, <2>1, FlowStep
<1>3. CASE /\ dom.failed = <<>>
           /\ dom' = [dom EXCEPT !.pc = "golden"]
           /\ child' = [kind |-> "golden", state |-> "open"]
           /\ goldens' = [goldens EXCEPT ![fire] = {dom.done[n] : n \in DOMAIN dom.done}]
  <2>1. /\ dom' \in DomainRecord /\ dom'.pc = "golden" /\ dom'.index = dom.index
        /\ dom'.done = dom.done /\ dom'.failed = dom.failed
        /\ child' \in ChildRecord /\ child'.state = "open"
    BY <1>1, <1>3 DEF DomainRecord, ChildRecord
  <2>2. /\ {dom.done[n] : n \in DOMAIN dom.done} = 1..Sources
        /\ \A s \in 1..Sources : silverJobs[<<fire, s>>] = "success"
    <3>1. dom.done \in Seq(1..Sources)
      BY <1>1 DEF DomainRecord
    <3>2. \A n \in DOMAIN dom.done : dom.done[n] \in 1..Sources
      BY <3>1, ElementIs
    <3>3. ASSUME NEW s \in 1..Sources PROVE \E n \in DOMAIN dom.done : dom.done[n] = s
      <4>1. s \in 1..dom.index-1
        BY <1>1, PipelinesConstants DEF DomainRecord
      <4> QED BY <1>3, <4>1 DEF DomainInv, Collected
    <3> QED BY <3>2, <3>3 DEF DomainInv, Collected
  <2>3. goldens' = [goldens EXCEPT ![fire] = 1..Sources] /\ goldens \in [1..Fires -> SUBSET (1..Sources)]
    BY <1>3, <2>2 DEF DomainInv, DomainTypes
  <2>4. DomainTypes'
    BY <1>1, <2>1, <2>3 DEF DomainInv, DomainTypes
  <2>5. Collected' /\ ChildSucceeded' /\ Watched'
    <3>1. Collected'
      <4>1. /\ dom'.done = dom.done /\ dom'.failed = dom.failed /\ dom'.index = dom.index
            /\ fire' = fire /\ silverJobs' = silverJobs
        BY <1>1, <2>1
      <4>2. Collected
        BY DEF DomainInv
      <4> QED BY <4>1, <4>2 DEF Collected
    <3>2. ChildSucceeded'
      BY <2>1 DEF ChildSucceeded
    <3>3. Watched'
      BY <1>1 DEF DomainInv, Watched
    <3> QED BY <3>1, <3>2, <3>3
  <2>6. RD!GoldenOfAllSources'
    BY <1>1, <2>2, <2>3 DEF DomainInv, RD!GoldenOfAllSources
  <2> QED BY <2>4, <2>5, <2>6 DEF DomainInv
<1> QED BY <1>2, <1>3 DEF RD!Exhaust

LEMMA FireStep == DomainInv /\ RD!Fire => DomainInv'
<1> SUFFICES ASSUME DomainInv, RD!Fire PROVE DomainInv'
  OBVIOUS
<1>1. /\ fire' = fire + 1 /\ fire < Fires /\ dom' = RD!Started /\ fire \in 1..Fires
      /\ UNCHANGED <<child, queued, slot, silverJobs, goldens, gone>>
  BY DEF RD!Fire, DomainInv, DomainTypes
<1>2. fire' \in 1..Fires
  BY <1>1, PipelinesConstants
<1>3. /\ dom' \in DomainRecord /\ dom'.pc = "next" /\ dom'.index = 1 /\ dom'.done = <<>>
  BY <1>1, PipelinesConstants DEF RD!Started, DomainRecord
<1>4. DomainTypes'
  BY <1>1, <1>2, <1>3 DEF DomainInv, DomainTypes
<1>5. Collected'
  BY <1>3 DEF Collected
<1>6. ChildSucceeded' /\ Watched' /\ RD!GoldenOfAllSources'
  BY <1>1, <1>3 DEF DomainInv, ChildSucceeded, Watched, RD!GoldenOfAllSources
<1> QED BY <1>4, <1>5, <1>6 DEF DomainInv

LEMMA TakeStep == DomainInv /\ RD!Take => DomainInv'
<1> SUFFICES ASSUME DomainInv, RD!Take PROVE DomainInv'
  OBVIOUS
<1> DEFINE k == <<fire, dom.index>>
<1>1. /\ slot = RD!Free /\ dom.pc = "silver"
      /\ slot' = [key |-> RD!Key, attempt |-> queued, pc |-> "poll"]
      /\ silverJobs' = [silverJobs EXCEPT ![RD!Key] = IF @ = "none" THEN "running" ELSE @]
      /\ UNCHANGED <<fire, dom, child, queued, goldens, gone>>
  BY DEF RD!Take, RD!Awaits
<1>2. RD!Key = k /\ k \in SilverKeys
  BY <1>1, KeyIs DEF DomainInv
<1>3. /\ queued \in Nat /\ child \in ChildRecord /\ slot.pc = "free"
      /\ silverJobs \in [SilverKeys -> SilverStates]
  BY <1>1 DEF DomainInv, DomainTypes, RD!Free
<1> HIDE DEF k
<1>4. silverJobs' = [silverJobs EXCEPT ![k] = IF silverJobs[k] = "none" THEN "running" ELSE silverJobs[k]]
  BY <1>1, <1>2
<1>5. /\ silverJobs' \in [SilverKeys -> SilverStates]
      /\ \A j \in SilverKeys : silverJobs[j] = "success" => silverJobs'[j] = "success"
      /\ \A j \in SilverKeys : silverJobs'[j] = "running" => j = k \/ silverJobs[j] = "running"
  BY <1>2, <1>3, <1>4 DEF SilverStates
<1>6. slot' \in SlotRecord /\ slot'.pc = "poll" /\ slot'.key = k
  BY <1>1, <1>2, <1>3 DEF SlotRecord
<1>7. Watched'
  BY <1>1, <1>3, <1>5, <1>6 DEF DomainInv, Watched
<1> QED BY <1>1, <1>2, <1>3, <1>5, <1>6, <1>7, WorkerStep

LEMMA FreeIs == RD!Free \in SlotRecord /\ RD!Free.pc = "free"
  BY DEF RD!Free, SlotRecord

LEMMA GiveUpStep == DomainInv /\ RD!GiveUp => DomainInv'
<1> SUFFICES ASSUME DomainInv, RD!GiveUp PROVE DomainInv'
  OBVIOUS
<1> DEFINE k == slot.key
<1>1. /\ slot.pc = "poll" /\ slot' = RD!Free
      /\ UNCHANGED <<fire, dom, child, queued, goldens>>
  BY DEF RD!GiveUp
<1>2. /\ k \in SilverKeys /\ queued \in Nat /\ child \in ChildRecord
      /\ silverJobs \in [SilverKeys -> SilverStates]
  BY <1>1 DEF DomainInv, DomainTypes
<1>3. CASE gone' = TRUE /\ UNCHANGED silverJobs
  <2>1. Watched'
    BY <1>3 DEF Watched
  <2> QED BY <1>1, <1>2, <1>3, <2>1, FreeIs, WorkerStep
<1>4. CASE /\ silverJobs' = [silverJobs EXCEPT ![slot.key] = IF @ = "running" THEN "cancelled" ELSE @]
           /\ UNCHANGED gone
  <2>1. silverJobs' = [silverJobs EXCEPT ![k] = IF silverJobs[k] = "running" THEN "cancelled" ELSE silverJobs[k]]
    BY <1>4
  <2>2. ~gone => \A j \in SilverKeys : silverJobs[j] = "running" => j = k
    BY DEF DomainInv, Watched
  <2> HIDE DEF k
  <2>3. /\ silverJobs' \in [SilverKeys -> SilverStates]
        /\ \A j \in SilverKeys : silverJobs[j] = "success" => silverJobs'[j] = "success"
        /\ \A j \in SilverKeys : silverJobs'[j] = "running" => j # k /\ silverJobs[j] = "running"
    BY <1>2, <2>1 DEF SilverStates
  <2>4. Watched'
    BY <1>4, <2>2, <2>3 DEF Watched
  <2> QED BY <1>1, <1>2, <2>3, <2>4, FreeIs, WorkerStep
<1> QED BY <1>3, <1>4 DEF RD!GiveUp

LEMMA PollStep == DomainInv /\ RD!Poll => DomainInv'
<1> SUFFICES ASSUME DomainInv, RD!Poll PROVE DomainInv'
  OBVIOUS
<1>1. /\ slot.pc = "poll" /\ RD!Current /\ silverJobs[slot.key] # "running" /\ slot' = RD!Free
      /\ UNCHANGED <<fire, dom, silverJobs, goldens, gone>>
  BY DEF RD!Poll
<1>2. /\ slot.key \in SilverKeys /\ queued \in Nat /\ child \in ChildRecord
      /\ silverJobs \in [SilverKeys -> SilverStates]
  BY <1>1 DEF DomainInv, DomainTypes
<1>3. slot.key = <<fire, dom.index>> /\ dom.pc = "silver" /\ child.state = "open"
  BY <1>1, KeyIs DEF DomainInv, RD!Current, RD!Awaits
<1>4. Watched'
  BY <1>1 DEF DomainInv, Watched
<1>5. /\ child' \in ChildRecord /\ queued' \in Nat
      /\ child'.state = "ok" => silverJobs[<<fire, dom.index>>] = "success"
  <2>1. CASE silverJobs[slot.key] = "success" /\ child' = [child EXCEPT !.state = "ok"] /\ queued' = 0
    BY <1>2, <1>3, <2>1 DEF ChildRecord
  <2>2. CASE child' = [child EXCEPT !.state = "failed"] /\ queued' = 0
    BY <1>2, <2>2 DEF ChildRecord
  <2>3. CASE queued' = queued + 1 /\ UNCHANGED child
    BY <1>2, <1>3, <2>3
  <2> QED BY <2>1, <2>2, <2>3 DEF RD!Poll, RD!NextAttempt
<1> QED BY <1>1, <1>2, <1>4, <1>5, FreeIs, WorkerStep

LEMMA SilverJobEndsStep ==
  ASSUME DomainInv, NEW k \in DOMAIN silverJobs, RD!JobEnds(k)
  PROVE  DomainInv'
<1>1. PICK how \in {"success", "failed"} : silverJobs' = [silverJobs EXCEPT ![k] = how]
  BY DEF RD!JobEnds
<1>2. silverJobs[k] = "running" /\ UNCHANGED <<fire, dom, child, queued, slot, goldens, gone>>
  BY DEF RD!JobEnds
<1>3. /\ k \in SilverKeys /\ queued \in Nat /\ child \in ChildRecord
      /\ slot \in SlotRecord /\ (slot.pc = "poll" => slot.key \in SilverKeys)
      /\ silverJobs \in [SilverKeys -> SilverStates]
  BY DEF DomainInv, DomainTypes
<1>4. /\ silverJobs' \in [SilverKeys -> SilverStates]
      /\ \A j \in SilverKeys : silverJobs[j] = "success" => silverJobs'[j] = "success"
      /\ \A j \in SilverKeys : silverJobs'[j] = "running" => silverJobs[j] = "running"
  BY <1>1, <1>2, <1>3 DEF SilverStates
<1>5. Watched'
  BY <1>2, <1>4 DEF DomainInv, Watched
<1> QED BY <1>2, <1>3, <1>4, <1>5, WorkerStep

LEMMA SilverWorkerDiesStep == DomainInv /\ RD!WorkerDies => DomainInv'
<1> SUFFICES ASSUME DomainInv, RD!WorkerDies PROVE DomainInv'
  OBVIOUS
<1>1. slot' = RD!Free /\ gone' = TRUE /\ UNCHANGED <<fire, dom, child, queued, silverJobs, goldens>>
  BY DEF RD!WorkerDies
<1>2. queued \in Nat /\ child \in ChildRecord /\ silverJobs \in [SilverKeys -> SilverStates]
  BY DEF DomainInv, DomainTypes
<1>3. Watched'
  BY <1>1 DEF Watched
<1> QED BY <1>1, <1>2, <1>3, FreeIs, WorkerStep

LEMMA DomainNext == DomainInv /\ [RD!Next]_(RD!vars) => DomainInv'
<1> SUFFICES ASSUME DomainInv, [RD!Next]_(RD!vars) PROVE DomainInv'
  OBVIOUS
<1>1. CASE RD!Flow
  BY <1>1, FlowSteps, SourceDoneStep, SourceFailsStep, ExhaustStep DEF RD!Flow
<1>2. CASE RD!Server
  BY <1>2, FlowSteps, FireStep DEF RD!Server
<1>3. CASE RD!Worker
  BY <1>3, TakeStep, GiveUpStep, PollStep, SilverWorkerDiesStep DEF RD!Worker
<1>4. CASE RD!Cancel
  BY <1>4, FlowSteps
<1>5. CASE \E k \in DOMAIN silverJobs : RD!JobEnds(k)
  BY <1>5, SilverJobEndsStep
<1>6. CASE RD!Rests \/ UNCHANGED RD!vars
  <2>1. UNCHANGED <<fire, dom, child, queued, slot, silverJobs, goldens, gone>>
    BY <1>6 DEF RD!Rests, RD!vars
  <2> QED BY <2>1 DEF DomainInv, DomainTypes, Collected, ChildSucceeded, Watched, RD!GoldenOfAllSources
<1> QED BY <1>1, <1>2, <1>3, <1>4, <1>5, <1>6 DEF RD!Next

LEMMA DomainInit == RD!Init => DomainInv
<1> SUFFICES ASSUME RD!Init PROVE DomainInv
  OBVIOUS
<1>1. /\ fire = 1 /\ dom = RD!Started /\ child = RD!NoChild /\ queued = 0 /\ slot = RD!Free
      /\ silverJobs = [k \in SilverKeys |-> "none"] /\ goldens = [f \in 1..Fires |-> {}]
  BY DEF RD!Init, SilverKeys
<1>2. /\ dom \in DomainRecord /\ dom.pc = "next" /\ dom.index = 1 /\ dom.done = <<>>
  BY <1>1, PipelinesConstants DEF RD!Started, DomainRecord
<1>3. DomainTypes
  <2>1. fire \in 1..Fires
    BY <1>1, PipelinesConstants
  <2>2. child \in ChildRecord
    BY <1>1 DEF RD!NoChild, ChildRecord
  <2>3. silverJobs \in [SilverKeys -> SilverStates] /\ goldens \in [1..Fires -> SUBSET (1..Sources)]
    BY <1>1 DEF SilverStates
  <2> QED BY <1>1, <1>2, <2>1, <2>2, <2>3, FreeIs DEF DomainTypes
<1>4. Collected /\ ChildSucceeded /\ Watched /\ RD!GoldenOfAllSources
  BY <1>1, <1>2 DEF Collected, ChildSucceeded, Watched, RD!GoldenOfAllSources
<1> QED BY <1>3, <1>4 DEF DomainInv

LEMMA DomainOneJob == DomainInv => RD!OneSilverJob
  BY DEF DomainInv, DomainTypes, Watched, RD!OneSilverJob

\* ------------------------------------------------------------ CatalogExecution

\* The module of the proofs about one execution, for the execution among the others.
CP == INSTANCE CatalogExecutionProofs WITH
  wf <- exec, jobs <- runs, MaxAttempts <- MaxTries, Locks <- MCLocks, Inputs <- MCInputs

\* Both instances say the same of the steps of an execution.
LEMMA SamePrepare == CE!Prepare => CP!Prepare
  BY DEF
    CE!Prepare, CP!Prepare, CE!P4Runtime, CP!P4Runtime, CE!Runtime, CP!Runtime, CE!Shape,
    CP!Shape, CE!Bytes, CP!Bytes, CE!DataLocal, CP!DataLocal, CE!CloudOf, CP!CloudOf,
    CE!NoTransfer, CP!NoTransfer

LEMMA SameCalls == CE!Call => CP!Call
  BY DEF
    CE!Call, CP!Call, CE!SubmitCall, CP!SubmitCall, CE!ReconcileCall, CP!ReconcileCall,
    CE!ObserveCall, CP!ObserveCall, CE!CancelCall, CP!CancelCall, CE!ReceiptCall,
    CP!ReceiptCall, CE!Submit, CP!Submit, CE!Answers, CP!Answers, CE!StartJob, CP!StartJob,
    CE!ClientToken, CP!ClientToken, CE!Started, CP!Started, CE!Observed, CP!Observed,
    CE!ResourceEvidence, CP!ResourceEvidence, CE!CostEvidence, CP!CostEvidence, CE!Cancelled,
    CP!Cancelled, CE!Alive, CP!Alive, CE!CompletionReceipt, CP!CompletionReceipt,
    CE!PutReceipt, CP!PutReceipt, CE!IsTerminal, CP!IsTerminal, CE!Outcome, CP!Outcome,
    CE!Terminal, CP!Terminal, CE!None, CP!None

LEMMA SameResume == CE!Resume => CP!Resume
  BY DEF
    CE!Resume, CP!Resume, CE!Loop, CP!Loop, CE!Note, CP!Note, CE!Capture, CP!Capture,
    CE!RecoveryCheckpoint, CP!RecoveryCheckpoint, CE!Outcome, CP!Outcome, CE!Terminal,
    CP!Terminal, CE!IsTerminal, CP!IsTerminal, CE!Disposition, CP!Disposition, CE!Idle,
    CP!Idle, CE!Activities, CP!Activities, CE!None, CP!None

LEMMA SameWake == CE!Wake => CP!Wake
  BY DEF
    CE!Wake, CP!Wake, CE!Loop, CP!Loop

LEMMA SameFail == ASSUME NEW lingers, CE!Fail(lingers) PROVE CP!Fail(lingers)
  BY DEF
    CE!Fail, CP!Fail, CE!Activities, CP!Activities, CE!Idle, CP!Idle, CE!None, CP!None

LEMMA SameSignals == CE!Cancel \/ CE!Rollback \/ CE!Restart \/ CE!Heartbeat => CP!Cancel \/ CP!Rollback \/ CP!Restart \/ CP!Heartbeat
  BY DEF
    CE!Cancel, CP!Cancel, CE!Rollback, CP!Rollback, CE!Restart, CP!Restart, CE!Heartbeat,
    CP!Heartbeat, CE!Ended, CP!Ended, CE!Fresh, CP!Fresh, CE!Idle, CP!Idle, CE!None, CP!None

LEMMA SameJobMoves == ASSUME NEW j, NEW s, CE!JobMoves(j, s) PROVE CP!JobMoves(j, s)
  BY DEF
    CE!JobMoves, CP!JobMoves, CE!Terminal, CP!Terminal

LEMMA SameEvidence == ASSUME NEW j, CE!EvidenceArrives(j) PROVE CP!EvidenceArrives(j)
  BY DEF
    CE!EvidenceArrives, CP!EvidenceArrives, CE!Alive, CP!Alive, CE!Terminal, CP!Terminal

LEMMA SameLateCall == ASSUME NEW c, CE!LateCall(c) PROVE CP!LateCall(c)
  BY DEF
    CE!LateCall, CP!LateCall, CE!StartJob, CP!StartJob, CE!ClientToken, CP!ClientToken,
    CE!Started, CP!Started, CE!Cancelled, CP!Cancelled, CE!Alive, CP!Alive, CE!Terminal,
    CP!Terminal, CE!PutReceipt, CP!PutReceipt, CE!None, CP!None

LEMMA ExecutionStep == [MCNext]_mcVars => [CP!Next]_(CP!vars)
<1> SUFFICES ASSUME [MCNext]_mcVars PROVE [CP!Next]_(CP!vars)
  OBVIOUS
<1>1. CASE CE!Work
  BY <1>1, SamePrepare, SameCalls, SameResume, SameWake, SameFail DEF CE!Work, CP!Work, CP!Next
<1>2. CASE Signals \/ Restarts \/ Provider
  <2>1. CASE CE!Cancel \/ CE!Rollback \/ CE!Restart \/ CE!Heartbeat
    BY <2>1, SameSignals DEF CP!Next, CP!Environment
  <2>2. CASE \E j \in DOMAIN runs : CE!EvidenceArrives(j)
    BY <2>2, SameEvidence DEF CP!Next, CP!Environment
  <2>3. CASE \E j \in DOMAIN runs, s \in {"RUNNING"} \cup CE!Terminal : CE!JobMoves(j, s)
    <3>1. CE!Terminal = CP!Terminal
      BY DEF CE!Terminal, CP!Terminal
    <3> QED BY <2>3, <3>1, SameJobMoves DEF CP!Next, CP!Environment
  <2>4. CASE \E c \in late : CE!LateCall(c)
    BY <2>4, SameLateCall DEF CP!Next, CP!Environment
  <2> QED BY <1>2, <2>1, <2>2, <2>3, <2>4 DEF Signals, Restarts, Provider
<1>3. CASE UNCHANGED execution
  BY <1>3 DEF execution, CP!vars
<1> QED BY <1>1, <1>2, <1>3 DEF MCNext, mcVars

LEMMA ExecutionInit == MCInit => CP!Init
  BY DEF MCInit,
    CE!Init, CP!Init, CE!Fresh, CP!Fresh, CE!Idle, CP!Idle, CE!None, CP!None

LEMMA ExecutionRuns == MCSpec => CP!Spec
  BY ExecutionStep, ExecutionInit, PTL DEF MCSpec, CP!Spec

LEMMA ExecutionLimits == CP!Limits
  BY PipelinesConstants DEF CP!Limits

\* ------------------------------------------------------------ the whole

PipelinesInv == BuildInv /\ DomainInv

LEMMA PipelinesInvariant == MCSpec => []PipelinesInv
<1>1. MCInit => PipelinesInv
  BY BuildInit, DomainInit DEF MCInit, PipelinesInv
<1>2. PipelinesInv /\ [MCNext]_mcVars => PipelinesInv'
  <2> SUFFICES ASSUME PipelinesInv, [MCNext]_mcVars PROVE PipelinesInv'
    OBVIOUS
  <2>1. [Next]_vars /\ [RD!Next]_(RD!vars)
    BY DEF MCNext, mcVars, domain, RD!vars
  <2> QED BY <2>1, BuildNext, DomainNext DEF PipelinesInv
<1> QED BY <1>1, <1>2, PTL DEF MCSpec

\* In every state there is at most one live job: of a build over the attempts of
\* its stages, whose token finds a stage's job again and which go on after a
\* success only (run_emr_submit); of the Silver children over sources and runs of
\* the schedule while their worker watches (cancel in its finally block); and of a
\* Catalog execution at its provider (catalog_execution_client_token).
THEOREM OneJobAtMost == MCSpec => []OneJob
<1>1. PipelinesInv => OneJobAtATime /\ RD!OneSilverJob
  BY BuildOneJob, DomainOneJob DEF PipelinesInv
<1>2. CP!Spec => []CP!OneJobPerAttempt
  BY ExecutionLimits, CP!OneJobExists
<1>3. CP!OneJobPerAttempt => CE!OneJobPerAttempt
  BY DEF CP!OneJobPerAttempt, CE!OneJobPerAttempt
<1> QED BY <1>1, <1>2, <1>3, PipelinesInvariant, ExecutionRuns, PTL DEF OneJob

\* A stage's result, and the completed build, rest on jobs that ended in SUCCESS
\* after their commit, never on one that was cancelled with its log complete
\* (run_emr_submit returns for SUCCESS only).
THEOREM ResultsRestOnSuccess == MCSpec => []ResultsOfSuccess
<1>1. PipelinesInv => ResultsOfSuccess
  BY BuildResults DEF PipelinesInv
<1> QED BY <1>1, PipelinesInvariant, PTL

\* A domain's Golden Build gets the runs of all sources of the profile, each of a
\* job that succeeded, also over continue-as-new and failures within the budget
\* (ResearchDomainWorkflow.run).
THEOREM GoldenGetsAllSources == MCSpec => []GoldenOfAllSources
<1>1. PipelinesInv => GoldenOfAllSources
  BY DEF PipelinesInv, DomainInv, GoldenOfAllSources
<1> QED BY <1>1, PipelinesInvariant, PTL

\* Composed with the other workflows, a Catalog execution still publishes what its
\* job ended in, and returns it with the checkpoint of the same observation
\* (write_catalog_completion_receipt).
THEOREM ReceiptStaysTrue == MCSpec => []ReceiptIsTruth
<1>1. CP!Spec => []CP!ReceiptIsTruth
  BY ExecutionLimits, CP!ReceiptsAreTrue
<1>2. CP!ReceiptIsTruth => ReceiptIsTruth
  BY DEF CP!ReceiptIsTruth, CP!ReceiptOfJob, CP!ResultIsReceipt, CP!Terminal, CP!None,
    ReceiptIsTruth, CE!ReceiptIsTruth, CE!ReceiptOfJob, CE!ResultIsReceipt, CE!Terminal, CE!None
<1> QED BY <1>1, <1>2, ExecutionRuns, PTL

\* And one that ran out of its observation budget has stopped its job (the last
\* cancel_catalog_spark of CatalogExecutionWorkflowV1).
THEOREM NoJobLeftRunning == MCSpec => []NoRunawayJob
<1>1. CP!Spec => []CP!NoRunawayJob
  BY ExecutionLimits, CP!NoJobRunsAway
<1>2. CP!NoRunawayJob => NoRunawayJob
  BY DEF CP!NoRunawayJob, NoRunawayJob, CE!NoRunawayJob
<1> QED BY <1>1, <1>2, ExecutionRuns, PTL

================================================================================
