----------------------------- MODULE EmrPipeline -----------------------------
(* A Temporal workflow that runs EMR Serverless jobs one after another: the  *)
(* stages of a Golden Build, or the Source Silver batches of the TMDB        *)
(* pipeline.  Each stage is an activity that submits a job, or adopts the    *)
(* one an earlier attempt submitted, polls it to its end, and reads its      *)
(* summary from the driver log.  The server times attempts out and retries   *)
(* them; an attempt it has given up may still be running.                    *)
EXTENDS Integers, FiniteSets, Sequences

CONSTANTS
  Stage,        \* number of stages; they run in the order 1..Stage
  Reusable,     \* stages a reused result may stand for (Golden Identity)
  MaxAttempts   \* maximum_attempts of the stages' retry policy

ASSUME PipelineConstants ==
  /\ Stage \in Nat \ {0} /\ MaxAttempts \in Nat \ {0}
  /\ Reusable \subseteq 1..Stage

VARIABLES
  golden,  \* which workflow: the Golden Build, or batches of Source Silver
  lost,    \* a worker has died, or EMR has not answered
  wf,      \* "prepare", "stages", "summary", "done", "failed"
  stage,   \* the stage the workflow awaits
  stop,    \* the workflow is asked to cancel
  reused,  \* stages whose result the preflight has accepted
  jobs,    \* stage -> job runs EMR knows, by the client token they came with
  att,     \* stage -> attempts of its activity, the last one current
  phase    \* stage -> the server's view: "off", "run", "ok", "failed"

vars == <<golden, lost, wf, stage, stop, reused, jobs, att, phase>>

Stages == 1..Stage

Init ==
  /\ golden \in BOOLEAN /\ lost = FALSE
  /\ wf = "prepare" /\ stage = 0 /\ stop = FALSE /\ reused = {}
  /\ jobs = [s \in Stages |-> <<>>]
  /\ att = [s \in Stages |-> <<>>]
  /\ phase = [s \in Stages |-> "off"]

-----------------------------------------------------------------------------
(* EMR Serverless                                                            *)

Live(job) == job.state \in {"running", "cancelling"}

\* StartJobRun answers a known client token with the job it has started.
Started(s, token) ==
  IF \E j \in DOMAIN jobs[s] : jobs[s][j].token = token
  THEN jobs[s]
  ELSE Append(jobs[s], [token |-> token, state |-> "running", done |-> FALSE, log |-> FALSE])

JobOf(js, token) == CHOOSE j \in DOMAIN js : js[j].token = token

SetJob(s, j, f, v) == jobs' = [jobs EXCEPT ![s][j][f] = v]

\* The driver commits its tables or documents and prints the summary last.
JobCommits(s, j) ==
  /\ Live(jobs[s][j]) /\ ~jobs[s][j].done
  /\ SetJob(s, j, "done", TRUE)
  /\ UNCHANGED <<golden, lost, wf, stage, stop, reused, att, phase>>

\* The log reaches S3 on its own time, before or after the job has ended.
LogArrives(s, j) ==
  /\ jobs[s][j].done /\ ~jobs[s][j].log
  /\ SetJob(s, j, "log", TRUE)
  /\ UNCHANGED <<golden, lost, wf, stage, stop, reused, att, phase>>

\* A job succeeds, fails, or ends cancelled: on request or by its own timeout.
JobEnds(s, j) ==
  /\ Live(jobs[s][j])
  /\ \/ jobs[s][j].state = "running" /\ jobs[s][j].done /\ SetJob(s, j, "state", "success")
     \/ jobs[s][j].state = "running" /\ SetJob(s, j, "state", "failed")
     \/ SetJob(s, j, "state", "cancelled")
  /\ UNCHANGED <<golden, lost, wf, stage, stop, reused, att, phase>>

-----------------------------------------------------------------------------
(* The server: attempts of an activity                                       *)

Fresh == [pc |-> "begin", job |-> 0]
Last(s) == Len(att[s])
Ended(s, a) == att[s][a].pc \in {"ended", "dead"}
Current(s, a) == phase[s] = "run" /\ a = Last(s)

\* Retry while attempts remain, unless cancellation was requested.
Retries(s) == Last(s) < MaxAttempts /\ ~stop

\* The current attempt is over: it succeeded, may be retried, or is fatal.
\* "new" holds the attempts with that attempt's last step in it.
Settle(s, new, how) ==
  IF how = "retry" /\ Retries(s)
  THEN att' = [att EXCEPT ![s] = Append(new, Fresh)] /\ UNCHANGED phase
  ELSE /\ att' = [att EXCEPT ![s] = new]
       /\ phase' = [phase EXCEPT ![s] = IF how = "ok" THEN "ok" ELSE "failed"]

\* An attempt ends; the server takes the answer of the current one only.
End(s, a, how) ==
  LET new == [att[s] EXCEPT ![a].pc = "ended"]
  IN  IF Current(s, a) THEN Settle(s, new, how)
                       ELSE att' = [att EXCEPT ![s] = new] /\ UNCHANGED phase

\* Mutant: a timeout starts the attempt over and does not count.
UncountedTimeout(s) ==
  /\ phase[s] = "run"
  /\ att' = [att EXCEPT ![s][Last(s)] = Fresh]
  /\ UNCHANGED <<golden, lost, wf, stage, stop, reused, jobs, phase>>

\* heartbeat_timeout or start_to_close_timeout: the worker is not asked.
TimesOut(s) ==
  /\ phase[s] = "run"
  /\ Settle(s, att[s], "retry")
  /\ UNCHANGED <<golden, lost, wf, stage, stop, reused, jobs>>

\* The worker process goes away, without the finally block.
WorkerDies(s, a) ==
  /\ ~Ended(s, a)
  /\ att' = [att EXCEPT ![s][a].pc = "dead"]
  /\ lost' = TRUE
  /\ UNCHANGED <<golden, wf, stage, stop, reused, jobs, phase>>

-----------------------------------------------------------------------------
(* One attempt: run_emr_submit and the reading of the summary                *)

\* Mutant: the token is drawn anew for every attempt.
TokenPerAttempt(s, a) == a

\* The token names the stage and the workflow run, never the attempt.
ClientToken(s, a) == 0

\* What the classifiers make of the exception an attempt ends in.
Classify(why) ==
  CASE why \in {"failed", "cancelled"} -> IF golden THEN "fatal" ELSE "retry"
    [] why \in {"nolog", "mismatch"}   -> "fatal"
    [] why = "transient"               -> "retry"

Goto(s, a, pc, j) == att' = [att EXCEPT ![s][a] = [pc |-> pc, job |-> j]]

\* submit, or the same job again through the heartbeat of an earlier attempt;
\* a refused call has no effect, a lost answer leaves the job behind.
Begin(s, a) ==
  /\ att[s][a].pc = "begin"
  /\ \/ /\ jobs' = [jobs EXCEPT ![s] = Started(s, ClientToken(s, a))]
        /\ \/ Goto(s, a, "poll", JobOf(jobs'[s], ClientToken(s, a))) /\ UNCHANGED <<phase, lost>>
           \/ End(s, a, Classify("transient")) /\ lost' = TRUE
     \/ End(s, a, Classify("transient")) /\ UNCHANGED <<jobs, lost>>
  /\ UNCHANGED <<golden, wf, stage, stop, reused>>

\* activity.is_cancelled: the workflow asked, or the server gave the attempt up.
ShouldCancel(s, a) == stop \/ ~Current(s, a)

\* Mutant: every terminal state leads to the reading of the summary.
AnyTerminalState(s, a) ==
  ~Live(jobs[s][att[s][a].job]) /\ Goto(s, a, "read", att[s][a].job) /\ UNCHANGED phase

\* What an observation that returns makes of the job's state.
Observed(s, a) ==
  LET job == jobs[s][att[s][a].job]
  IN  \/ job.state = "success" /\ Goto(s, a, "read", att[s][a].job) /\ UNCHANGED phase
      \/ job.state \in {"failed", "cancelled"} /\ End(s, a, Classify(job.state))

\* One turn of the polling loop: stop, or ask EMR, which may fail.
Polling(s, a) == att[s][a].pc = "poll" /\ UNCHANGED <<golden, lost, wf, stage, stop, reused, jobs>>

StopPolling(s, a) ==
  /\ Polling(s, a) /\ ShouldCancel(s, a)
  /\ Goto(s, a, "unwind", att[s][a].job) /\ UNCHANGED phase

ObserveFails(s, a) ==
  Polling(s, a) /\ Goto(s, a, "unwind", att[s][a].job) /\ UNCHANGED phase

Observe(s, a) == Polling(s, a) /\ Observed(s, a)

\* cancel_job_run; EMR ignores it for a job that has ended.
CancelJob(s, j) ==
  jobs' = [jobs EXCEPT ![s][j].state = IF @ = "running" THEN "cancelling" ELSE @]

\* Mutant: only the attempt that submitted the job cancels it.
LeaveResumed(s, a) ==
  /\ att[s][a].pc = "unwind"
  /\ End(s, a, Classify("transient"))
  /\ IF a = 1 THEN CancelJob(s, att[s][a].job) ELSE UNCHANGED jobs
  /\ UNCHANGED <<golden, lost, wf, stage, stop, reused>>

\* finally: cancel what has not been seen to end, ignoring a refusal.
Unwind(s, a) ==
  /\ att[s][a].pc = "unwind"
  /\ End(s, a, Classify("transient"))
  /\ \/ CancelJob(s, att[s][a].job) /\ UNCHANGED lost
     \/ lost' = TRUE /\ UNCHANGED jobs
  /\ UNCHANGED <<golden, wf, stage, stop, reused>>

\* The driver's stdout in S3: a call may fail, the object may not be there
\* yet, and its summary is compared with what the stage was given.
ReadSummary(s, a) ==
  /\ att[s][a].pc = "read"
  /\ \/ End(s, a, Classify("transient"))
     \/ ~jobs[s][att[s][a].job].log /\ End(s, a, Classify("nolog"))
     \/ jobs[s][att[s][a].job].log /\ End(s, a, Classify("mismatch"))
     \/ jobs[s][att[s][a].job].log /\ End(s, a, "ok")
  /\ UNCHANGED <<golden, lost, wf, stage, stop, reused, jobs>>

\* What a live worker does by itself.
Attempt(s, a) ==
  Begin(s, a) \/ StopPolling(s, a) \/ Observe(s, a) \/ Unwind(s, a) \/ ReadSummary(s, a)

-----------------------------------------------------------------------------
(* The workflow                                                              *)

\* Await the next stage that has no reused result, or write the summary.
Advance(s) ==
  LET rest == {t \in s+1..Stage : t \notin reused'}
  IN  IF rest = {} THEN wf' = "summary" /\ UNCHANGED <<stage, att, phase>>
      ELSE LET t == CHOOSE t \in rest : \A u \in rest : t <= u
           IN  /\ wf' = "stages" /\ stage' = t
               /\ att' = [att EXCEPT ![t] = <<Fresh>>]
               /\ phase' = [phase EXCEPT ![t] = "run"]

\* The preflight accepts or refuses the pinned inputs and a reused result.
Prepare ==
  /\ wf = "prepare"
  /\ \/ \E R \in SUBSET (IF golden THEN Reusable ELSE {}) : reused' = R /\ Advance(0)
     \/ wf' = "failed" /\ UNCHANGED <<stage, reused, att, phase>>
  /\ UNCHANGED <<golden, lost, stop, jobs>>

StageDone ==
  /\ wf = "stages" /\ phase[stage] \in {"ok", "failed"}
  /\ UNCHANGED reused
  /\ IF phase[stage] = "ok" /\ ~stop THEN Advance(stage)
     ELSE wf' = "failed" /\ UNCHANGED <<stage, att, phase>>
  /\ UNCHANGED <<golden, lost, stop, jobs>>

\* The summary is an immutable object; writing it may fail for good.
Summarise ==
  /\ wf = "summary"
  /\ wf' \in {"done", "failed"}
  /\ UNCHANGED <<golden, lost, stage, stop, reused, jobs, att, phase>>

Cancel ==
  /\ wf \in {"stages", "summary"} /\ ~stop
  /\ stop' = TRUE
  /\ UNCHANGED <<golden, lost, wf, stage, reused, jobs, att, phase>>

Quiet ==
  /\ wf \in {"done", "failed"}
  /\ \A s \in Stages : (\A a \in DOMAIN att[s] : Ended(s, a))
                    /\ (\A j \in DOMAIN jobs[s] : ~Live(jobs[s][j]))
  /\ UNCHANGED vars

Server == \E s \in Stages : TimesOut(s)
Emr == \E s \in Stages : \E j \in DOMAIN jobs[s] :
         JobCommits(s, j) \/ LogArrives(s, j) \/ JobEnds(s, j)
Worker == \E s \in Stages : \E a \in DOMAIN att[s] : Attempt(s, a) \/ ObserveFails(s, a) \/ WorkerDies(s, a)
Workflow == Prepare \/ StageDone \/ Summarise \/ Cancel

Next == Server \/ Emr \/ Worker \/ Workflow \/ Quiet

Spec == Init /\ [][Next]_vars

\* Workflow tasks are run, and start_to_close_timeout ends every attempt; no
\* job and no worker has to make progress.
FairSpec == Spec /\ WF_vars(Prepare \/ StageDone \/ Summarise) /\ WF_vars(Server)

\* Workers that are alive go on with their attempts, the given-up ones too.
WorkersGoOn ==
  \A s \in Stages, a \in 1..MaxAttempts : WF_vars(a \in DOMAIN att[s] /\ Attempt(s, a))

-----------------------------------------------------------------------------
(* Properties                                                                *)

TypeOK ==
  /\ {golden, lost} \subseteq BOOLEAN
  /\ wf \in {"prepare", "stages", "summary", "done", "failed"}
  /\ stage \in 0..Stage /\ stop \in BOOLEAN /\ reused \subseteq Reusable
  /\ phase \in [Stages -> {"off", "run", "ok", "failed"}]
  /\ \A s \in Stages :
       /\ \A j \in DOMAIN jobs[s] :
            /\ jobs[s][j].state \in {"running", "cancelling", "success", "failed", "cancelled"}
            /\ {jobs[s][j].done, jobs[s][j].log} \subseteq BOOLEAN
       /\ Last(s) <= MaxAttempts
       /\ \A a \in DOMAIN att[s] :
            /\ att[s][a].pc \in {"begin", "poll", "read", "unwind", "ended", "dead"}
            /\ att[s][a].job \in 0..Len(jobs[s])

\* Writers of one build never run at the same time, whatever attempts were
\* retried, timed out, or lost their answer: emr_serverless_cli adopts the job
\* of its token, and a stage is only left once its job has succeeded.
OneJobAtATime ==
  \A s, t \in Stages : \A i \in DOMAIN jobs[s], j \in DOMAIN jobs[t] :
    Live(jobs[s][i]) /\ Live(jobs[t][j]) => s = t /\ i = j

\* A result rests on a job that ended in SUCCESS, hence has committed; a job
\* that was cancelled after its commit has the same log and is no evidence
\* (run_emr_submit returns for the outcome SUCCESS only).
ResultsOfSuccess ==
  \A s \in Stages :
    (phase[s] = "ok" \/ (wf = "done" /\ s \notin reused)) =>
      \E j \in DOMAIN jobs[s] : jobs[s][j].state = "success" /\ jobs[s][j].done

\* The workflow ends although jobs hang and workers die: attempts are timed
\* out, and their number is bounded (_EMR_RETRY, _SILVER_RETRY).
BuildEnds == <>(wf \in {"done", "failed"})

\* While no worker dies and EMR answers, a workflow that has ended leaves no
\* job running on its own: the finally of the last watcher, an attempt the
\* server gave up included, cancels it.
NoJobLeaks ==
  WorkersGoOn /\ []~lost =>
    (wf \in {"done", "failed"} ~>
       [](\A s \in Stages : \A j \in DOMAIN jobs[s] : jobs[s][j].state # "running"))

\* A retry has a job to wait for: after an attempt that polled a job to its
\* failure, the next one does not adopt that job again ("EMR FAILED may be
\* retryable", errors.py).
RetryRunsAgain ==
  [][\A s \in Stages : \A a \in DOMAIN att[s] :
       (/\ ~golden /\ a > 1 /\ att[s][a-1].job # 0 /\ att[s][a-1].pc = "ended"
        /\ att[s][a].pc = "begin" /\ att'[s][a].pc = "poll")
         => jobs'[s][att'[s][a].job].state # "failed"]_vars
=============================================================================
