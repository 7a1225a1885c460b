-------------------------- MODULE CatalogExecution --------------------------
(* CatalogExecutionWorkflowV1: one Temporal workflow that submits a Spark    *)
(* job, reconciles it, polls it within an observation budget, passes on a    *)
(* cancel or rollback signal and publishes a completion receipt.             *)
(*                                                                           *)
(* Every provider call is an activity: an attempt may fail or time out       *)
(* before or after its call, and a timed-out attempt may still perform its   *)
(* call later ("late").  The same input may be started again after a         *)
(* failure.                                                                  *)
EXTENDS Integers, Sequences, FiniteSets, ExecutionInputs

CONSTANTS
  Locks,            \* the images that may be deployed, a subset of RuntimeLocks
  Inputs,           \* what is asked for, a subset of CatalogExecutionInputs
  MaxObservations,  \* input_data.max_observations
  MaxAttempts,      \* maximum_attempts of the activity retry policies
  MaxRuns           \* bound: how often the same input is started

VARIABLES
  wf,       \* the workflow: position, status, signals, checkpoint, result
  act,      \* its pending activity: attempt number, phase, what it returns
  hb,       \* identity in the heartbeat details of the submit activity
  late,     \* calls that timed-out attempts may still perform
  jobs,     \* the provider's job runs
  receipt   \* the object at completion_receipt_target

vars == <<wf, act, hb, late, jobs, receipt>>

None == [none |-> TRUE]

Terminal == {"SUCCESS", "FAILED", "CANCELLED"}

\* Mutant: a job that is being cancelled counts as cancelled.
OutcomeEager(state) ==
  IF state \in Terminal THEN state ELSE IF state = "CANCELLING" THEN "CANCELLED" ELSE "RUNNING"

\* _outcome: what is not a known terminal state counts as RUNNING.
Outcome(state) == IF state \in Terminal THEN state ELSE "RUNNING"

\* _resource_evidence: complete once the provider has reported every figure.
ResourceEvidence(j) == IF jobs[j].evidence > 0 THEN "COMPLETE" ELSE "PARTIAL"

\* _cost_evidence: reported by the provider with an amount and a currency, or not.
CostEvidence(j) == IF jobs[j].evidence > 0 THEN "PROVIDER_REPORTED" ELSE "UNAVAILABLE"

\* An observation carries the provider's state and the digests of its evidence.
Observed(j) ==
  [job |-> j, state |-> jobs[j].state, resource |-> ResourceEvidence(j), cost |-> CostEvidence(j)]

\* SparkBackendObservation.terminal
IsTerminal(obs) == Outcome(obs.state) # "RUNNING"

\* SparkReconcileResult: the job is adopted as one that runs or one that has ended.
Disposition(obs) == IF IsTerminal(obs) THEN "ADOPTED_TERMINAL" ELSE "ADOPTED_RUNNING"

\* Mutant: every activity attempt submits under a token of its own.
FreshToken(attempt) == attempt

\* catalog_execution_client_token: the execution attempt and the profile decide,
\* the activity attempt does not.
ClientToken(attempt) == 0

Fresh(run) ==
  [pc |-> "prepare", run |-> run, state |-> "PREPARING", obs |-> 0,
   cancelReq |-> FALSE, rollbackReq |-> FALSE, cancelSent |-> FALSE,
   job |-> 0, seen |-> None, ckpt |-> None, why |-> "none"]

Idle == [n |-> 1, phase |-> "queued", job |-> 0, seen |-> None]

Init ==
  /\ wf = Fresh(1)
  /\ act = Idle
  /\ hb = 0
  /\ late = {}
  /\ jobs = <<>>
  /\ receipt = None

\* ------------------------------------------------------------------- provider

\* start_job_run with a client token: the same token names the same job.
Started(token) == {j \in DOMAIN jobs : jobs[j].token = token}
StartJob(token) ==
  IF Started(token) # {} THEN jobs
  ELSE Append(jobs, [token |-> token, state |-> "PENDING", evidence |-> 0])

Alive(j) == jobs[j].state \notin Terminal

\* ACTION JobMoves: the provider runs, ends or cancels a job.
JobMoves(j, state) ==
  /\ \/ jobs[j].state = "PENDING" /\ state \in {"RUNNING"} \cup Terminal
     \/ jobs[j].state \in {"RUNNING", "CANCELLING"} /\ state \in Terminal
  /\ jobs' = [jobs EXCEPT ![j].state = state]
  /\ UNCHANGED <<wf, act, hb, late, receipt>>

\* ACTION EvidenceArrives: utilisation and cost of an ended job are reported later.
EvidenceArrives(j) ==
  /\ ~Alive(j) /\ jobs[j].evidence = 0
  /\ jobs' = [jobs EXCEPT ![j].evidence = 1]
  /\ UNCHANGED <<wf, act, hb, late, receipt>>

Cancelled(j) == IF Alive(j) THEN [jobs EXCEPT ![j].state = "CANCELLING"] ELSE jobs

\* publish_bytes: If-None-Match, then the stored object must equal the payload.
PutReceipt(obs) == IF receipt = None THEN obs ELSE receipt

\* ----------------------------------------------------------------- activities

Activities == {"submit", "reconcile", "cancel", "observe", "receipt", "lastcancel"}

\* submit_catalog_spark: adopt the heartbeat identity, else submit.
Submit(n, beat) ==
  LET after == StartJob(ClientToken(n))
      mine == CHOOSE j \in DOMAIN after : after[j].token = ClientToken(n)
  IN  IF beat # 0 THEN [jobs |-> jobs, job |-> beat] ELSE [jobs |-> after, job |-> mine]

\* The current attempt of an activity performs its provider or object store call.
Answers(name, answer) ==
  /\ wf.pc = name /\ act.phase = "queued"
  /\ act' = answer
  /\ UNCHANGED <<wf, hb, late>>

\* ACTION SubmitCall: start_job_run under the client token, or the job of the heartbeat.
SubmitCall ==
  LET to == Submit(act.n, hb)
  IN  /\ Answers("submit", [act EXCEPT !.phase = "replied", !.job = to.job])
      /\ jobs' = to.jobs
      /\ UNCHANGED receipt

\* ACTION ReconcileCall: an observation by which the workflow finds its job again.
ReconcileCall ==
  /\ Answers("reconcile", [act EXCEPT !.phase = "replied", !.seen = Observed(wf.job)])
  /\ UNCHANGED <<jobs, receipt>>

\* ACTION ObserveCall
ObserveCall ==
  /\ Answers("observe", [act EXCEPT !.phase = "replied", !.seen = Observed(wf.job)])
  /\ UNCHANGED <<jobs, receipt>>

\* ACTION CancelCall: asked for by a signal, or at the end of the budget.
CancelCall ==
  /\ wf.pc \in {"cancel", "lastcancel"}
  /\ Answers(wf.pc, [act EXCEPT !.phase = "replied"])
  /\ jobs' = Cancelled(wf.job)
  /\ UNCHANGED receipt

\* The completion receipt of an observation; there is none of a running job.
CompletionReceipt(obs) == IF IsTerminal(obs) THEN obs ELSE None

\* ACTION ReceiptCall: the completion receipt is published and read back.
ReceiptCall ==
  /\ wf.pc = "receipt" /\ CompletionReceipt(wf.seen) # None
  /\ receipt' = PutReceipt(CompletionReceipt(wf.seen))
  /\ Answers("receipt", [act EXCEPT !.phase = IF receipt' = wf.seen THEN "replied" ELSE "refused"])
  /\ UNCHANGED jobs

\* ACTION Heartbeat: the submit attempt's heartbeat reaches the server.
Heartbeat ==
  /\ wf.pc = "submit" /\ act.phase = "replied" /\ hb # act.job
  /\ hb' = act.job
  /\ UNCHANGED <<wf, act, late, jobs, receipt>>

\* Mutant: no maximum_attempts.
FailForever(lingers) ==
  /\ wf.pc \in Activities
  /\ ~lingers
  /\ act' = Idle
  /\ UNCHANGED <<wf, hb, late, jobs, receipt>>

\* ACTION Fail: the attempt raises or times out; the last one fails the workflow.
\* A timed-out attempt that has not called yet still may; an observation that
\* nobody waits for has no effect.
Fail(lingers) ==
  /\ wf.pc \in Activities
  /\ lingers => act.phase = "queued" /\ wf.pc \notin {"reconcile", "observe"}
  /\ late' = IF lingers
             THEN late \cup {[kind |-> wf.pc, n |-> IF wf.pc = "submit" THEN act.n ELSE 1,
                              job |-> wf.job,
                              seen |-> IF wf.pc = "receipt" THEN wf.seen ELSE None]}
             ELSE late
  /\ IF act.n < MaxAttempts
     THEN act' = [Idle EXCEPT !.n = act.n + 1] /\ UNCHANGED wf
     ELSE /\ act' = Idle
          /\ wf' = [wf EXCEPT !.pc = "failed", !.why = wf.pc]
  /\ UNCHANGED <<hb, jobs, receipt>>

\* ACTION LateCall: a timed-out attempt performs its call; nobody hears of it.
LateCall(c) ==
  /\ jobs' = CASE c.kind = "submit" -> StartJob(ClientToken(c.n))
               [] c.kind \in {"cancel", "lastcancel"} -> Cancelled(c.job)
               [] OTHER -> jobs
  /\ receipt' = IF c.kind = "receipt" THEN PutReceipt(c.seen) ELSE receipt
  /\ late' = late \ {c}
  /\ UNCHANGED <<wf, act, hb>>

\* ------------------------------------------------------------------- workflow

\* ACTION Prepare: the runtime locks and the input are validated; no retry helps.
\* A second start chooses again, which stands for another input or another image.
Prepare ==
  /\ wf.pc = "prepare"
  /\ \E lock \in Locks, input \in Inputs :
       wf' = IF P4Runtime(lock) /\ Runtime(lock, input) /\ Shape(input)
             THEN [wf EXCEPT !.pc = "submit", !.state = "SUBMITTING"]
             ELSE [wf EXCEPT !.pc = "failed", !.why = "prepare"]
  /\ UNCHANGED <<act, hb, late, jobs, receipt>>

\* The head of the polling loop, for a workflow record w.
Loop(w) ==
  IF w.obs < MaxObservations
  THEN IF w.cancelReq /\ ~w.cancelSent
       THEN [w EXCEPT !.pc = "cancel",
                      !.state = IF w.rollbackReq THEN "ROLLING_BACK" ELSE "CANCELLING"]
       ELSE [w EXCEPT !.pc = "observe"]
  ELSE IF w.cancelSent THEN [w EXCEPT !.pc = "failed", !.why = "budget"]
       ELSE [w EXCEPT !.pc = "lastcancel"]

\* CatalogExecutionRecoveryCheckpoint: the observation beside the status it was made under.
RecoveryCheckpoint(w, obs) ==
  [seen |-> obs, obs |-> w.obs, cancel |-> w.cancelReq, rollback |-> w.rollbackReq]

\* Mutant: the checkpoint is not renewed once it exists.
KeepCheckpoint(w, obs) ==
  IF w.ckpt # None THEN w ELSE [w EXCEPT !.ckpt = RecoveryCheckpoint(w, obs)]

\* _capture_checkpoint
Capture(w, obs) == [w EXCEPT !.ckpt = RecoveryCheckpoint(w, obs)]

\* Status and checkpoint after an observation.
Note(w, obs) ==
  LET end == Outcome(obs.state)
      state == IF w.cancelSent /\ end \notin Terminal
               THEN (IF w.rollbackReq THEN "ROLLING_BACK" ELSE "CANCELLING")
               ELSE end
  IN  [Capture([w EXCEPT !.state = state], obs) EXCEPT !.seen = obs]

\* ACTION Resume: the workflow takes the activity's result.
Resume ==
  /\ wf.pc \in Activities /\ act.phase = "replied"
  /\ wf' =
       CASE wf.pc = "submit" ->
              [wf EXCEPT !.pc = "reconcile", !.state = "RECONCILING", !.job = act.job]
         [] wf.pc = "reconcile" ->
              LET w == Note(wf, act.seen)
              IN  IF Disposition(act.seen) = "ADOPTED_TERMINAL"
                  THEN [w EXCEPT !.pc = "receipt"] ELSE Loop(w)
         [] wf.pc = "observe" ->
              LET w == Note([wf EXCEPT !.obs = @ + 1], act.seen)
              IN  [w EXCEPT !.pc = IF IsTerminal(act.seen)
                                   THEN "receipt" ELSE "sleep"]
         [] wf.pc = "cancel" -> [wf EXCEPT !.pc = "observe", !.cancelSent = TRUE]
         [] wf.pc = "lastcancel" -> [wf EXCEPT !.pc = "failed", !.why = "budget"]
         [] wf.pc = "receipt" -> [wf EXCEPT !.pc = "done"]
  /\ act' = Idle
  /\ UNCHANGED <<hb, late, jobs, receipt>>

\* Mutant: the loop ends without cancelling the job.
WakeCareless ==
  /\ wf.pc = "sleep"
  /\ wf' = IF wf.obs < MaxObservations THEN Loop(wf)
           ELSE [wf EXCEPT !.pc = "failed", !.why = "budget"]
  /\ UNCHANGED <<act, hb, late, jobs, receipt>>

\* ACTION Wake: the poll interval has passed.
Wake ==
  /\ wf.pc = "sleep"
  /\ wf' = Loop(wf)
  /\ UNCHANGED <<act, hb, late, jobs, receipt>>

Ended == wf.pc \in {"done", "failed"}

\* ACTION Cancel: the cancel signal; a repeated one changes nothing.
Cancel ==
  /\ ~Ended /\ ~wf.cancelReq
  /\ wf' = [wf EXCEPT !.cancelReq = TRUE]
  /\ UNCHANGED <<act, hb, late, jobs, receipt>>

\* ACTION Rollback: the rollback signal, also after a cancel signal.
Rollback ==
  /\ ~Ended /\ ~wf.rollbackReq
  /\ wf' = [wf EXCEPT !.cancelReq = TRUE, !.rollbackReq = TRUE]
  /\ UNCHANGED <<act, hb, late, jobs, receipt>>

\* ACTION Restart: the same input is started again after a failure.
Restart ==
  /\ wf.pc = "failed" /\ wf.run < MaxRuns
  /\ wf' = Fresh(wf.run + 1)
  /\ act' = Idle
  /\ hb' = 0
  /\ UNCHANGED <<late, jobs, receipt>>

Call == SubmitCall \/ ReconcileCall \/ ObserveCall \/ CancelCall \/ ReceiptCall

Work == Prepare \/ Call \/ Resume \/ Wake
        \/ (\E lingers \in BOOLEAN : Fail(lingers))

Environment ==
  \/ \E j \in DOMAIN jobs :
       EvidenceArrives(j) \/ \E s \in {"RUNNING"} \cup Terminal : JobMoves(j, s)
  \/ Heartbeat \/ Cancel \/ Rollback \/ Restart
  \/ \E c \in late : LateCall(c)

Next == Work \/ Environment

Spec == Init /\ [][Next]_vars

\* The Temporal server keeps dispatching workflow and activity tasks; nothing is
\* asked of the provider, the signals or an operator.
LiveSpec == Spec /\ WF_vars(Work)
=============================================================================
