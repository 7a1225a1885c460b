------------------------ MODULE CatalogExecutionProofs ------------------------
(* What one Catalog execution promises, for any retry policies, any           *)
(* observation budget and any number of starts of its input: the proofs of    *)
(* type correctness, of the truth of its receipt and of the stop of its job.  *)
EXTENDS CatalogExecutionProps, TLAPS

Activity == [n : 1..MaxAttempts, phase : {"queued", "replied", "refused"},
             job : Nat, seen : Seen \cup {None}]
LateCallType == [kind : Activities, n : Nat, job : Nat, seen : Seen \cup {None}]

\* ---------------------------------------------------------------- the provider

\* All submissions come with the one token of the execution attempt.
JobsOK == jobs \in Seq(Job) /\ Len(jobs) <= 1 /\ \A j \in DOMAIN jobs : jobs[j].token = 0

Stopping == {"CANCELLING"} \cup Terminal

\* How the provider's jobs may change: none goes away, an end is final, and a job
\* that is being cancelled does not run again.
JobsMoveOn ==
  \A j \in DOMAIN jobs :
    /\ j \in DOMAIN jobs'
    /\ jobs[j].state \in Terminal => jobs'[j].state = jobs[j].state
    /\ jobs[j].state \in Stopping => jobs'[j].state \in Stopping

\* start_job_run leaves one job with the token, the one it had or a new one.
LEMMA StartJobOK ==
  ASSUME JobsOK, NEW n, jobs' = StartJob(ClientToken(n))
  PROVE  /\ JobsOK' /\ JobsMoveOn
         /\ \E j \in DOMAIN jobs' : jobs'[j].token = ClientToken(n)
<1> DEFINE job == [token |-> 0, state |-> "PENDING", evidence |-> 0]
<1>0. jobs \in Seq(Job) /\ Len(jobs) <= 1 /\ Len(jobs) \in Nat
  BY DEF JobsOK
<1>1. CASE Started(ClientToken(n)) # {}
  BY <1>1 DEF StartJob, Started, JobsOK, JobsMoveOn
<1>2. CASE Started(ClientToken(n)) = {}
  <2>1. jobs' = Append(jobs, job)
    BY <1>2 DEF StartJob, ClientToken
  <2>2. Len(jobs) = 0
    BY <1>0, <1>2 DEF Started, JobsOK, ClientToken
  <2>3. job \in Job /\ job.token = 0
    BY DEF Job, States
  <2> HIDE DEF job
  <2>4. jobs' \in Seq(Job) /\ Len(jobs') = 1 /\ jobs'[1] = job /\ DOMAIN jobs' = {1}
    BY <1>0, <2>1, <2>2, <2>3
  <2>5. DOMAIN jobs = {}
    BY <1>0, <2>2
  <2>6. \A j \in DOMAIN jobs' : jobs'[j].token = 0
    BY <2>3, <2>4
  <2>7. \E j \in DOMAIN jobs' : jobs'[j].token = 0
    BY <2>3, <2>4
  <2> QED BY <2>4, <2>5, <2>6, <2>7 DEF JobsOK, JobsMoveOn, ClientToken
<1> QED BY <1>1, <1>2

\* A job whose state changes as the provider allows keeps JobsOK.
LEMMA StateChangeOK ==
  ASSUME JobsOK, NEW j \in DOMAIN jobs, NEW state \in States,
         jobs' = [jobs EXCEPT ![j].state = state],
         jobs[j].state \notin Terminal,
         jobs[j].state \in Stopping => state \in Stopping
  PROVE  JobsOK' /\ JobsMoveOn /\ jobs'[j].state = state
<1>0. jobs \in Seq(Job) /\ Len(jobs) <= 1 /\ j \in 1..Len(jobs)
  BY DEF JobsOK
<1> DEFINE job == [jobs[j] EXCEPT !.state = state]
<1>1. jobs[j] \in Job
  BY <1>0
<1>2. job \in Job /\ job.state = state /\ job.token = jobs[j].token
  BY <1>1 DEF Job
<1>3. jobs' = [jobs EXCEPT ![j] = job]
  OBVIOUS
<1> HIDE DEF job
<1>4. jobs' \in Seq(Job) /\ Len(jobs') = Len(jobs) /\ DOMAIN jobs' = DOMAIN jobs
  BY <1>0, <1>2, <1>3
<1>5. \A k \in DOMAIN jobs : jobs'[k] = IF k = j THEN job ELSE jobs[k]
  BY <1>3
<1> QED BY <1>0, <1>2, <1>4, <1>5 DEF JobsOK, JobsMoveOn

\* cancel_job_run stops a job that is alive and leaves one that has ended.
LEMMA CancelledOK ==
  ASSUME JobsOK, NEW j \in DOMAIN jobs, jobs' = Cancelled(j)
  PROVE  JobsOK' /\ JobsMoveOn /\ jobs'[j].state \in Stopping
<1>1. CASE Alive(j)
  <2>1. jobs' = [jobs EXCEPT ![j].state = "CANCELLING"]
    BY <1>1 DEF Cancelled
  <2>2. "CANCELLING" \in States /\ "CANCELLING" \in Stopping
    BY DEF States, Stopping
  <2> QED BY <1>1, <2>1, <2>2, StateChangeOK DEF Alive
<1>2. CASE ~Alive(j)
  BY <1>2 DEF Cancelled, Alive, JobsOK, JobsMoveOn, Stopping
<1> QED BY <1>1, <1>2

\* -------------------------------------------------------- the inductive invariant

\* An observation that will stay true of its job once it is of an end.
Truthful(obs) ==
  /\ obs \in Seen /\ obs.job \in DOMAIN jobs
  /\ obs.state \in Terminal => jobs[obs.job].state = obs.state
Final(obs) == Truthful(obs) /\ obs.state \in Terminal

\* The workflow knows its job, has budget left where it observes, and what it
\* holds while it publishes is one final observation and the checkpoint of it.
AtJob == {"reconcile", "cancel", "observe", "receipt", "lastcancel", "sleep"}
Sound(w) ==
  /\ w \in Workflow
  /\ w.pc \in {"prepare", "submit"} => ~w.cancelSent
  /\ w.pc \in AtJob => w.job \in DOMAIN jobs
  /\ w.pc \in {"observe", "cancel"} => w.obs < MaxObservations
  /\ w.cancelSent => w.job \in DOMAIN jobs /\ jobs[w.job].state \in Stopping
  /\ w.pc = "failed" /\ w.why = "budget" =>
       w.job \in DOMAIN jobs /\ jobs[w.job].state \in Stopping
  /\ w.pc \in {"receipt", "done"} =>
       /\ Final(w.seen)
       /\ w.ckpt.seen = w.seen /\ w.ckpt.obs = w.obs /\ w.state = w.seen.state
  /\ w.pc = "done" => receipt = w.seen

\* What a replied activity returns.
ActivityOK ==
  /\ act \in Activity
  /\ wf.pc \notin Activities => act.phase = "queued"
  /\ act.phase = "replied" =>
       /\ wf.pc = "submit" => act.job \in DOMAIN jobs
       /\ wf.pc \in {"reconcile", "observe"} => Truthful(act.seen)
       /\ wf.pc \in {"cancel", "lastcancel"} => jobs[wf.job].state \in Stopping
       /\ wf.pc = "receipt" => receipt = wf.seen

\* What is kept outside the workflow: the heartbeat, attempts given up, the receipt.
KeptOK ==
  /\ hb \in {0} \cup DOMAIN jobs
  /\ \A c \in late :
       /\ c \in LateCallType
       /\ c.kind \in {"cancel", "lastcancel"} => c.job \in DOMAIN jobs
       /\ c.kind = "receipt" => Final(c.seen)
  /\ receipt = None \/ Final(receipt)

Inv == JobsOK /\ Sound(wf) /\ ActivityOK /\ KeptOK

\* An observation of an end stays true whatever happens to the jobs.
LEMMA TruthStable ==
  ASSUME JobsOK, JobsOK', JobsMoveOn, NEW obs
  PROVE  /\ Truthful(obs) => Truthful(obs)'
         /\ Final(obs) => Final(obs)'
  BY DEF Truthful, Final, JobsMoveOn

LEMMA NoneIsNoObservation == None \notin Seen
  BY DEF None, Seen

\* ------------------------------------------- what steps of others leave as it is

ReceiptKept == receipt # None => receipt' = receipt

LEMMA SoundStable ==
  ASSUME Inv, JobsOK', JobsMoveOn, ReceiptKept, wf' = wf
  PROVE  Sound(wf)'
<1>1. PICK w : w = wf
  OBVIOUS
<1>2. Sound(w) /\ JobsOK
  BY <1>1 DEF Inv
<1>3. w.pc \in {"receipt", "done"} => Final(w.seen)'
  BY <1>2, TruthStable DEF Sound
<1>4. w.pc = "done" => receipt' = w.seen
  <2>1. w.pc = "done" => w.seen \in Seen
    BY <1>2 DEF Sound, Final, Truthful
  <2> QED BY <1>2, <2>1, NoneIsNoObservation DEF Sound, ReceiptKept
<1>5. Sound(w)'
  BY <1>2, <1>3, <1>4 DEF Sound, JobsMoveOn
<1> QED BY <1>1, <1>5

LEMMA ActivityStable ==
  ASSUME Inv, JobsOK', JobsMoveOn, ReceiptKept, wf' = wf, act' = act
  PROVE  ActivityOK'
<1>1. PICK a, w : a = act /\ w = wf
  OBVIOUS
<1>2. ActivityOK /\ JobsOK /\ Sound(wf)
  BY DEF Inv
<1>3. a.phase = "replied" /\ w.pc \in {"reconcile", "observe"} => Truthful(a.seen)'
  BY <1>1, <1>2, TruthStable DEF ActivityOK
<1>4. a.phase = "replied" /\ w.pc = "receipt" => receipt' = w.seen
  <2>1. w.pc = "receipt" => w.seen \in Seen
    BY <1>1, <1>2 DEF Sound, Final, Truthful
  <2> QED BY <1>1, <1>2, <2>1, NoneIsNoObservation DEF ActivityOK, ReceiptKept
<1>5. w.pc \in {"cancel", "lastcancel"} => w.job \in DOMAIN jobs
  BY <1>1, <1>2 DEF Sound, AtJob
<1>6. act' = a /\ wf' = w
  BY <1>1
<1> QED BY <1>1, <1>2, <1>3, <1>4, <1>5, <1>6 DEF ActivityOK, JobsMoveOn

LEMMA KeptStable ==
  ASSUME Inv, JobsOK', JobsMoveOn, hb' = hb, late' \subseteq late,
         receipt' = receipt
  PROVE  KeptOK'
<1>0. KeptOK /\ JobsOK
  BY DEF Inv
<1>1. ASSUME NEW c \in late
      PROVE  /\ c \in LateCallType
             /\ c.kind \in {"cancel", "lastcancel"} => c.job \in DOMAIN jobs'
             /\ c.kind = "receipt" => Final(c.seen)'
  BY <1>0, TruthStable DEF KeptOK, JobsMoveOn
<1>2. hb' \in {0} \cup DOMAIN jobs'
  BY <1>0 DEF KeptOK, JobsMoveOn
<1>3. receipt' = None \/ Final(receipt)'
  <2>1. PICK x : x = receipt
    OBVIOUS
  <2>2. x = None \/ Final(x)'
    BY <1>0, <2>1, TruthStable DEF KeptOK
  <2> QED BY <2>1, <2>2
<1> QED BY <1>1, <1>2, <1>3 DEF KeptOK

LEMMA JobsUnchanged == JobsOK /\ jobs' = jobs => JobsOK' /\ JobsMoveOn
  BY DEF JobsOK, JobsMoveOn

\* Steps of the provider only.
LEMMA ProviderStep ==
  ASSUME Inv, NEW j \in DOMAIN jobs,
         EvidenceArrives(j) \/ \E s \in {"RUNNING"} \cup Terminal : JobMoves(j, s)
  PROVE  Inv'
<1>0. JobsOK
  BY DEF Inv
<1>1. JobsOK' /\ JobsMoveOn
  <2>1. ASSUME NEW s \in {"RUNNING"} \cup Terminal, JobMoves(j, s) PROVE JobsOK' /\ JobsMoveOn
    <3>1. s \in States /\ jobs[j].state \notin Terminal
          /\ (jobs[j].state \in Stopping => s \in Stopping)
      BY <2>1 DEF JobMoves, States, Terminal, Stopping
    <3> QED BY <1>0, <2>1, <3>1, StateChangeOK DEF JobMoves
  <2>2. CASE EvidenceArrives(j)
    <3> DEFINE job == [jobs[j] EXCEPT !.evidence = 1]
    <3>1. jobs \in Seq(Job) /\ jobs[j] \in Job /\ j \in 1..Len(jobs)
      BY <1>0 DEF JobsOK
    <3>2. job \in Job /\ job.state = jobs[j].state /\ job.token = jobs[j].token
      BY <3>1 DEF Job
    <3>3. jobs' = [jobs EXCEPT ![j] = job]
      BY <2>2 DEF EvidenceArrives
    <3> HIDE DEF job
    <3>4. jobs' \in Seq(Job) /\ Len(jobs') = Len(jobs) /\ DOMAIN jobs' = DOMAIN jobs
      BY <3>1, <3>2, <3>3
    <3>5. \A k \in DOMAIN jobs : jobs'[k] = IF k = j THEN job ELSE jobs[k]
      BY <3>3
    <3> QED BY <1>0, <3>2, <3>4, <3>5 DEF JobsOK, JobsMoveOn
  <2> QED BY <2>1, <2>2
<1>2. UNCHANGED <<wf, act, hb, late, receipt>>
  BY DEF EvidenceArrives, JobMoves
<1> QED
  BY <1>1, <1>2, SoundStable, ActivityStable, KeptStable DEF Inv, ReceiptKept
\* ------------------------------------------------------------- calls of activities

\* An observation of a job the provider knows is truthful.
LEMMA ObservedOK ==
  ASSUME JobsOK, NEW j \in DOMAIN jobs
  PROVE  Truthful(Observed(j))
<1>1. jobs[j] \in Job /\ j \in Nat \ {0}
  BY DEF JobsOK
<1>2. Observed(j).job = j /\ Observed(j).state = jobs[j].state /\ Observed(j) \in Seen
  BY <1>1 DEF Observed, Seen, Job, ResourceEvidence, CostEvidence
<1> QED BY <1>2 DEF Truthful

LEMMA CallStep == ASSUME Inv, Call PROVE Inv'
<1>0. JobsOK /\ ActivityOK /\ KeptOK /\ Sound(wf) /\ act \in Activity /\ hb \in {0} \cup DOMAIN jobs
  BY DEF Inv, ActivityOK, KeptOK
<1>1. CASE SubmitCall
  <2> DEFINE to == Submit(act.n, hb)
  <2>1. /\ jobs' = to.jobs /\ act' = [act EXCEPT !.phase = "replied", !.job = to.job]
        /\ wf.pc = "submit" /\ UNCHANGED <<wf, hb, late, receipt>>
    BY <1>1 DEF SubmitCall, Answers
  <2>2. JobsOK' /\ JobsMoveOn /\ to.job \in DOMAIN jobs'
    <3>1. CASE hb # 0
      BY <1>0, <2>1, <3>1, JobsUnchanged DEF Submit
    <3>2. CASE hb = 0
      <4>1. jobs' = StartJob(ClientToken(act.n))
        BY <2>1, <3>2 DEF Submit
      <4>2. /\ JobsOK' /\ JobsMoveOn
            /\ \E j \in DOMAIN jobs' : jobs'[j].token = ClientToken(act.n)
        BY <1>0, <4>1, StartJobOK
      <4>3. to.job = CHOOSE j \in DOMAIN jobs' : jobs'[j].token = ClientToken(act.n)
        BY <3>2, <4>1 DEF Submit
      <4> QED BY <4>2, <4>3
    <3> QED BY <3>1, <3>2
  <2> HIDE DEF to
  <2>3. to.job \in Nat
    BY <2>2 DEF JobsOK
  <2>4. act' \in Activity /\ act'.phase = "replied" /\ act'.job = to.job
    BY <1>0, <2>1, <2>3 DEF Activity
  <2>5. ActivityOK'
    BY <2>1, <2>2, <2>4 DEF ActivityOK, Activities
  <2> QED BY <2>1, <2>2, <2>5, SoundStable, KeptStable DEF Inv, ReceiptKept
<1>2. CASE ReconcileCall \/ ObserveCall
  <2>1. /\ act' = [act EXCEPT !.phase = "replied", !.seen = Observed(wf.job)]
        /\ wf.pc \in {"reconcile", "observe"} /\ UNCHANGED <<wf, hb, late, jobs, receipt>>
    BY <1>2 DEF ReconcileCall, ObserveCall, Answers
  <2>2. wf.job \in DOMAIN jobs
    BY <1>0, <2>1 DEF Sound, AtJob
  <2> DEFINE obs == Observed(wf.job)
  <2>3. Truthful(obs) /\ obs \in Seen
    BY <1>0, <2>2, ObservedOK DEF Truthful
  <2> HIDE DEF obs
  <2>4. act' \in Activity /\ act'.phase = "replied" /\ act'.seen = obs
    BY <1>0, <2>1, <2>3 DEF Activity, obs
  <2>5. Truthful(act'.seen)
    BY <2>3, <2>4
  <2>6. ActivityOK'
    BY <2>1, <2>4, <2>5 DEF ActivityOK, Activities, Truthful
  <2>7. JobsOK' /\ JobsMoveOn
    BY <1>0, <2>1, JobsUnchanged
  <2> QED BY <2>1, <2>6, <2>7, SoundStable, KeptStable DEF Inv, ReceiptKept
<1>3. CASE CancelCall
  <2>1. /\ act' = [act EXCEPT !.phase = "replied"] /\ jobs' = Cancelled(wf.job)
        /\ wf.pc \in {"cancel", "lastcancel"} /\ UNCHANGED <<wf, hb, late, receipt>>
    BY <1>3 DEF CancelCall, Answers
  <2>2. wf.job \in DOMAIN jobs
    BY <1>0, <2>1 DEF Sound, AtJob
  <2>3. JobsOK' /\ JobsMoveOn /\ jobs'[wf.job].state \in Stopping
    BY <1>0, <2>1, <2>2, CancelledOK
  <2>4. act' \in Activity
    BY <1>0, <2>1 DEF Activity
  <2>5. ActivityOK'
    BY <2>1, <2>3, <2>4 DEF ActivityOK, Activities
  <2> QED BY <2>1, <2>3, <2>5, SoundStable, KeptStable DEF Inv, ReceiptKept
<1>4. CASE ReceiptCall
  <2>1. Final(wf.seen) /\ wf.pc = "receipt" /\ UNCHANGED <<wf, hb, late, jobs>>
    BY <1>0, <1>4 DEF ReceiptCall, Answers, Sound
  <2>2. CompletionReceipt(wf.seen) = wf.seen
    BY <2>1 DEF CompletionReceipt, IsTerminal, Outcome, Final, Terminal
  <2>3. receipt' = IF receipt = None THEN wf.seen ELSE receipt
    BY <1>4, <2>2 DEF ReceiptCall, PutReceipt
  <2>4. act' = [act EXCEPT !.phase = IF receipt' = wf.seen THEN "replied" ELSE "refused"]
    BY <1>4 DEF ReceiptCall, Answers
  <2>5. act' \in Activity /\ (act'.phase = "replied" => receipt' = wf.seen)
    <3>1. CASE receipt' = wf.seen
      BY <1>0, <2>4, <3>1 DEF Activity
    <3>2. CASE receipt' # wf.seen
      BY <1>0, <2>4, <3>2 DEF Activity
    <3> QED BY <3>1, <3>2
  <2>6. ActivityOK'
    BY <2>1, <2>5 DEF ActivityOK, Activities
  <2>7. JobsOK' /\ JobsMoveOn /\ ReceiptKept
    BY <1>0, <2>1, <2>3, JobsUnchanged DEF ReceiptKept
  <2>8. KeptOK'
    <3>1. receipt' = None \/ Final(receipt')
      BY <1>0, <2>1, <2>3 DEF KeptOK
    <3> QED BY <1>0, <2>1, <3>1 DEF KeptOK, Final, Truthful
  <2> QED BY <2>1, <2>6, <2>7, <2>8, SoundStable DEF Inv
<1> QED BY <1>1, <1>2, <1>3, <1>4 DEF Call

\* The heartbeat of a submit attempt that has replied names its job.
LEMMA HeartbeatStep == ASSUME Inv, Heartbeat PROVE Inv'
<1>0. JobsOK /\ ActivityOK /\ KeptOK /\ wf.pc = "submit" /\ act.phase = "replied"
  BY DEF Inv, Heartbeat
<1>1. hb' \in DOMAIN jobs /\ UNCHANGED <<wf, act, late, jobs, receipt>>
  BY <1>0 DEF Heartbeat, ActivityOK
<1>2. JobsOK' /\ JobsMoveOn
  BY <1>0, <1>1, JobsUnchanged
<1>3. KeptOK'
  BY <1>0, <1>1 DEF KeptOK, Final, Truthful
<1> QED BY <1>1, <1>2, <1>3, SoundStable, ActivityStable DEF Inv, ReceiptKept

\* A call of an attempt given up adds what the attempt itself would have added.
LEMMA LateStep == ASSUME Inv, NEW c \in late, LateCall(c) PROVE Inv'
<1>0. JobsOK /\ KeptOK /\ c \in LateCallType /\ UNCHANGED <<wf, act, hb>>
  BY DEF Inv, KeptOK, LateCall
<1>1. JobsOK' /\ JobsMoveOn
  <2>1. CASE c.kind = "submit"
    <3>1. jobs' = StartJob(ClientToken(c.n))
      BY <2>1 DEF LateCall
    <3> QED BY <1>0, <3>1, StartJobOK
  <2>2. CASE c.kind \in {"cancel", "lastcancel"}
    <3>1. jobs' = Cancelled(c.job) /\ c.job \in DOMAIN jobs
      BY <1>0, <2>2 DEF LateCall, KeptOK
    <3> QED BY <1>0, <3>1, CancelledOK
  <2>3. CASE c.kind \notin {"submit", "cancel", "lastcancel"}
    BY <1>0, <2>3, JobsUnchanged DEF LateCall
  <2> QED BY <2>1, <2>2, <2>3
<1>2. ReceiptKept /\ (receipt' = None \/ Final(receipt'))
  BY <1>0 DEF LateCall, PutReceipt, ReceiptKept, KeptOK
<1>3. KeptOK'
  <2>1. ASSUME NEW d \in late'
        PROVE  /\ d \in LateCallType
               /\ d.kind \in {"cancel", "lastcancel"} => d.job \in DOMAIN jobs'
               /\ d.kind = "receipt" => Final(d.seen)'
    BY <1>0, <1>1, TruthStable DEF KeptOK, JobsMoveOn, LateCall
  <2>2. hb' \in {0} \cup DOMAIN jobs'
    BY <1>0, <1>1 DEF KeptOK, JobsMoveOn
  <2>3. receipt' = None \/ Final(receipt)'
    <3>1. PICK x : x = receipt'
      OBVIOUS
    <3>2. x = None \/ Final(x)'
      BY <1>0, <1>1, <1>2, <3>1, TruthStable
    <3> QED BY <3>1, <3>2 DEF Final, Truthful
  <2> QED BY <2>1, <2>2, <2>3 DEF KeptOK
<1> QED BY <1>0, <1>1, <1>2, <1>3, SoundStable, ActivityStable DEF Inv
\* --------------------------------------------------------------- the workflow

Limits == MaxAttempts \in Nat \ {0} /\ MaxObservations \in Nat

LEMMA IdleType == ASSUME Limits PROVE Idle \in Activity /\ Idle.phase = "queued"
  BY DEF Limits, Idle, Activity

\* A step of the workflow alone: what is outside it stays, and its next activity
\* is queued.
LEMMA WorkflowStep ==
  ASSUME Inv, NEW w, Sound(w), wf' = w, UNCHANGED <<hb, late, jobs, receipt>>,
         act' \in Activity, act'.phase = "queued"
  PROVE  Inv'
<1>1. JobsOK' /\ KeptOK'
  BY DEF Inv, JobsOK, KeptOK, Final, Truthful
<1>2. Sound(w)'
  BY DEF Sound, Final, Truthful
<1>3. ActivityOK'
  BY DEF ActivityOK
<1> QED BY <1>1, <1>2, <1>3 DEF Inv

\* An attempt that fails is tried again or fails the workflow; the call it may
\* still perform is about the job and the observation the workflow holds.
LEMMA FailStep ==
  ASSUME Limits, Inv, NEW lingers \in BOOLEAN, Fail(lingers)
  PROVE  Inv'
<1> DEFINE call == [kind |-> wf.pc, n |-> IF wf.pc = "submit" THEN act.n ELSE 1, job |-> wf.job,
                    seen |-> IF wf.pc = "receipt" THEN wf.seen ELSE None]
<1>0. /\ JobsOK /\ Sound(wf) /\ KeptOK /\ wf \in Workflow /\ act \in Activity
      /\ wf.pc \in Activities /\ UNCHANGED <<hb, jobs, receipt>>
  BY DEF Inv, Sound, ActivityOK, Fail
<1>1. JobsOK' /\ JobsMoveOn /\ ReceiptKept
  BY <1>0, JobsUnchanged DEF ReceiptKept
<1>2. late' \subseteq late \cup {call}
  BY DEF Fail
<1>3. /\ call \in LateCallType
      /\ call.kind \in {"cancel", "lastcancel"} => call.job \in DOMAIN jobs
      /\ call.kind = "receipt" => Final(call.seen)
  <2>1. act.n \in Nat /\ wf.job \in Nat /\ wf.seen \in Seen \cup {None}
    BY <1>0 DEF Limits, Activity, Workflow
  <2>2. call \in LateCallType
    BY <1>0, <2>1 DEF LateCallType
  <2>3. call.kind \in {"cancel", "lastcancel"} => call.job \in DOMAIN jobs
    BY <1>0 DEF Sound, AtJob
  <2>4. call.kind = "receipt" => Final(call.seen)
    BY <1>0 DEF Sound
  <2> QED BY <2>2, <2>3, <2>4
<1> HIDE DEF call
<1>4. KeptOK'
  <2>1. \A c \in late' :
          /\ c \in LateCallType
          /\ c.kind \in {"cancel", "lastcancel"} => c.job \in DOMAIN jobs
          /\ c.kind = "receipt" => Final(c.seen)
    BY <1>0, <1>2, <1>3 DEF KeptOK
  <2>2. hb' \in {0} \cup DOMAIN jobs' /\ (receipt = None \/ Final(receipt))
    BY <1>0 DEF KeptOK
  <2>3. receipt' = None \/ Final(receipt)'
    BY <1>0, <2>2 DEF Final, Truthful
  <2>4. ASSUME NEW c \in late', c.kind = "receipt" PROVE Final(c.seen)'
    <3>1. Final(c.seen)
      BY <2>1, <2>4
    <3> QED BY <1>0, <3>1 DEF Final, Truthful
  <2>5. ASSUME NEW c \in late'
        PROVE  /\ c \in LateCallType
               /\ c.kind \in {"cancel", "lastcancel"} => c.job \in DOMAIN jobs'
               /\ c.kind = "receipt" => Final(c.seen)'
    BY <1>0, <2>1, <2>4
  <2> QED BY <1>0, <2>2, <2>3, <2>5 DEF KeptOK
<1>5. act' \in Activity /\ act'.phase = "queued"
  <2>1. CASE act.n < MaxAttempts
    <3>1. act.n + 1 \in 1..MaxAttempts
      BY <1>0, <2>1 DEF Limits, Activity
    <3>2. act' = [Idle EXCEPT !.n = act.n + 1]
      BY <2>1 DEF Fail
    <3> QED BY <3>1, <3>2 DEF Idle, Activity
  <2>2. CASE ~(act.n < MaxAttempts)
    <3>1. act' = Idle
      BY <2>2 DEF Fail
    <3> QED BY <3>1, IdleType
  <2> QED BY <2>1, <2>2
<1>6. Sound(wf)'
  <2>1. CASE wf' = wf
    BY <1>0, <1>1, <2>1, SoundStable
  <2>2. CASE wf' = [wf EXCEPT !.pc = "failed", !.why = wf.pc]
    <3> DEFINE w == [wf EXCEPT !.pc = "failed", !.why = wf.pc]
    <3>a. "failed" \in Places /\ wf.pc # "budget"
      BY <1>0 DEF Places, Activities
    <3>1. /\ w \in Workflow /\ w.pc = "failed" /\ w.why # "budget"
          /\ w.job = wf.job /\ w.cancelSent = wf.cancelSent
      BY <1>0, <3>a DEF Workflow
    <3> HIDE DEF w
    <3>2. wf' = w
      BY <2>2 DEF w
    <3>3. Sound(w)
      BY <1>0, <3>1 DEF Sound, AtJob
    <3> QED BY <1>0, <3>2, <3>3 DEF Sound, Final, Truthful
  <2> QED BY <2>1, <2>2 DEF Fail
<1>7. ActivityOK'
  BY <1>5 DEF ActivityOK
<1> QED BY <1>1, <1>4, <1>6, <1>7 DEF Inv

\* The head of the loop finds a job, and asks nothing beyond the budget.
LEMMA LoopOK ==
  ASSUME NEW w \in Workflow, w.job \in DOMAIN jobs,
         w.cancelSent => jobs[w.job].state \in Stopping
  PROVE  Sound(Loop(w))
<1>1. CASE w.obs < MaxObservations /\ w.cancelReq /\ ~w.cancelSent
  <2> DEFINE status == IF w.rollbackReq THEN "ROLLING_BACK" ELSE "CANCELLING"
             to == [w EXCEPT !.pc = "cancel", !.state = status]
  <2>1. Loop(w) = to
    BY <1>1 DEF Loop
  <2> status \in {"ROLLING_BACK", "CANCELLING"}
    OBVIOUS
  <2> "cancel" \in Places
    BY DEF Places, Activities
  <2> HIDE DEF status
  <2>2. to \in Workflow /\ to.pc = "cancel" /\ to.job = w.job /\ to.obs = w.obs /\ ~to.cancelSent
    BY <1>1 DEF Workflow
  <2> HIDE DEF to
  <2> QED BY <1>1, <2>1, <2>2 DEF Sound
<1>2. CASE w.obs < MaxObservations /\ ~(w.cancelReq /\ ~w.cancelSent)
  <2> DEFINE to == [w EXCEPT !.pc = "observe"]
  <2>1. Loop(w) = to
    BY <1>2 DEF Loop
  <2>2. to \in Workflow /\ to.pc = "observe" /\ to.job = w.job /\ to.obs = w.obs
        /\ to.cancelSent = w.cancelSent
    BY <1>2 DEF Workflow, Places, Activities
  <2> HIDE DEF to
  <2> QED BY <1>2, <2>1, <2>2 DEF Sound
<1>3. CASE ~(w.obs < MaxObservations) /\ w.cancelSent
  <2> DEFINE to == [w EXCEPT !.pc = "failed", !.why = "budget"]
  <2>1. Loop(w) = to
    BY <1>3 DEF Loop
  <2>2. to \in Workflow /\ to.pc = "failed" /\ to.job = w.job
    BY <1>3 DEF Workflow, Places
  <2> HIDE DEF to
  <2> QED BY <1>3, <2>1, <2>2 DEF Sound, AtJob
<1>4. CASE ~(w.obs < MaxObservations) /\ ~w.cancelSent
  <2> DEFINE to == [w EXCEPT !.pc = "lastcancel"]
  <2>1. Loop(w) = to
    BY <1>4 DEF Loop
  <2>2. to \in Workflow /\ to.pc = "lastcancel" /\ to.job = w.job /\ ~to.cancelSent
    BY <1>4 DEF Workflow, Places, Activities
  <2> HIDE DEF to
  <2> QED BY <1>4, <2>1, <2>2 DEF Sound
<1> QED BY <1>1, <1>2, <1>3, <1>4

\* Status, checkpoint and observation are noted together.
LEMMA NoteOK ==
  ASSUME NEW w \in Workflow, NEW obs \in Seen
  PROVE  /\ Note(w, obs) \in Workflow
         /\ Note(w, obs).pc = w.pc /\ Note(w, obs).job = w.job /\ Note(w, obs).obs = w.obs
         /\ Note(w, obs).cancelSent = w.cancelSent
         /\ Note(w, obs).seen = obs /\ Note(w, obs).ckpt.seen = obs /\ Note(w, obs).ckpt.obs = w.obs
         /\ obs.state \in Terminal => Note(w, obs).state = obs.state
<1> DEFINE end == Outcome(obs.state)
           state == IF w.cancelSent /\ end \notin Terminal
                    THEN (IF w.rollbackReq THEN "ROLLING_BACK" ELSE "CANCELLING")
                    ELSE end
           under == [w EXCEPT !.state = state]
           ckpt == RecoveryCheckpoint(under, obs)
<1>1. end \in Terminal \cup {"RUNNING"} /\ (obs.state \in Terminal => end = obs.state)
  BY DEF Outcome
<1>2. /\ state \in Terminal \cup {"RUNNING", "CANCELLING", "ROLLING_BACK"}
      /\ obs.state \in Terminal => state = obs.state
  BY <1>1
<1> HIDE DEF state
<1>3. under \in Workflow /\ under.state = state
  BY <1>2 DEF Workflow
<1>4. ckpt \in Checkpoint /\ ckpt.seen = obs /\ ckpt.obs = w.obs
  BY <1>3 DEF RecoveryCheckpoint, Checkpoint, Workflow
<1>5. Note(w, obs) = [[under EXCEPT !.ckpt = ckpt] EXCEPT !.seen = obs]
  BY DEF Note, Capture, state
<1>6. /\ under.pc = w.pc /\ under.job = w.job /\ under.obs = w.obs
      /\ under.cancelSent = w.cancelSent
  BY DEF Workflow
<1> HIDE DEF ckpt, under
<1>7. Note(w, obs) \in Workflow
  BY <1>3, <1>4, <1>5 DEF Workflow
<1>8. /\ Note(w, obs).pc = under.pc /\ Note(w, obs).job = under.job
      /\ Note(w, obs).obs = under.obs /\ Note(w, obs).cancelSent = under.cancelSent
      /\ Note(w, obs).state = under.state
      /\ Note(w, obs).seen = obs /\ Note(w, obs).ckpt = ckpt
  BY <1>3, <1>5 DEF Workflow
<1> QED BY <1>2, <1>3, <1>4, <1>6, <1>7, <1>8
LEMMA WorkStep == ASSUME Limits, Inv, Prepare \/ Resume \/ Wake PROVE Inv'
<1>0. /\ JobsOK /\ Sound(wf) /\ ActivityOK /\ wf \in Workflow /\ act \in Activity
      /\ UNCHANGED <<hb, late, jobs, receipt>>
  BY DEF Inv, Sound, ActivityOK, Prepare, Resume, Wake
<1>1. CASE Prepare
  <2>1. PICK w \in {[wf EXCEPT !.pc = "submit", !.state = "SUBMITTING"],
                    [wf EXCEPT !.pc = "failed", !.why = "prepare"]} : wf' = w
    BY <1>1 DEF Prepare
  <2>2. /\ w \in Workflow /\ w.pc \in {"submit", "failed"} /\ (w.pc = "failed" => w.why = "prepare")
        /\ w.job = wf.job /\ w.cancelSent = wf.cancelSent /\ wf.pc = "prepare"
    BY <1>0, <1>1, <2>1 DEF Workflow, Places, Activities, Prepare
  <2>3. Sound(w)
    BY <1>0, <2>2 DEF Sound, AtJob
  <2>4. act' = act /\ act.phase = "queued"
    BY <1>0, <1>1 DEF Prepare, ActivityOK, Activities
  <2> QED BY <1>0, <2>1, <2>3, <2>4, WorkflowStep
<1>2. CASE Wake
  <2>1. /\ wf' = Loop(wf) /\ act' = act /\ act.phase = "queued"
        /\ wf.job \in DOMAIN jobs /\ (wf.cancelSent => jobs[wf.job].state \in Stopping)
    BY <1>0, <1>2 DEF Wake, ActivityOK, Activities, Sound, AtJob
  <2>2. Sound(Loop(wf))
    BY <1>0, <2>1, LoopOK
  <2> QED BY <1>0, <2>1, <2>2, WorkflowStep
<1>3. ASSUME Resume, NEW w, wf' = w, Sound(w) PROVE Inv'
  <2>1. act' = Idle /\ act' \in Activity /\ act'.phase = "queued"
    BY <1>3, IdleType DEF Resume
  <2> QED BY <1>0, <1>3, <2>1, WorkflowStep
<1>4. CASE Resume /\ wf.pc = "submit"
  <2> DEFINE w == [wf EXCEPT !.pc = "reconcile", !.state = "RECONCILING", !.job = act.job]
  <2>1. wf' = w /\ act.job \in DOMAIN jobs
    BY <1>0, <1>4 DEF Resume, ActivityOK
  <2>2. act.job \in Nat
    BY <1>0 DEF Activity
  <2> "reconcile" \in Places
    BY DEF Places, Activities
  <2>3. /\ w \in Workflow /\ w.pc = "reconcile" /\ w.job = act.job
        /\ w.cancelSent = wf.cancelSent
    BY <1>0, <2>2 DEF Workflow
  <2> HIDE DEF w
  <2>4. Sound(w)
    BY <1>0, <1>4, <2>1, <2>3 DEF Sound
  <2> QED BY <1>3, <1>4, <2>1, <2>4
<1>5. CASE Resume /\ wf.pc \in {"reconcile", "observe"}
  <2> DEFINE obs == act.seen
  <2>1. Truthful(obs) /\ obs \in Seen /\ (IsTerminal(obs) <=> obs.state \in Terminal)
    BY <1>0, <1>5 DEF Resume, ActivityOK, Truthful, IsTerminal, Outcome, Terminal
  <2> HIDE DEF obs
  <2>2. wf.job \in DOMAIN jobs /\ (wf.cancelSent => jobs[wf.job].state \in Stopping)
    BY <1>0, <1>5 DEF Sound, AtJob
  <2>3. CASE wf.pc = "reconcile"
    <3> DEFINE n == Note(wf, obs)
               w == IF Disposition(obs) = "ADOPTED_TERMINAL"
                    THEN [n EXCEPT !.pc = "receipt"] ELSE Loop(n)
    <3>1. wf' = w
      BY <1>5, <2>3 DEF Resume, obs
    <3>2. /\ n \in Workflow /\ n.job = wf.job /\ n.cancelSent = wf.cancelSent
          /\ n.seen = obs /\ n.ckpt.seen = obs /\ n.ckpt.obs = n.obs
          /\ (obs.state \in Terminal => n.state = obs.state)
      BY <1>0, <2>1, NoteOK
    <3> HIDE DEF n
    <3>3. Sound(w)
      <4>1. CASE Disposition(obs) = "ADOPTED_TERMINAL"
        <5> DEFINE p == [n EXCEPT !.pc = "receipt"]
        <5>1. obs.state \in Terminal
          BY <2>1, <4>1 DEF Disposition
        <5>2. /\ p \in Workflow /\ p.pc = "receipt" /\ p.job = n.job /\ p.obs = n.obs
              /\ p.cancelSent = n.cancelSent /\ p.seen = n.seen /\ p.ckpt = n.ckpt /\ p.state = n.state
          BY <3>2 DEF Workflow, Places, Activities
        <5>3. w = p
          BY <4>1
        <5> HIDE DEF p, w
        <5>4. Sound(p)
          BY <2>1, <2>2, <3>2, <5>1, <5>2 DEF Sound, Final
        <5> QED BY <5>3, <5>4
      <4>2. CASE Disposition(obs) # "ADOPTED_TERMINAL"
        <5>1. w = Loop(n)
          BY <4>2
        <5> HIDE DEF w
        <5> QED BY <2>2, <3>2, <5>1, LoopOK
      <4> QED BY <4>1, <4>2
    <3> HIDE DEF w
    <3> QED BY <1>3, <1>5, <3>1, <3>3
  <2>4. CASE wf.pc = "observe"
    <3> DEFINE more == [wf EXCEPT !.obs = @ + 1]
               n == Note(more, obs)
               pc == IF IsTerminal(obs) THEN "receipt" ELSE "sleep"
               w == [n EXCEPT !.pc = pc]
    <3>1. wf' = w
      BY <1>5, <2>4 DEF Resume, obs
    <3>2. more \in Workflow /\ more.job = wf.job /\ more.cancelSent = wf.cancelSent
      BY <1>0, <2>4 DEF Workflow, Sound, Limits
    <3> HIDE DEF more
    <3>3. /\ n \in Workflow /\ n.job = wf.job /\ n.cancelSent = wf.cancelSent
          /\ n.seen = obs /\ n.ckpt.seen = obs /\ n.ckpt.obs = n.obs
          /\ (obs.state \in Terminal => n.state = obs.state)
      BY <2>1, <3>2, NoteOK
    <3>4. pc \in {"receipt", "sleep"} /\ (pc = "receipt" => obs.state \in Terminal)
      BY <2>1
    <3> HIDE DEF n, pc
    <3>5. /\ w \in Workflow /\ w.pc = pc /\ w.job = n.job /\ w.obs = n.obs
          /\ w.cancelSent = n.cancelSent /\ w.seen = n.seen /\ w.ckpt = n.ckpt /\ w.state = n.state
      BY <3>3, <3>4 DEF Workflow, Places, Activities
    <3> HIDE DEF w
    <3>6. Sound(w)
      BY <2>1, <2>2, <3>3, <3>4, <3>5 DEF Sound, Final
    <3> QED BY <1>3, <1>5, <3>1, <3>6
  <2> QED BY <1>5, <2>3, <2>4
<1>6. CASE Resume /\ wf.pc = "cancel"
  <2> DEFINE w == [wf EXCEPT !.pc = "observe", !.cancelSent = TRUE]
  <2>1. /\ wf' = w /\ wf.job \in DOMAIN jobs /\ jobs[wf.job].state \in Stopping
        /\ wf.obs < MaxObservations
    BY <1>0, <1>6 DEF Resume, ActivityOK, Sound, AtJob
  <2>2. w \in Workflow /\ w.pc = "observe" /\ w.job = wf.job /\ w.obs = wf.obs
    BY <1>0 DEF Workflow, Places, Activities
  <2> HIDE DEF w
  <2>3. Sound(w)
    BY <2>1, <2>2 DEF Sound
  <2> QED BY <1>3, <1>6, <2>1, <2>3
<1>7. CASE Resume /\ wf.pc = "lastcancel"
  <2> DEFINE w == [wf EXCEPT !.pc = "failed", !.why = "budget"]
  <2>1. wf' = w /\ wf.job \in DOMAIN jobs /\ jobs[wf.job].state \in Stopping
    BY <1>0, <1>7 DEF Resume, ActivityOK, Sound, AtJob
  <2>2. w \in Workflow /\ w.pc = "failed" /\ w.job = wf.job
    BY <1>0 DEF Workflow, Places
  <2> HIDE DEF w
  <2>3. Sound(w)
    BY <2>1, <2>2 DEF Sound, AtJob
  <2> QED BY <1>3, <1>7, <2>1, <2>3
<1>8. CASE Resume /\ wf.pc = "receipt"
  <2> DEFINE w == [wf EXCEPT !.pc = "done"]
  <2>1. wf' = w /\ receipt = wf.seen
    BY <1>0, <1>8 DEF Resume, ActivityOK
  <2>2. /\ w \in Workflow /\ w.pc = "done" /\ w.job = wf.job /\ w.obs = wf.obs
        /\ w.cancelSent = wf.cancelSent /\ w.seen = wf.seen /\ w.ckpt = wf.ckpt /\ w.state = wf.state
    BY <1>0 DEF Workflow, Places
  <2> HIDE DEF w
  <2>3. Sound(w)
    BY <1>0, <1>8, <2>1, <2>2 DEF Sound, AtJob
  <2> QED BY <1>3, <1>8, <2>1, <2>3
<1> QED
  <2>1. Resume => wf.pc \in Activities
    BY DEF Resume
  <2> QED BY <1>1, <1>2, <1>4, <1>5, <1>6, <1>7, <1>8, <2>1 DEF Activities
\* A signal changes nothing but the requests the workflow remembers.
LEMMA SignalStep == ASSUME Inv, Cancel \/ Rollback PROVE Inv'
<1>0. /\ JobsOK /\ Sound(wf) /\ wf \in Workflow /\ ActivityOK /\ KeptOK
      /\ UNCHANGED <<act, hb, late, jobs, receipt>> /\ ~Ended
  BY DEF Inv, Sound, Cancel, Rollback
<1>1. PICK w : wf' = w /\ (w = [wf EXCEPT !.cancelReq = TRUE]
                         \/ w = [wf EXCEPT !.cancelReq = TRUE, !.rollbackReq = TRUE])
  BY DEF Cancel, Rollback
<1>2. /\ w \in Workflow /\ w.pc = wf.pc /\ w.job = wf.job /\ w.obs = wf.obs
      /\ w.cancelSent = wf.cancelSent /\ w.seen = wf.seen /\ w.ckpt = wf.ckpt /\ w.state = wf.state
  BY <1>0, <1>1 DEF Workflow
<1>3. Sound(w)
  BY <1>0, <1>2 DEF Sound, Ended
<1>4. Sound(wf)'
  BY <1>0, <1>1, <1>3 DEF Sound, Final, Truthful
<1>5. ActivityOK'
  BY <1>0, <1>1, <1>2 DEF ActivityOK, Truthful
<1>6. JobsOK' /\ KeptOK'
  BY <1>0 DEF JobsOK, KeptOK, Final, Truthful
<1> QED BY <1>4, <1>5, <1>6 DEF Inv

\* A new start of the input knows nothing; the jobs, the receipt and the calls of
\* attempts given up are still there.
LEMMA FreshOK == ASSUME Limits, NEW run \in Nat PROVE Sound(Fresh(run))
<1>1. Fresh(run) \in Workflow /\ Fresh(run).pc = "prepare" /\ ~Fresh(run).cancelSent
  BY DEF Fresh, Workflow, Places, Limits
<1> QED BY <1>1 DEF Sound, AtJob

LEMMA RestartStep == ASSUME Limits, Inv, Restart PROVE Inv'
<1>0. JobsOK /\ wf \in Workflow /\ KeptOK
  BY DEF Inv, Sound
<1>1. wf' = Fresh(wf.run + 1) /\ act' = Idle /\ hb' = 0 /\ UNCHANGED <<late, jobs, receipt>>
  BY DEF Restart
<1>2. wf.run + 1 \in Nat
  BY <1>0 DEF Workflow
<1>3. PICK w : w = Fresh(wf.run + 1) /\ Sound(w)
  BY <1>2, FreshOK
<1>4. Sound(wf)'
  BY <1>1, <1>3 DEF Sound, Final, Truthful
<1>5. ActivityOK'
  BY <1>1, IdleType DEF ActivityOK
<1>6. JobsOK' /\ KeptOK'
  BY <1>0, <1>1 DEF JobsOK, KeptOK, Final, Truthful
<1> QED BY <1>4, <1>5, <1>6 DEF Inv

LEMMA InitOK == ASSUME Limits, Init PROVE Inv
<1>1. Sound(wf)
  BY FreshOK DEF Init
<1>2. JobsOK
  BY DEF Init, JobsOK
<1>3. ActivityOK
  BY IdleType DEF Init, ActivityOK
<1>4. KeptOK
  BY DEF Init, KeptOK
<1> QED BY <1>1, <1>2, <1>3, <1>4 DEF Inv

LEMMA NextOK == ASSUME Limits, Inv, [Next]_vars PROVE Inv'
<1>1. CASE Work
  BY <1>1, CallStep, FailStep, WorkStep DEF Work
<1>2. CASE Environment
  <2>1. CASE \E j \in DOMAIN jobs :
               EvidenceArrives(j) \/ \E s \in {"RUNNING"} \cup Terminal : JobMoves(j, s)
    BY <2>1, ProviderStep
  <2>2. CASE Heartbeat \/ Cancel \/ Rollback \/ Restart
    BY <2>2, HeartbeatStep, SignalStep, RestartStep
  <2>3. CASE \E c \in late : LateCall(c)
    BY <2>3, LateStep
  <2> QED BY <1>2, <2>1, <2>2, <2>3 DEF Environment
<1>3. CASE UNCHANGED vars
  <2>1. Sound(wf)'
    BY <1>3 DEF vars, Inv, Sound, Final, Truthful
  <2>2. JobsOK' /\ ActivityOK' /\ KeptOK'
    BY <1>3 DEF vars, Inv, JobsOK, ActivityOK, KeptOK, Final, Truthful
  <2> QED BY <2>1, <2>2 DEF Inv
<1> QED BY <1>1, <1>2, <1>3 DEF Next

LEMMA Invariance == ASSUME Limits PROVE Spec => []Inv
<1>1. Init => Inv
  BY InitOK
<1>2. Inv /\ [Next]_vars => Inv'
  BY NextOK
<1> QED BY <1>1, <1>2, PTL DEF Spec

\* ------------------------------------------------------------------- theorems

\* The status, the pending activity and the provider's jobs stay in range.
THEOREM ExecutionTypeCorrect == ASSUME Limits PROVE Spec => []TypeOK
<1>1. Inv => TypeOK
  <2> SUFFICES ASSUME Inv PROVE TypeOK
    OBVIOUS
  <2>1. wf \in Workflow /\ act \in Activity /\ jobs \in Seq(Job)
    BY DEF Inv, Sound, ActivityOK, JobsOK
  <2>2. hb \in Nat
    BY <2>1 DEF Inv, KeptOK
  <2>3. receipt \in Seen \cup {None} /\ \A c \in late : c \in LateCallType
    BY DEF Inv, KeptOK, Final, Truthful
  <2> QED BY <2>1, <2>2, <2>3 DEF TypeOK, Activity, LateCallType
<1> QED BY <1>1, Invariance, PTL

\* The provider holds at most one job of the execution attempt, however many
\* submit attempts, lost replies and starts of the input there are.
THEOREM OneJobExists == ASSUME Limits PROVE Spec => []OneJobPerAttempt
<1>1. Inv => OneJobPerAttempt
  BY DEF Inv, JobsOK, OneJobPerAttempt
<1> QED BY <1>1, Invariance, PTL

\* The published receipt states what the job ended in, and a completed workflow
\* returns it with a checkpoint of the same observation.
THEOREM ReceiptsAreTrue == ASSUME Limits PROVE Spec => []ReceiptIsTruth
<1>1. Inv => ReceiptIsTruth
  <2> SUFFICES ASSUME Inv PROVE ReceiptIsTruth
    OBVIOUS
  <2>1. ReceiptOfJob
    BY DEF Inv, KeptOK, Final, Truthful, ReceiptOfJob
  <2>2. ResultIsReceipt
    BY DEF Inv, Sound, ResultIsReceipt
  <2> QED BY <2>1, <2>2 DEF ReceiptIsTruth
<1> QED BY <1>1, Invariance, PTL

\* A workflow that ran out of observations has stopped its job.
THEOREM NoJobRunsAway == ASSUME Limits PROVE Spec => []NoRunawayJob
<1>1. Inv => NoRunawayJob
  BY DEF Inv, Sound, NoRunawayJob, Stopping, Terminal
<1> QED BY <1>1, Invariance, PTL
=============================================================================
