---------------------------- MODULE ResearchDomain ----------------------------
(* ResearchDomainWorkflow: for one source after the other a child workflow     *)
(* admits its pinned capture and another runs the Source Silver job of its     *)
(* batches; when all sources have succeeded a Golden Build gets their runs.    *)
(* The workflow counts failures against a budget and continues as new with     *)
(* what it has collected.  A schedule starts it again and again; one Silver    *)
(* worker runs one activity at a time.                                         *)
EXTENDS Integers, FiniteSets, Sequences

CONSTANTS
  Sources,      \* number of sources of the profile
  Budgets,      \* failure_budget, one of these, in 1..Sources
  Bounds,       \* continue_as_new_after_sources, one of these, positive
  Attempts,     \* maximum_attempts of a source's activities
  Fires         \* bound: how often the schedule fires

VARIABLES
  input,    \* the budget and the bound of the profile
  fire,     \* the schedule's runs so far
  dom,      \* the domain workflow
  child,    \* the child it awaits
  queued,   \* the Silver activity: attempt to be handed out, 0 for none
  slot,     \* what the Silver worker does
  jobs,     \* <<fire, source>> -> the EMR job of that source's child
  golden,   \* fire -> the sources whose runs its Golden Build was given
  lost      \* a worker has died, or EMR has not answered

vars == <<input, fire, dom, child, queued, slot, jobs, golden, lost>>

Awaiting == {"capture", "silver", "golden"}
Ended == {"completed", "failed", "cancelled"}

Started == [pc |-> "next", index |-> 1, here |-> 0, done |-> <<>>, failed |-> <<>>, stop |-> FALSE]
NoChild == [kind |-> "none", state |-> "none"]
Free == [key |-> <<0, 0>>, attempt |-> 0, pc |-> "free"]

Init ==
  /\ input \in [budget : Budgets, bound : Bounds]
  /\ fire = 1 /\ dom = Started /\ child = NoChild
  /\ queued = 0 /\ slot = Free
  /\ jobs = [k \in (1..Fires) \X (1..Sources) |-> "none"]
  /\ golden = [f \in 1..Fires |-> {}] /\ lost = FALSE

Key == <<fire, dom.index>>

-----------------------------------------------------------------------------
(* The workflow                                                                *)

Awaits(kind) == dom.pc = kind /\ child.kind = kind

\* A source begins with the child that admits its capture.
StartCapture ==
  /\ dom.pc = "next" /\ dom.index <= Sources
  /\ dom' = [dom EXCEPT !.pc = "capture"]
  /\ child' = [kind |-> "capture", state |-> "open"]
  /\ UNCHANGED <<input, fire, queued, slot, jobs, golden, lost>>

\* LoadPinnedResearchCapture: the manifest is the pinned one and is about this
\* profile, or the capture fails, by its timeout too.
CaptureEnds ==
  /\ Awaits("capture") /\ child.state = "open"
  /\ child' \in {[child EXCEPT !.state = s] : s \in {"ok", "failed"}}
  /\ UNCHANGED <<input, fire, dom, queued, slot, jobs, golden, lost>>

StartSilver ==
  /\ Awaits("capture") /\ child.state = "ok" /\ ~dom.stop
  /\ dom' = [dom EXCEPT !.pc = "silver"]
  /\ child' = [kind |-> "silver", state |-> "open"]
  /\ queued' = 1
  /\ UNCHANGED <<input, fire, slot, jobs, golden, lost>>

\* A new execution starts with what is collected, or this one goes on.
Continued(d) ==
  [d EXCEPT !.pc = "next", !.index = @ + 1,
            !.here = IF @ + 1 >= input.bound /\ d.index < Sources THEN 0 ELSE @ + 1]

SourceDone ==
  /\ Awaits("silver") /\ child.state = "ok" /\ ~dom.stop
  /\ dom' = Continued([dom EXCEPT !.done = Append(@, dom.index)])
  /\ child' = NoChild
  /\ UNCHANGED <<input, fire, queued, slot, jobs, golden, lost>>

\* Mutant: a new execution forgets the failures of the one before.
SourceForgotten ==
  /\ dom.pc \in {"capture", "silver"} /\ child.state = "failed"
  /\ dom' = IF Len(dom.failed) + 1 >= input.budget
            THEN [dom EXCEPT !.pc = IF dom.stop THEN "cancelled" ELSE "failed"]
            ELSE [Continued([dom EXCEPT !.failed = Append(@, dom.index)]) EXCEPT
                    !.failed = IF dom.here + 1 >= input.bound THEN <<>> ELSE Append(dom.failed, dom.index)]
  /\ child' = NoChild
  /\ UNCHANGED <<input, fire, queued, slot, jobs, golden, lost>>

\* A source fails: the budget is used up, or the next source is tried.  A
\* cancelled child is such a failure, and below the budget the workflow goes on.
SourceFails ==
  /\ dom.pc \in {"capture", "silver"} /\ child.state = "failed"
  /\ dom' = IF Len(dom.failed) + 1 >= input.budget
            THEN [dom EXCEPT !.pc = IF dom.stop THEN "cancelled" ELSE "failed"]
            ELSE Continued([dom EXCEPT !.failed = Append(@, dom.index)])
  /\ child' = NoChild
  /\ UNCHANGED <<input, fire, queued, slot, jobs, golden, lost>>

\* All sources are tried.  The RuntimeError after a failure is no workflow
\* failure: the task is retried until the execution's timeout.
Exhaust ==
  /\ dom.pc = "next" /\ dom.index > Sources
  /\ IF dom.failed # <<>>
     THEN dom' = [dom EXCEPT !.pc = "stuck"] /\ UNCHANGED <<child, golden>>
     ELSE /\ dom' = [dom EXCEPT !.pc = "golden"]
          /\ child' = [kind |-> "golden", state |-> "open"]
          /\ golden' = [golden EXCEPT ![fire] = {dom.done[n] : n \in DOMAIN dom.done}]
  /\ UNCHANGED <<input, fire, queued, slot, jobs, lost>>

GoldenEnds ==
  /\ Awaits("golden")
  /\ \E how \in {"completed", "failed"} :
       dom' = [dom EXCEPT !.pc = IF how = "failed" /\ dom.stop THEN "cancelled" ELSE how]
  /\ child' = NoChild
  /\ UNCHANGED <<input, fire, queued, slot, jobs, golden, lost>>

\* A cancellation is passed on to the child, whose failure comes back; a child
\* that has ended raises it here.
Cancel ==
  /\ dom.pc \in Awaiting /\ ~dom.stop
  /\ dom' = [dom EXCEPT !.stop = TRUE, !.pc = IF child.state = "ok" THEN "cancelled" ELSE @]
  /\ child' = IF child.state = "ok" THEN NoChild
              ELSE IF child.kind \in {"capture", "silver"} THEN [child EXCEPT !.state = "failed"] ELSE child
  /\ queued' = 0
  /\ UNCHANGED <<input, fire, slot, jobs, golden, lost>>

\* execution_timeout of the domain workflow: its children end with it.
ExecutionTimesOut ==
  /\ dom.pc \in Awaiting \cup {"stuck"}
  /\ dom' = [dom EXCEPT !.pc = "failed"]
  /\ child' = NoChild /\ queued' = 0
  /\ UNCHANGED <<input, fire, slot, jobs, golden, lost>>

\* The schedule skips while a run is open (ScheduleOverlapPolicy.SKIP).
Fire ==
  /\ dom.pc \in Ended /\ fire < Fires
  /\ fire' = fire + 1 /\ dom' = Started
  /\ UNCHANGED <<input, child, queued, slot, jobs, golden, lost>>

-----------------------------------------------------------------------------
(* The Silver activity: SubmitSourceSilverBundle on its worker                 *)

Current == Awaits("silver") /\ child.state = "open" /\ slot.key = Key /\ slot.attempt = queued

\* The attempt is over: the next one is handed out while attempts remain.
NextAttempt ==
  IF queued < Attempts THEN queued' = queued + 1 /\ UNCHANGED child
  ELSE queued' = 0 /\ child' = [child EXCEPT !.state = "failed"]

\* The worker takes the activity and submits the job, under a token that names
\* the plan and the child's run: a later attempt finds it again.
Take ==
  /\ slot = Free /\ Awaits("silver") /\ child.state = "open" /\ queued # 0
  /\ slot' = [key |-> Key, attempt |-> queued, pc |-> "poll"]
  /\ jobs' = [jobs EXCEPT ![Key] = IF @ = "none" THEN "running" ELSE @]
  /\ UNCHANGED <<input, fire, dom, child, queued, golden, lost>>

\* Mutant: an attempt that was given up just ends.
LeaveJob ==
  /\ slot.pc = "poll" /\ ~Current
  /\ slot' = Free
  /\ UNCHANGED <<input, fire, dom, child, queued, jobs, golden, lost>>

\* An attempt that the server has given up cancels its job, when EMR answers,
\* and frees the worker.
GiveUp ==
  /\ slot.pc = "poll" /\ ~Current
  /\ slot' = Free
  /\ \/ jobs' = [jobs EXCEPT ![slot.key] = IF @ = "running" THEN "cancelled" ELSE @] /\ UNCHANGED lost
     \/ lost' = TRUE /\ UNCHANGED jobs
  /\ UNCHANGED <<input, fire, dom, child, queued, golden>>

\* The job has ended: the summaries of a successful one, which may be refused,
\* are the result; the failure of one is retried.
Poll ==
  /\ slot.pc = "poll" /\ Current /\ jobs[slot.key] # "running"
  /\ slot' = Free
  /\ \/ jobs[slot.key] = "success" /\ child' = [child EXCEPT !.state = "ok"] /\ queued' = 0
     \/ jobs[slot.key] = "success" /\ child' = [child EXCEPT !.state = "failed"] /\ queued' = 0
     \/ jobs[slot.key] # "success" /\ NextAttempt
  /\ UNCHANGED <<input, fire, dom, jobs, golden, lost>>

JobEnds(k) ==
  /\ jobs[k] = "running"
  /\ \E how \in {"success", "failed"} : jobs' = [jobs EXCEPT ![k] = how]
  /\ UNCHANGED <<input, fire, dom, child, queued, slot, golden, lost>>

\* heartbeat_timeout or start_to_close_timeout of the attempt, or the
\* execution timeout of the child.
AttemptTimesOut ==
  /\ Awaits("silver") /\ child.state = "open"
  /\ NextAttempt \/ (queued' = 0 /\ child' = [child EXCEPT !.state = "failed"])
  /\ UNCHANGED <<input, fire, dom, slot, jobs, golden, lost>>

WorkerDies ==
  /\ slot # Free
  /\ slot' = Free /\ lost' = TRUE
  /\ UNCHANGED <<input, fire, dom, child, queued, jobs, golden>>

-----------------------------------------------------------------------------
Server == AttemptTimesOut \/ ExecutionTimesOut \/ Fire
Flow == StartCapture \/ CaptureEnds \/ StartSilver \/ SourceDone \/ SourceFails \/ Exhaust \/ GoldenEnds
Worker == Take \/ GiveUp \/ Poll \/ WorkerDies

\* The last run and all it has left behind have ended.
Rests ==
  /\ fire = Fires /\ dom.pc \in Ended /\ slot = Free
  /\ \A k \in DOMAIN jobs : jobs[k] # "running"
  /\ UNCHANGED vars

Next == Flow \/ Server \/ Worker \/ Cancel \/ Rests \/ \E k \in DOMAIN jobs : JobEnds(k)

Spec == Init /\ [][Next]_vars

\* Workflow tasks are dispatched, and the executions' timeouts elapse.
Fair == WF_vars(dom # Started /\ Flow) /\ WF_vars(AttemptTimesOut) /\ WF_vars(ExecutionTimesOut)
FairSpec == Spec /\ Fair

-----------------------------------------------------------------------------
(* Properties                                                                  *)

\* The Golden Build of a run gets Silver runs of every source of the profile,
\* each of a job that has succeeded, also when sources were tried again, failed
\* within the budget, and executions continued as new.
GoldenOfAllSources ==
  \A f \in 1..Fires : golden[f] # {} =>
    /\ golden[f] = 1..Sources
    /\ \A s \in golden[f] : jobs[<<f, s>>] = "success"

\* While no worker dies and EMR answers, no two Silver jobs run at a time, of
\* sources given up and of runs of the schedule included ("max-silver-activities
\* must be 1 to protect Iceberg commits").
OneSilverJob ==
  ~lost => \A k, l \in DOMAIN jobs : jobs[k] = "running" /\ jobs[l] = "running" => k = l

\* Each run of a domain ends.
DomainEnds == dom.pc \in Awaiting ~> dom.pc \in Ended
=============================================================================
