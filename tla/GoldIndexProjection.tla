-------------------------- MODULE GoldIndexProjection --------------------------
(* GoldIndexProjectionWorkflow over the builder: an activity looks for a       *)
(* result, launches the builder as a Kubernetes Job, one at a time, and waits  *)
(* for it; another validates the index independently.  Beside it, operators    *)
(* run the builder by hand, and the read alias moves.                          *)
EXTENDS GoldIndexBuild

CONSTANTS
  LaunchAttempts,    \* maximum_attempts of the launching activity
  ValidateAttempts,  \* and of the validating one
  LaunchRace,        \* others may launch between the listing of Jobs and the creation
  StaleReceipts,     \* an incremental build may find receipts and no index
  Flaws              \* what may be wrong with a submission

ASSUME ProjectionConstants ==
  /\ LaunchAttempts \in Nat \ {0} /\ ValidateAttempts \in Nat \ {0}
  /\ {LaunchRace, StaleReceipts} \subseteq BOOLEAN

VARIABLES
  byHand,     \* how operators run the builder: {"FULL"}, {"INCREMENTAL"}, or not
  jobs,       \* Jobs that Kubernetes knows, by the run they belong to
  validated,  \* the validation receipt that is stored, or None
  wf          \* the workflows, each with the run it would launch and its input

vars == <<buildVars, byHand, jobs, validated, wf>>

Init ==
  /\ BuildInit
  /\ byHand \in {{}, {"FULL"}, {"INCREMENTAL"}}
  /\ jobs = {} /\ validated = None
  /\ \E flawed \in [Runs -> {{}} \cup {{f} : f \in Flaws}] :
       wf = [w \in Runs |-> [pc |-> "idle", left |-> 0, flaws |-> flawed[w]]]

\* The name of a Job is made of the projection, as the place of its result.
SameName(v, w) == ResultUri[v] = ResultUri[w]

To(w, pc) == wf' = [wf EXCEPT ![w].pc = pc]

\* Mutant: attempts are not counted.
RetryForEver(w, first) == To(w, first)

\* The attempt raised; the activity starts over while attempts remain.
Retry(w, first) ==
  IF wf[w].left > 0 THEN wf' = [wf EXCEPT ![w].pc = first, ![w].left = @ - 1]
                    ELSE To(w, "failed")

Start(w) ==
  /\ byHand = {} /\ wf[w].pc = "idle"
  /\ wf' = [wf EXCEPT ![w].pc = "lookup", ![w].left = LaunchAttempts - 1]
  /\ UNCHANGED <<buildVars, byHand, jobs, validated>>

Validating(w) == wf' = [wf EXCEPT ![w].pc = "validate", ![w].left = ValidateAttempts - 1]

\* _validate_input
ValidInput(w) == wf[w].flaws = {}

\* _discover_ref and _discover_optional_ref: what is stored where the result of the
\* projection goes.
Found(w) == {r \in results : SameName(r, w)}

\* A result of an earlier launch of the projection is taken instead of a Job.
LookUp(w) ==
  /\ wf[w].pc = "lookup"
  /\ IF ~ValidInput(w) THEN Retry(w, "lookup")
     ELSE IF Found(w) # {} THEN Validating(w) ELSE To(w, "list")
  /\ UNCHANGED <<buildVars, byHand, jobs, validated>>

Alone(w) == \A j \in jobs : SameName(j, w) \/ ~Underway(j)

\* assert_no_other_active_builder.
ListJobs(w) ==
  /\ wf[w].pc = "list"
  /\ IF Alone(w) THEN To(w, "create") ELSE Retry(w, "lookup")
  /\ UNCHANGED <<buildVars, byHand, jobs, validated>>

\* create_or_get_job: a Job of that name is taken when its digest, in which the
\* start of the workflow goes, is the same.
CreateJob(w) ==
  /\ wf[w].pc = "create"
  /\ LaunchRace \/ Alone(w)
  /\ IF \E j \in jobs : SameName(j, w)
     THEN /\ IF w \in jobs THEN To(w, "wait") ELSE Retry(w, "lookup")
          /\ UNCHANGED <<buildVars, jobs>>
     ELSE /\ jobs' = jobs \cup {w}
          /\ Begin(w, "FULL")
          /\ To(w, "wait") \/ Retry(w, "lookup")   \* the answer may be lost
  /\ UNCHANGED <<byHand, validated>>

\* Mutant: the launcher does not wait for the Job's end.
WaitForPod(w) ==
  /\ wf[w].pc = "wait"
  /\ IF bld[w].pc = "failed" THEN To(w, "failed") ELSE Validating(w)
  /\ UNCHANGED <<buildVars, byHand, jobs, validated>>

\* A Job that failed is no reason for a retry; one that succeeded has a result.
WaitForJob(w) ==
  /\ wf[w].pc = "wait" /\ ~Underway(w)
  /\ IF bld[w].pc # "done" THEN To(w, "failed")
     ELSE IF Found(w) # {} THEN Validating(w) ELSE Retry(w, "lookup")
  /\ UNCHANGED <<buildVars, byHand, jobs, validated>>

\* heartbeat_timeout or start_to_close_timeout of the current attempt.
TimesOut(w) ==
  /\ \/ wf[w].pc \in {"lookup", "list", "create", "wait"} /\ Retry(w, "lookup")
     \/ wf[w].pc = "validate" /\ Retry(w, "validate")
  /\ UNCHANGED <<buildVars, byHand, jobs, validated>>

\* ttlSecondsAfterFinished is longer than any workflow waits.
JobExpires(j) ==
  /\ j \in jobs /\ ~Underway(j) /\ wf[j].pc # "wait"
  /\ jobs' = jobs \ {j}
  /\ UNCHANGED <<buildVars, byHand, validated, wf>>

\* GoldIndexValidationReceipt, one for each build: it says when its workflow came
\* to validate it.
ValidationReceipt(w) == [build |-> manifest.by, documents |-> manifest.documents, by |-> w]

\* validate_gold_index_build
Validate(w) ==
  /\ wf[w].pc = "validate"
  /\ IF /\ manifest # None /\ ContentsValid(manifest.documents)
        /\ validated \in {None, ValidationReceipt(w)}
     THEN validated' = ValidationReceipt(w) /\ (To(w, "done") \/ Retry(w, "validate"))
     ELSE Retry(w, "validate") /\ UNCHANGED validated
  /\ UNCHANGED <<buildVars, byHand, jobs>>

\* Operators run one builder at a time, incremental or not, until it has a result.
RunByHand(r) ==
  /\ results = {}
  /\ \A q \in Runs : ~Underway(q)
  /\ \A q \in 1..(r - 1) : bld[q].pc # "idle"
  /\ \E mode \in byHand : Begin(r, mode)
  /\ UNCHANGED <<byHand, jobs, validated, wf>>

\* The workflow's last activity, called by the operator.
ValidateByHand(r) ==
  /\ byHand # {} /\ r \in results /\ validated = None
  /\ ContentsValid(manifest.documents)
  /\ validated' = ValidationReceipt(r)
  /\ UNCHANGED <<buildVars, byHand, jobs, wf>>

\* The alias goes to a validated index, or to that of another release.
MoveAlias ==
  /\ \/ validated # None /\ serving = "base" /\ ContentsValid(Cardinality(TargetKeys)) /\ serving' = "target"
     \/ serving' = "other" /\ serving # "other"
  /\ UNCHANGED <<affected, index, receipts, manifest, results, bld, byHand, jobs, validated, wf>>

Workflow(w) ==
  LookUp(w) \/ ListJobs(w) \/ CreateJob(w) \/ WaitForJob(w) \/ Validate(w)

\* A run starts an index over that has left receipts behind.
StartsOver ==
  \E r \in Runs : bld[r].mode = "INCREMENTAL" /\ bld[r].pc = "ensure"
                  /\ ~index.exists /\ index'.exists /\ receipts # {}

Build ==
  /\ BuildStep
  /\ StartsOver => StaleReceipts
  /\ UNCHANGED <<byHand, jobs, validated, wf>>

Next ==
  \/ Build \/ MoveAlias
  \/ \E w \in Runs : Start(w) \/ Workflow(w) \/ TimesOut(w) \/ JobExpires(w)
                     \/ RunByHand(w) \/ ValidateByHand(w)

Spec == Init /\ [][Next]_vars

\* activeDeadlineSeconds ends a Job that hangs, start_to_close_timeout an attempt.
Fair ==
  \A w \in Runs :
    /\ WF_vars(Workflow(w)) /\ WF_vars(TimesOut(w))
    /\ WF_vars((Builds(w) \/ Killed(w)) /\ UNCHANGED <<byHand, jobs, validated, wf>>)
FairSpec == Spec /\ Fair

-----------------------------------------------------------------------------
(* Properties                                                                  *)

IndexIsRelease == index.exists /\ index.mapped /\ index.docs = Release

\* A stored result names an index that holds the release, every document with
\* its text, also after runs that raised or were killed half way and whose
\* receipts a later one believed ("A retry may skip a partition only after
\* recomputing and matching its receipt"), and until nobody builds it again.
ResultIsRelease == results # {} => IndexIsRelease

\* The read alias is never on an index that lacks a document or has a stale one,
\* and cleanup_failed_gold_index never takes it away.
ServedIsRelease == serving = "target" => IndexIsRelease

\* A projection ends although Jobs hang and attempts time out.
ProjectionEnds == \A w \in Runs : wf[w].pc # "idle" ~> wf[w].pc \in {"done", "failed"}
=============================================================================
