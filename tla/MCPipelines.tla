------------------------------ MODULE MCPipelines ------------------------------
(* One Temporal workflow in a behaviour: a Golden Build or the Source Silver    *)
(* batches of the TMDB pipeline, of two stages the first of which a reused      *)
(* result may stand for; a research domain; a Catalog execution with signals,   *)
(* started again while the evidence of its job grows; or the captures with      *)
(* which the TMDB pipeline begins.                                              *)
EXTENDS EmrPipeline

CONSTANTS
  Sources, Budgets, Bounds, Attempts, Fires,   \* ResearchDomain
  MaxObservations, MaxTries, MaxRuns,          \* CatalogExecution
  Kinds, Ids, ChangedPage, MaxPagesRead, MaxChangedIds, MaxShards,  \* TmdbCapture
  MaxRequests, DayAttempts, MaxMoves

ASSUME PipelinesConstants ==
  Sources \in Nat /\ Fires \in Nat \ {0} /\ MaxObservations \in Nat /\ MaxTries \in Nat \ {0}

VARIABLES
  cast,
  input, fire, dom, child, queued, slot, silverJobs, goldens, gone,
  exec, act, hb, late, runs, receipt,
  live, moves, day, sync

execution == <<exec, act, hb, late, runs, receipt>>
domain == <<input, fire, dom, child, queued, slot, silverJobs, goldens, gone>>
tmdb == <<live, moves, day, sync>>
mcVars == <<cast, vars, domain, execution, tmdb>>

RD == INSTANCE ResearchDomain WITH jobs <- silverJobs, golden <- goldens, lost <- gone

EI == INSTANCE ExecutionInputs

\* An execution and a transfer that are accepted, and what is wrong with either;
\* an image that activates P3 and P4, and what it may lack.
MCInputs ==
  LET ref(store, key) == [tenant |-> "own", store |-> store, key |-> key, bytes |-> 1]
      local == <<ref("AWS_S3", 1), ref("AWS_S3", 2)>>
      there == <<ref("ALIBABA_OSS", 1)>>
      plain == [objects |-> local, kind |-> "EXECUTION", transfer |-> EI!NoTransfer,
                profile |-> EI!SparkProviderProfile("AWS", FALSE, 2), target |-> "AWS_S3"]
      moved == [plain EXCEPT !.objects = there, !.kind = "TRANSFER", !.profile.transferOnly = TRUE,
                             !.transfer = [from |-> "ALIYUN", to |-> "AWS", sources |-> there]]
  IN  {plain, moved, [plain EXCEPT !.objects = there], [plain EXCEPT !.profile.maxBytes = 1],
       [plain EXCEPT !.objects[2].tenant = "other"], [plain EXCEPT !.objects[2].key = 1],
       [plain EXCEPT !.target = "ALIBABA_OSS"], [plain EXCEPT !.kind = "TRANSFER"],
       [moved EXCEPT !.transfer.sources = local], [moved EXCEPT !.transfer = EI!NoTransfer]}
MCLocks ==
  LET whole == [p3 |-> TRUE, p4 |-> TRUE, active |-> TRUE, clouds |-> EI!Clouds]
  IN  {whole, [whole EXCEPT !.p3 = FALSE], [whole EXCEPT !.p4 = FALSE],
       [whole EXCEPT !.active = FALSE], [whole EXCEPT !.clouds = {"ALIYUN"}]}

CE == INSTANCE CatalogExecutionProps WITH
  wf <- exec, jobs <- runs, MaxAttempts <- MaxTries, Locks <- MCLocks, Inputs <- MCInputs

TC == INSTANCE TmdbCapture
MCKinds == <<"movie", "tv">>

MCInit ==
  /\ cast \in {"pipeline", "domain", "tmdb", "execution"}
  /\ Init /\ RD!Init /\ CE!Init
  /\ IF cast = "tmdb" THEN TC!TmdbInit
     ELSE live = <<>> /\ moves = 0 /\ day = [pc |-> "none"] /\ sync = TC!NoCall
  /\ cast # "pipeline" => ~golden
  /\ cast # "domain" => input = CHOOSE x \in [budget : Budgets, bound : Bounds] : TRUE

Signals == CE!Cancel \/ CE!Rollback
Restarts == CE!Restart \/ \E j \in DOMAIN runs : CE!EvidenceArrives(j)
Provider ==
  \/ \E j \in DOMAIN runs, s \in {"RUNNING"} \cup CE!Terminal : CE!JobMoves(j, s)
  \/ CE!Heartbeat
  \/ \E c \in late : CE!LateCall(c)

MCNext ==
  \/ cast = "pipeline" /\ Next /\ UNCHANGED <<cast, domain, execution, tmdb>>
  \/ cast = "domain" /\ RD!Next /\ UNCHANGED <<cast, vars, execution, tmdb>>
  \/ /\ cast = "execution" /\ (CE!Work \/ Signals \/ Restarts \/ Provider)
     /\ UNCHANGED <<cast, vars, domain, tmdb>>
  \/ cast = "tmdb" /\ TC!TmdbNext /\ UNCHANGED <<cast, vars, domain, execution>>
  \/ cast = "tmdb" /\ day.pc \in {"done", "failed"} /\ UNCHANGED mcVars
  \/ cast = "execution" /\ CE!Ended /\ UNCHANGED mcVars

\* The fairness of the modules, each where its workflow is there.
MCSpec ==
  /\ MCInit /\ [][MCNext]_mcVars
  /\ WF_vars(cast = "pipeline" /\ (Prepare \/ StageDone \/ Summarise)) /\ WF_vars(Server)
  /\ RD!Fair
  /\ WF_execution(cast = "execution" /\ CE!Work)
  /\ WF_tmdb(cast = "tmdb" /\ TC!Capturing)

\* A stage's result is its successful job's, and the capture of a day, of however
\* many windows, that of one whole inventory.
ResultsAreWhole == ResultsOfSuccess /\ (cast = "tmdb" => TC!WindowIsCovered)

\* A domain's Golden Build gets the runs of all its sources.
GoldenOfAllSources == RD!GoldenOfAllSources
\* At most one live job: of a build over the attempts of its stages, of the Silver
\* children over sources and runs of the schedule, of an execution attempt at its
\* provider.
OneJob == OneJobAtATime /\ RD!OneSilverJob /\ CE!OneJobPerAttempt
\* A true receipt, and no job left running.
ReceiptIsTruth == CE!ReceiptIsTruth
NoRunawayJob == CE!NoRunawayJob
\* Pipelines and their captures, domains and executions end.
WorkflowsEnd ==
  /\ cast = "pipeline" => BuildEnds
  /\ RD!DomainEnds
  /\ cast = "execution" => CE!WorkflowEnds
  /\ cast = "tmdb" => TC!CaptureEnds
================================================================================
