------------------------ MODULE CatalogExecutionProps ------------------------
(* What one Catalog execution attempt promises to the Platform.              *)
EXTENDS CatalogExecution

States == {"PENDING", "RUNNING", "CANCELLING"} \cup Terminal
Job == [token : Nat, state : States, evidence : {0, 1}]
Seen == [job : Nat \ {0}, state : States, resource : {"PARTIAL", "COMPLETE"},
         cost : {"UNAVAILABLE", "PROVIDER_REPORTED"}]
Checkpoint == [seen : Seen, obs : Nat, cancel : BOOLEAN, rollback : BOOLEAN]
Places == Activities \cup {"prepare", "sleep", "done", "failed"}
Workflow ==
  [pc : Places, run : Nat, obs : 0..MaxObservations, job : Nat,
   state : Terminal \cup {"PREPARING", "SUBMITTING", "RECONCILING", "RUNNING",
                          "CANCELLING", "ROLLING_BACK"},
   cancelReq : BOOLEAN, rollbackReq : BOOLEAN, cancelSent : BOOLEAN,
   seen : Seen \cup {None}, ckpt : Checkpoint \cup {None},
   why : Activities \cup {"none", "prepare", "budget"}]

\* TypeOK: the status, the pending activity and the provider's jobs stay in range.
TypeOK ==
  /\ wf \in Workflow
  /\ act \in [n : 1..MaxAttempts, phase : {"queued", "replied", "refused"},
              job : Nat, seen : Seen \cup {None}]
  /\ hb \in Nat
  /\ \A c \in late : c \in [kind : Activities, n : Nat, job : Nat, seen : Seen \cup {None}]
  /\ jobs \in Seq(Job)
  /\ receipt \in Seen \cup {None}

\* However many submit attempts, lost replies and restarts there are, the
\* provider holds at most one job for the execution attempt.
OneJobPerAttempt == Len(jobs) <= 1

\* The receipt states what the provider's job really ended in, never what a
\* submit or cancel acknowledgement suggested.
ReceiptOfJob ==
  receipt # None => /\ receipt.state \in Terminal
                    /\ jobs[receipt.job].state = receipt.state

\* A completed workflow returns the stored receipt and a recovery checkpoint of
\* the very observation the receipt is about.
ResultIsReceipt ==
  wf.pc = "done" => /\ receipt = wf.seen
                    /\ wf.ckpt.seen = wf.seen
                    /\ wf.ckpt.obs = wf.obs
                    /\ wf.state = receipt.state

\* Both, whatever attempts of publish_completion_receipt were lost.
ReceiptIsTruth == ReceiptOfJob /\ ResultIsReceipt

\* A workflow that ran out of observations has stopped its job, also when the
\* signal came in the last poll interval.
NoRunawayJob ==
  wf.pc = "failed" /\ wf.why = "budget" => jobs[wf.job].state \notin {"PENDING", "RUNNING"}

\* Every run ends: the observation budget and the retry policies bound it even
\* if the job never does.
WorkflowEnds == wf.pc = "prepare" ~> Ended
=============================================================================
