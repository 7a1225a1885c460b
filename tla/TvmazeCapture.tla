----------------------------- MODULE TvmazeCapture -----------------------------
(* The two TVmaze connectors, each a command: the snapshot reads the pages of   *)
(* the show index until one is not found; the delta reads the update index in   *)
(* one request, and one bounded window of it show by show.  Shows change        *)
(* between the requests.  An operator who is told the cursors of the windows    *)
(* runs a command for each of them, and each reads the update index again.      *)
EXTENDS CaptureWindows, Integers, SequencesExt

CONSTANTS
  Shows,       \* bound: 1..Shows are the identifiers
  ShowsOnPage, \* a page of the index is a range of so many identifiers
  MaxUpdates,  \* max_updates
  MaxIndexPages, \* max_pages
  ApiAttempts, \* max_attempts of the HTTP fetcher
  MaxShowChanges, \* bound: how often a show changes
  Commands     \* bound: how many commands are run

VARIABLES
  updated, \* when a show was last updated; 0: there is none
  changes, \* how often one changed
  cmd,     \* the running command
  ran,     \* how many were started
  told,    \* the inventory whose windows the operator has been told
  feeds    \* the published captures

tvmazeVars == <<updated, changes, cmd, ran, told, feeds>>

\* steady: the shows that have been there since the command began (a history
\* variable); pages, recs: what it captured; plan: its window.
NoCommand == [pc |-> "none", tries |-> 1, cursor |-> NoCursor, plan |-> <<>>,
              pages |-> 0, recs |-> <<>>, steady |-> {}]

There == {s \in 1..Shows : updated[s] # 0}

TvmazeInit ==
  /\ updated \in [1..Shows -> 0..2]
  /\ changes = 0 /\ ran = 0
  /\ cmd = NoCommand
  /\ told = <<>>
  /\ feeds = {}

\* A show is added, updated or removed.
ShowChange ==
  /\ changes < MaxShowChanges
  /\ changes' = changes + 1
  /\ \E s \in 1..Shows :
       \/ updated' = [updated EXCEPT ![s] = 2 + changes'] /\ UNCHANGED cmd
       \/ /\ updated' = [updated EXCEPT ![s] = 0]
          /\ cmd' = [cmd EXCEPT !.steady = @ \ {s}]
  /\ UNCHANGED <<ran, told, feeds>>

CommandFails ==
  /\ cmd' = NoCommand
  /\ UNCHANGED <<updated, changes, ran, told, feeds>>

\* TVMazeHttpFetcher._fetch: a transient answer is asked again, so often.
ApiFails ==
  /\ cmd.pc \in {"page", "updates", "show"}
  /\ IF cmd.tries < ApiAttempts
     THEN cmd' = [cmd EXCEPT !.tries = @ + 1] /\ UNCHANGED <<updated, changes, ran, told, feeds>>
     ELSE CommandFails

Dies == cmd.pc # "none" /\ CommandFails

Starts(command) ==
  /\ cmd.pc = "none" /\ ran < Commands
  /\ ran' = ran + 1
  /\ cmd' = command
  /\ UNCHANGED <<updated, changes, told, feeds>>

--------------------------------------------------------------------------------
(* capture_tvmaze_show_index                                                    *)

StartSnapshot == Starts([NoCommand EXCEPT !.pc = "page", !.steady = There])

PageOf(s) == (s - 1) \div ShowsOnPage
LastPage == IF There = {} THEN -1 ELSE PageOf(CHOOSE s \in There : \A t \in There : t <= s)

\* The shows of a page, as the response has them.
OnIndexPage(page) == SetToSeq({s \in There : PageOf(s) = page})

\* Mutant: a page without shows is taken for the end.
FetchIndexPageUntilEmpty ==
  /\ cmd.pc = "page"
  /\ IF OnIndexPage(cmd.pages) = <<>> THEN cmd' = [cmd EXCEPT !.pc = "batch", !.tries = 1]
     ELSE cmd' = [cmd EXCEPT !.pages = @ + 1, !.tries = 1,
                             !.recs = @ \o OnIndexPage(cmd.pages)]
  /\ UNCHANGED <<updated, changes, ran, told, feeds>>

\* One page, or the 404 that ends the index.
FetchIndexPage ==
  /\ cmd.pc = "page"
  /\ IF cmd.pages <= LastPage /\ cmd.pages < MaxIndexPages
     THEN /\ cmd' = [cmd EXCEPT !.pages = @ + 1, !.tries = 1,
                                !.recs = @ \o OnIndexPage(cmd.pages)]
          /\ UNCHANGED <<updated, changes, ran, told, feeds>>
     ELSE IF cmd.pages = MaxIndexPages \/ cmd.recs = <<>> THEN CommandFails
     ELSE /\ cmd' = [cmd EXCEPT !.pc = "batch", !.tries = 1]
          /\ UNCHANGED <<updated, changes, ran, told, feeds>>

\* The batch manifest, with the count of the pages.
PublishShowBatch ==
  /\ cmd.pc = "batch"
  /\ cmd' = [cmd EXCEPT !.pc = "records"]
  /\ UNCHANGED <<updated, changes, ran, told, feeds>>

\* The records of the pages, none twice, and last the record set.
PublishShowRecords ==
  /\ cmd.pc = "records"
  /\ IF ToSet(cmd.recs) = {} \/ \E m, n \in DOMAIN cmd.recs : m # n /\ cmd.recs[m] = cmd.recs[n]
     THEN CommandFails
     ELSE /\ feeds' = feeds \cup {[plan |-> <<>>, recs |-> cmd.recs, steady |-> cmd.steady]}
          /\ cmd' = NoCommand
          /\ UNCHANGED <<updated, changes, ran, told>>

--------------------------------------------------------------------------------
(* capture_tvmaze_show_delta                                                    *)

StartDelta ==
  \E cursor \in {NoCursor} \cup
                {Cursor(p) : p \in {p \in ToSet(Windows(told, MaxUpdates)) : told # <<>>}} :
    Starts([NoCommand EXCEPT !.pc = "updates", !.cursor = cursor])

Items == {<<s, updated[s]>> : s \in There}

\* Mutant: the inventory is in the order of the identifiers.
UpdatesById ==
  CHOOSE items \in SetToSeqs(Items) : \A m, n \in DOMAIN items : m < n => items[m][1] < items[n][1]

\* _normalize_tvmaze_updates: by time, then by identifier.
Updates ==
  CHOOSE items \in SetToSeqs(Items) :
    \A m, n \in DOMAIN items : m < n =>
      items[m][2] < items[n][2] \/ (items[m][2] = items[n][2] /\ items[m][1] < items[n][1])

\* plan_tvmaze_delta_windows.
DeltaWindows(updates) == Windows(updates, MaxUpdates)

\* The update index and its windows; without a cursor the operator is told them.
FetchUpdates ==
  /\ cmd.pc = "updates"
  /\ LET plans == DeltaWindows(Updates)
         mine == Selected(plans, cmd.cursor)
     IN  IF mine # {}
         THEN /\ cmd' = [cmd EXCEPT !.pc = "show", !.tries = 1, !.cursor = NoCursor,
                                    !.plan = CHOOSE p \in mine : TRUE]
              /\ UNCHANGED <<updated, changes, ran, told, feeds>>
         ELSE /\ cmd' = NoCommand
              /\ told' = IF cmd.cursor = NoCursor THEN Updates ELSE told
              /\ UNCHANGED <<updated, changes, ran, feeds>>

Fetched == Len(cmd.recs) = cmd.plan.count

\* The current detail of the next show of the window; a 404 becomes a DELETE.
FetchShow ==
  /\ cmd.pc = "show" /\ ~Fetched
  /\ LET item == cmd.plan.items[cmd.plan.offset + Len(cmd.recs) + 1]
         op == IF item[1] \in There THEN "upsert" ELSE "delete"
     IN  cmd' = [cmd EXCEPT !.tries = 1, !.recs = Append(@, [item |-> item, op |-> op])]
  /\ UNCHANGED <<updated, changes, ran, told, feeds>>

\* The watermarks of a window: the update before it, and its last; 0 stands for
\* "since:...", which a window without updates has on both sides.
Before(plan) == IF plan.offset > 0 THEN plan.items[plan.offset][2] ELSE 0
After(plan) == IF plan.count > 0 THEN plan.items[plan.offset + plan.count][2] ELSE 0

PublishDelta ==
  /\ cmd.pc = "show" /\ Fetched
  /\ feeds' = feeds \cup {[plan |-> cmd.plan, recs |-> cmd.recs,
                           before |-> Before(cmd.plan), after |-> After(cmd.plan)]}
  /\ cmd' = NoCommand
  /\ UNCHANGED <<updated, changes, ran, told>>

Running ==
  \/ FetchIndexPage \/ PublishShowBatch \/ PublishShowRecords
  \/ FetchUpdates \/ FetchShow \/ PublishDelta

TvmazeNext == ShowChange \/ ApiFails \/ Dies \/ StartSnapshot \/ StartDelta \/ Running

TvmazeSpec == TvmazeInit /\ [][TvmazeNext]_tvmazeVars

\* A command that was started goes on.
TvmazeFair == WF_tvmazeVars(Running)

--------------------------------------------------------------------------------
(* Properties                                                                   *)

Snapshots == {f \in feeds : f.plan = <<>>}
Deltas == feeds \ Snapshots

\* A snapshot, whose gaps are deletions downstream (SNAPSHOT_DIFF), lacks no show
\* that was there while it was captured.
SnapshotIsWhole == \A f \in Snapshots : f.steady \subseteq ToSet(f.recs)

\* Windows of one inventory, captured by commands that each read it again, have
\* its updates in one record each, and each goes on from the watermark at which
\* the one before it stopped, with every update between its two watermarks.
WindowsAbut ==
  \A f \in Deltas :
    /\ [n \in DOMAIN f.recs |-> f.recs[n].item] = Slice(f.plan)
    /\ \A n \in DOMAIN f.recs : f.recs[n].item[2] \in f.before..f.after
    /\ \A g \in Deltas :
         f.plan.items = g.plan.items /\ g.plan.index = f.plan.index + 1 => g.before = f.after

TvmazeRests == cmd.pc = "none"
================================================================================
