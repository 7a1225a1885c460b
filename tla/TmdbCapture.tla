------------------------------ MODULE TmdbCapture ------------------------------
(* The capture half of TmdbCaptureSilverWorkflow: the token is validated, then *)
(* CaptureTmdbDay captures either the daily ID exports or the changes of a day.*)
(* The changed IDs are listed page by page from an index that moves while it   *)
(* is read; more of them than one capture may hold are split into windows, and *)
(* every window is captured by a call that lists the index again.              *)
EXTENDS CaptureWindows, FiniteSets, SequencesExt

CONSTANTS
  Kinds,         \* TMDB_ENTITY_KINDS, a sequence
  Ids,           \* bound: 1..Ids are the identifiers of each kind
  ChangedPage,   \* how many identifiers the index puts on a page
  MaxPagesRead,  \* max_change_pages
  MaxChangedIds, \* max_changed_ids
  MaxShards,     \* max_change_shards
  MaxRequests,   \* max_attempts of the HTTP client
  DayAttempts,   \* maximum_attempts of the activity
  MaxMoves       \* bound: how often the index changes

VARIABLES
  live,      \* the index: a sequence of identifiers for each kind
  moves,     \* how often it changed
  day,       \* the activity: attempt, position, windows to capture, results
  sync       \* its running capture_tmdb_changes call

tmdbVars == <<live, moves, day, sync>>

\* tries: requests of the running fetch; kind, page: what is listed next;
\* changed: the identifiers listed; plan: the window; recs: its records.
Call(cursor) ==
  [pc |-> "list", cursor |-> cursor, tries |-> 1, kind |-> 1, page |-> 1,
   changed |-> {}, plan |-> <<>>, recs |-> <<>>]
NoCall == [Call(NoCursor) EXCEPT !.pc = "none"]

Queued(n) == [day EXCEPT !.pc = "queued", !.n = n, !.cursors = <<>>, !.results = <<>>]

\* What the index may hold of a kind, in an order of its own.
Listings == {s \in UNION {[1..n -> 1..Ids] : n \in 0..Ids} : Cardinality(ToSet(s)) = Len(s)}

TmdbInit ==
  /\ live \in [DOMAIN Kinds -> Listings]
  /\ moves = 0
  /\ \/ day = [unit |-> "inventory", pc |-> "queued", n |-> 1, cursors |-> <<>>, results |-> <<>>]
     \/ day = [unit |-> "changes", pc |-> "token", n |-> 1, cursors |-> <<>>, results |-> <<>>]
  /\ sync = NoCall

\* Records of a kind change, or their changes leave the index.
IndexMoves ==
  /\ moves < MaxMoves /\ day.pc \notin {"done", "failed"}
  /\ \E k \in DOMAIN Kinds, s \in Listings : live[k] # s /\ live' = [live EXCEPT ![k] = s]
  /\ moves' = moves + 1
  /\ UNCHANGED <<day, sync>>

--------------------------------------------------------------------------------
(* The activity and its failures                                                *)

\* classify_capture_exception: a ValueError is final, any other error is retried.
DayFails(retryable) ==
  /\ day' = IF retryable /\ day.n < DayAttempts THEN Queued(day.n + 1)
            ELSE [Queued(day.n) EXCEPT !.pc = "failed"]
  /\ sync' = NoCall
  /\ UNCHANGED <<live, moves>>

\* validate_tmdb_token, an activity of its own with its own attempts.
ValidateToken ==
  /\ day.pc = "token"
  /\ \/ /\ day' = Queued(1)
        /\ UNCHANGED <<live, moves, sync>>
     \/ DayFails(FALSE)

\* capture_tmdb_daily_exports: a file for each kind, none of them empty.
CaptureExports ==
  /\ day.pc = "queued" /\ day.unit = "inventory"
  /\ \/ DayFails(TRUE)
     \/ \E rows \in [DOMAIN Kinds -> 0..1] :
          IF \E k \in DOMAIN Kinds : rows[k] = 0 THEN DayFails(FALSE)
          ELSE LET batch == [plan |-> <<>>,
                             recs |-> [k \in DOMAIN Kinds |-> [key |-> <<k, rows[k]>>, op |-> "upsert"]]]
               IN  /\ day' = [day EXCEPT !.pc = "done", !.results = <<batch>>]
                   /\ UNCHANGED <<live, moves, sync>>

\* _run_all_change_shards: first one call without a cursor.
FirstCall ==
  /\ day.pc = "queued" /\ day.unit = "changes"
  /\ day' = [day EXCEPT !.pc = "first"]
  /\ sync' = Call(NoCursor)
  /\ UNCHANGED <<live, moves>>

\* The next window's call, or the results of all.
NextCall ==
  /\ day.pc = "shards" /\ sync.pc = "none"
  /\ LET n == Len(day.results)
     IN  IF n < Len(day.cursors)
         THEN sync' = Call(day.cursors[n + 1]) /\ UNCHANGED <<live, moves, day>>
         ELSE IF \A k \in 1..n : day.results[k].plan.shards = n /\ day.results[k].plan.index = k - 1
              THEN /\ day' = [day EXCEPT !.pc = "done", !.cursors = <<>>]
                   /\ UNCHANGED <<live, moves, sync>>
              ELSE DayFails(TRUE)

\* The attempt's worker dies, or its heartbeats stop.
AttemptLost == day.pc \in {"queued", "first", "shards"} /\ DayFails(TRUE)

--------------------------------------------------------------------------------
(* capture_tmdb_changes                                                         *)

\* TMDBHttpClient.fetch: a transient answer is asked again, so often.
RequestFails ==
  /\ sync.pc \in {"list", "detail"}
  /\ IF sync.tries < MaxRequests
     THEN sync' = [sync EXCEPT !.tries = @ + 1] /\ UNCHANGED <<live, moves, day>>
     ELSE DayFails(TRUE)

\* A page of the live index, and how many there are just now.
TotalPages(k) == (Len(live[k]) + ChangedPage - 1) \div ChangedPage
OnPage(k, page) ==
  LET last == IF page * ChangedPage < Len(live[k]) THEN page * ChangedPage ELSE Len(live[k])
  IN  SubSeq(live[k], (page - 1) * ChangedPage + 1, last)

NextKind == [sync EXCEPT !.kind = @ + 1, !.page = 1, !.tries = 1,
                         !.pc = IF sync.kind = Len(Kinds) THEN "plan" ELSE "list"]

\* _decode_change_page: a page's identifiers.
DecodedPage(k, page) == {<<k, i>> : i \in ToSet(OnPage(k, page))}

\* Mutant: the last page is not read.
ListPageShort ==
  /\ sync.pc = "list"
  /\ LET ids == DecodedPage(sync.kind, sync.page)
         total == TotalPages(sync.kind)
     IN  IF total <= sync.page THEN sync' = NextKind
         ELSE sync' = [sync EXCEPT !.changed = @ \cup ids, !.page = @ + 1, !.tries = 1]
  /\ UNCHANGED <<live, moves, day>>

\* One change page.  A page past the end of an index that shrank ends the kind,
\* but an index that became empty is inconsistent.
ListPage ==
  /\ sync.pc = "list"
  /\ LET ids == DecodedPage(sync.kind, sync.page)
         total == TotalPages(sync.kind)
         listed == [sync EXCEPT !.changed = @ \cup ids, !.page = @ + 1, !.tries = 1]
     IN  IF \/ sync.page > MaxPagesRead \/ total > MaxPagesRead
            \/ total = 0 /\ sync.page # 1
         THEN DayFails(TRUE)
         ELSE /\ sync' = IF total < sync.page THEN NextKind
                         ELSE IF total = sync.page
                              THEN [NextKind EXCEPT !.changed = listed.changed] ELSE listed
              /\ UNCHANGED <<live, moves, day>>

\* _ordered_tmdb_changed_ids: by kind, then by identifier.
Ordered(changed) ==
  FlattenSeq([k \in DOMAIN Kinds |->
    SelectSeq([i \in 1..Ids |-> <<k, i>>], LAMBDA key : key \in changed)])

\* plan_tmdb_change_windows.
ChangeWindows(changed) == Windows(Ordered(changed), MaxChangedIds)

\* The windows of what was listed.  Several, and no cursor: the caller is told
\* the cursors; a cursor of another inventory is a ValueError.
PlanWindow ==
  /\ sync.pc = "plan"
  /\ LET plans == ChangeWindows(sync.changed)
         mine == Selected(plans, sync.cursor)
     IN  IF mine # {}
         THEN /\ sync' = [sync EXCEPT !.pc = "detail", !.changed = {},
                                      !.plan = CHOOSE p \in mine : TRUE]
              /\ UNCHANGED <<live, moves, day>>
         ELSE IF sync.cursor # NoCursor THEN DayFails(FALSE)
         ELSE IF Len(plans) > MaxShards THEN DayFails(TRUE)
         ELSE /\ day' = [day EXCEPT !.pc = "shards",
                                    !.cursors = [k \in DOMAIN plans |-> Cursor(plans[k])]]
              /\ sync' = NoCall
              /\ UNCHANGED <<live, moves>>

\* The current detail of the next item: a 404 becomes a DELETE.
FetchDetail(op) ==
  /\ sync.pc = "detail" /\ Len(sync.recs) < sync.plan.count
  /\ LET key == sync.plan.items[sync.plan.offset + Len(sync.recs) + 1]
     IN  sync' = [sync EXCEPT !.recs = Append(@, [key |-> key, op |-> op]), !.tries = 1]
  /\ UNCHANGED <<live, moves, day>>

\* The detail is of another record, or no JSON: a ValueError.
DetailRefused == sync.pc = "detail" /\ Len(sync.recs) < sync.plan.count /\ DayFails(FALSE)

\* _to_capture_result: what the activity returns of a published window.
CaptureResult(call) == [plan |-> call.plan, recs |-> call.recs]

\* publish_connector_capture, and what the caller makes of its result.
PublishWindow ==
  /\ sync.pc = "detail" /\ Len(sync.recs) = sync.plan.count
  /\ day' = [day EXCEPT !.results = Append(@, CaptureResult(sync)),
                        !.pc = IF day.pc = "first" THEN "done" ELSE @]
  /\ sync' = NoCall
  /\ UNCHANGED <<live, moves>>

Capturing ==
  \/ ValidateToken \/ CaptureExports \/ FirstCall \/ NextCall \/ ListPage \/ PlanWindow
  \/ \E op \in {"upsert", "delete"} : FetchDetail(op)
  \/ PublishWindow

TmdbNext == IndexMoves \/ AttemptLost \/ RequestFails \/ DetailRefused \/ Capturing

TmdbSpec == TmdbInit /\ [][TmdbNext]_tmdbVars

\* The server dispatches activities, and a fetch that fails is tried again only
\* so often.
TmdbFair == WF_tmdbVars(Capturing)

--------------------------------------------------------------------------------
(* Properties                                                                   *)

\* What CaptureTmdbDay returns of a day's changes are the windows of one
\* inventory, each of its identifiers in one record, in order, although every
\* window listed the index anew; and of the whole index while it does not move.
WindowIsCovered ==
  day.pc = "done" /\ day.unit = "changes" =>
    LET items == day.results[1].plan.items
        Keys(batch) == [n \in DOMAIN batch.recs |-> batch.recs[n].key]
    IN  /\ FlattenSeq([k \in DOMAIN day.results |-> Keys(day.results[k])]) = items
        /\ \A k \in DOMAIN day.results : day.results[k].plan.items = items
        /\ moves = 0 => items = Ordered({x \in (DOMAIN Kinds) \X (1..Ids) : x[2] \in ToSet(live[x[1]])})

\* The capture ends, whatever TMDB answers.
CaptureEnds == <>(day.pc \in {"done", "failed"})
================================================================================
