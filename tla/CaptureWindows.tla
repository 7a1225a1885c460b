---------------------------- MODULE CaptureWindows ----------------------------
(* The windows into which a connector cuts an ordered inventory of changed     *)
(* records that one capture may not hold, and the choice of one by its cursor. *)
EXTENDS Naturals, Sequences

\* One window: items are the keys of the whole inventory, which the code digests.
CaptureWindowPlan(items, offset, count, index, shards) ==
  [items |-> items, offset |-> offset, count |-> count, index |-> index, shards |-> shards]

\* Mutant: the cursor does not cover the inventory.
CursorOfBounds(plan) == <<plan.offset, plan.count>>

Cursor(plan) == <<plan.items, plan.offset, plan.count>>

\* At least one window, which is empty for an empty inventory.
WindowCount(total, max) == IF total = 0 THEN 1 ELSE (total + max - 1) \div max

\* plan_bounded_capture_windows.
Windows(items, max) ==
  LET total == Len(items)
      shards == WindowCount(total, max)
      Rest(offset) == IF total > offset THEN total - offset ELSE 0
      Count(offset) == IF Rest(offset) < max THEN Rest(offset) ELSE max
  IN  [k \in 1..shards |->
         CaptureWindowPlan(items, (k - 1) * max, Count((k - 1) * max), k - 1, shards)]

\* Without a cursor there must be one window, and a cursor must be of this plan.
NoCursor == <<>>
Selected(plans, cursor) ==
  IF cursor = NoCursor THEN {p \in {plans[1]} : Len(plans) = 1}
  ELSE {plans[k] : k \in {k \in DOMAIN plans : Cursor(plans[k]) = cursor}}

Slice(plan) == SubSeq(plan.items, plan.offset + 1, plan.offset + plan.count)
================================================================================
