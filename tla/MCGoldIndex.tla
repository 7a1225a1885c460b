------------------------------ MODULE MCGoldIndex ------------------------------
(* Two submissions of one projection, or of two projections of one release; or *)
(* three builders run by hand.  The release changes one entity, or replaces    *)
(* one.                                                                        *)
EXTENDS GoldIndexProjection

VARIABLE cast  \* who is submitted

MCPartOf == [k1 |-> 1, k2 |-> 2, k3 |-> 2]
MCResultUri == <<"p", "p", "q">>
Change == [upserts |-> {"k2"}, deletes |-> {}, plan |-> "target"]
Replace == [upserts |-> {"k3"}, deletes |-> {"k2"}, plan |-> "target"]
OfOther == [Change EXCEPT !.plan = "other"]
MCAffected == {Change, Replace, OfOther}

MCInit ==
  /\ Init
  /\ byHand \in {{}, {"FULL"}} => affected = Replace
  /\ cast \in IF byHand = {} THEN {{1}, {1, 2}, {2, 3}} ELSE {Runs}
  /\ \A w \in Runs : wf[w].flaws # {} <=> cast = {1} /\ w = 1

MCNext ==
  /\ Next /\ UNCHANGED cast
  /\ \A w \in Runs \ cast : wf'[w] = wf[w]

MCSpec == MCInit /\ [][MCNext]_<<vars, cast>> /\ Fair
================================================================================
