--------------------------- MODULE GoldReadAlias ---------------------------
(* gold_index_promote_cli: an operator points the Research read alias at a   *)
(* built index and records who authorised it.  The "compare-and-swap" is a   *)
(* read of the alias followed by an update_aliases call that OpenSearch      *)
(* applies to whatever the alias is by then.                                 *)
EXTENDS FiniteSets, Naturals

CONSTANTS
  Index,     \* Research index names
  First,     \* the index the alias points at to begin with
  Promoter,  \* promotion runs
  Target,    \* the index of a promotion's build manifest
  Expected   \* its --expected-old-index set

ASSUME PromotionConstants ==
  /\ First \in Index
  /\ Target \in [Promoter -> Index]
  /\ Expected \in [Promoter -> SUBSET Index]

VARIABLES
  idx,         \* state of every index: absent, restoring or open
  alias,       \* the indices behind the read alias
  activation,  \* activation receipts, one object per build
  ppc,         \* where a promotion is
  seen         \* the alias as the promotion read it

promoVars == <<activation, ppc, seen>>
aliasVars == <<idx, alias, promoVars>>

Existing == {i \in Index : idx[i] # "absent"}

AliasInit ==
  /\ idx = [i \in Index |-> "open"]
  /\ alias = {First}
  /\ activation = {}
  /\ ppc = [p \in Promoter |-> "idle"]
  /\ seen = [p \in Promoter |-> {}]

Goto(p, phase) == ppc' = [ppc EXCEPT ![p] = phase]

\* Mapping and contents of the target are validated first.
ValidateTarget(p) ==
  /\ ppc[p] = "idle"
  /\ Goto(p, IF idx[Target[p]] = "open" THEN "read" ELSE "failed")
  /\ UNCHANGED <<idx, alias, activation, seen>>

\* expected_current of switch_read_alias.
AsExpected(p) == alias = Expected[p]

\* switch_read_alias up to the comparison: a target that is already behind the
\* alias needs no switch.
ReadAliasIndices(p) ==
  /\ ppc[p] = "read"
  /\ \/ alias = {Target[p]} /\ Goto(p, "record") /\ UNCHANGED seen
     \/ alias # {Target[p]} /\ AsExpected(p) /\ Goto(p, "swap")
          /\ seen' = [seen EXCEPT ![p] = alias]
     \/ alias # {Target[p]} /\ ~AsExpected(p) /\ Goto(p, "failed") /\ UNCHANGED seen
  /\ UNCHANGED <<idx, alias, activation>>

\* update_aliases applies all its actions at once, or none when an index that
\* it names is gone; removing an alias that is no longer there is a no-op.
UpdateAliases(p) ==
  /\ ppc[p] = "swap"
  /\ IF (seen[p] \cup {Target[p]}) \subseteq Existing
       THEN /\ alias' = (alias \ seen[p]) \cup {Target[p]}
            /\ Goto(p, "check")
       ELSE Goto(p, "failed") /\ UNCHANGED alias
  /\ UNCHANGED <<idx, activation, seen>>

\* The activation postcondition.
CheckActivated(p) ==
  /\ ppc[p] = "check"
  /\ Goto(p, IF alias = {Target[p]} THEN "record" ELSE "failed")
  /\ UNCHANGED <<idx, alias, activation, seen>>

\* GoldIndexActivationReceipt: whether the alias was changed is told from what was
\* expected.
ActivationReceipt(p) ==
  [index |-> Target[p], previous |-> Expected[p], changed |-> Expected[p] # {Target[p]}]

\* An active target must have been the only index behind the alias.
ReceiptValid(receipt) ==
  receipt.index \in receipt.previous => receipt.previous = {receipt.index} /\ ~receipt.changed

\* The receipt is uploaded under the build's name; other contents under that
\* name are a conflict.  One that is not valid raises after the switch.
Record(p) ==
  LET receipt == ActivationReceipt(p)
      stored == {r \in activation : r.index = Target[p]}
  IN /\ ppc[p] = "record"
     /\ IF ReceiptValid(receipt) /\ stored \subseteq {receipt}
          THEN activation' = activation \cup {receipt} /\ Goto(p, "done")
          ELSE Goto(p, "failed") /\ UNCHANGED activation
     /\ UNCHANGED <<idx, alias, seen>>

\* The process may die anywhere, and the operator runs it again.
PromoterDies(p) ==
  /\ ppc[p] \in {"read", "swap", "check", "record"}
  /\ Goto(p, "failed") /\ UNCHANGED <<idx, alias, activation, seen>>

PromoteAgain(p) ==
  /\ ppc[p] = "failed"
  /\ Goto(p, "idle") /\ UNCHANGED <<idx, alias, activation, seen>>

Promote(p) ==
  \/ ValidateTarget(p) \/ ReadAliasIndices(p) \/ UpdateAliases(p)
  \/ CheckActivated(p) \/ Record(p) \/ PromoterDies(p) \/ PromoteAgain(p)

=============================================================================
