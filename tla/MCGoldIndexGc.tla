--------------------------- MODULE MCGoldIndexGc ---------------------------
EXTENDS GoldIndexGcProps, TLC

CONSTANTS old, active, shadow, promote, rollback, gc, cleanup, drill, compact

\* promote moves the alias to the new index, rollback moves it back.
MCTarget == (promote :> active) @@ (rollback :> old)
MCExpected == (promote :> {old}) @@ (rollback :> {active})

\* The first archive-delete takes a failed shadow build along.
MCTargets == (gc :> {old, shadow}) @@ (cleanup :> {old})

OneTarget == (promote :> active)
OneExpected == (promote :> {old})
=============================================================================
