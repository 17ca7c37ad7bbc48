-------------------------- MODULE MCDynamicMapper --------------------------
(* The mapper on small instances: one group under /api and one under /apis. *)
EXTENDS DynamicMapper

CONSTANTS core, apps, loop1, caller1, caller2

TwoGroups == {core, apps}
CoreGroup == {core}
OneLoop == {loop1}
OneCaller == {caller1}
TwoCallers == {caller1, caller2}
NoLoops == {}

\* "The discovery information will be periodically repopulated according to
\* DiscoveryInterval", says AdapterBase.RESTMapper of the mapper it returns.
\* It never calls RunUntil: in the adapter, Loops is empty.
PeriodicallyRepopulated == Converges
=============================================================================
