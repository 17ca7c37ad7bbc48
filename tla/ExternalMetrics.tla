-------------------------- MODULE ExternalMetrics --------------------------
(***************************************************************************)
(* The external metrics of the testing provider: a list that never changes *)
(* (test-adapter/provider/provider.go).  Labels are a set; a selector is   *)
(* the set of the label sets that it matches.                              *)
(***************************************************************************)
EXTENDS Sequences

externalMetrics ==
    <<[metric |-> "my-external-metric", labels |-> {"foo=bar"}, value |-> 42],
      [metric |-> "my-external-metric", labels |-> {"foo=baz"}, value |-> 43],
      [metric |-> "other-external-metric", labels |-> {}, value |-> 44]>>

\* The values of a metric that a selector matches, at their places in the list.
MatchingExternal(metric, selector) ==
    {[place |-> i, value |-> externalMetrics[i].value] :
       i \in {j \in DOMAIN externalMetrics :
                /\ externalMetrics[j].metric = metric
                /\ externalMetrics[j].labels \in selector}}

\* What the discovery of the external metrics lists: one resource for each
\* place, also if the metric was there before.
ExternalResources ==
    {[place |-> i, name |-> externalMetrics[i].metric, namespaced |-> TRUE] :
       i \in DOMAIN externalMetrics}
=============================================================================
