------------------------- MODULE MCManagedScaling -------------------------
(* Small instances of ManagedScaling for TLC.                              *)
EXTENDS ManagedScaling

CONSTANTS Edits, KubeFaults, SolrFaults, FailedMoves, FailedBalances, LostPods

CONSTANTS Sizes, Options

MCSpecs == [replicas : Sizes, vacate : Options, populate : Options]

MCBounds ==
  [edit |-> Edits, kube |-> KubeFaults, solr |-> SolrFaults,
   move |-> FailedMoves, balance |-> FailedBalances, pod |-> LostPods]
=============================================================================
