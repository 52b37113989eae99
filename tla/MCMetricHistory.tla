-------------------------- MODULE MCMetricHistory --------------------------
(* Retention settings for MetricHistory: two processes whose settings      *)
(* differ, as during a rolling change, and one that retention_cutoffs      *)
(* refuses.                                                                *)
EXTENDS MetricHistory

MCRetentions == {<<2, 6>>, <<3, 3>>, <<4, 2>>}

=============================================================================
