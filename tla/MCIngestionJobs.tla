--------------------------- MODULE MCIngestionJobs ---------------------------
(* Instances of IngestionJobs for TLC: a request of two URLs and, where the  *)
(* question is about several requests, one of a single URL beside it.        *)
EXTENDS IngestionJobs, TLC

CONSTANTS j1, j2, j3, r1, r2

TwoRequests == (r1 :> <<j1, j2>>) @@ (r2 :> <<j3>>)

OneRequest == r1 :> <<j1, j2>>

OneUnchanged == {j2}

=============================================================================
