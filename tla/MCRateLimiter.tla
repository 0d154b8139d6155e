---------------------------- MODULE MCRateLimiter ----------------------------
(* Instances of RateLimiter for TLC.  The identities never meet in the code  *)
(* or in the model, so one identity and a stranger are enough; the workers   *)
(* are interchangeable.                                                      *)
EXTENDS RateLimiter, TLC

CONSTANTS w1, w2

WorkerSymmetry == Permutations(Workers)

\* Behaviours that differ in when the first call comes are alike, and when the
\* last call has its decision nothing is left to see.
WorthExploring ==
    /\ calls = <<>> => now = Window
    /\ Len(calls) = MaxCalls => \E i \in 1..MaxCalls : calls[i].verdict = "waiting"

=============================================================================
