------------------------------ MODULE MCCorpus ------------------------------
(* An instance of Corpus for TLC: a command with a forbidden page and another *)
(* page of the same host, or an arq job for the second of them.  Runs share   *)
(* nothing but the collection, which no run writes parts of: two at a time    *)
(* would only multiply the states.                                            *)
EXTENDS Corpus, TLC

CONSTANTS cli, arq, u1, u2, host

TwoUrls == [u \in {u1, u2} |-> host]

Batches == (cli :> <<u1, u2>>) @@ (arq :> <<u2>>)

OneAtATime == {{cli}, {arq}}

=============================================================================
