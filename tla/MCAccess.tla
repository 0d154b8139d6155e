------------------------------ MODULE MCAccess ------------------------------
(* An instance of Access for TLC. *)
EXTENDS Access, TLC

CallSymmetry == Permutations(Calls)

\* POST /ingest and GET /tenants.
TwoEndpoints ==
    {[need |-> "operator", unsafe |-> TRUE], [need |-> "platform", unsafe |-> FALSE]}

=============================================================================
