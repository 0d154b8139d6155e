------------------------------ MODULE MCAnswering ------------------------------
(* Instances of Answering for TLC: two questions of two tenants.  The first  *)
(* tenant has three chunks in two documents, which is the least that has     *)
(* chunks to fuse, to cut and to collapse into one citation; the second has  *)
(* one chunk.                                                                *)
EXTENDS Answering

MCAsker == [q \in Questions |-> IF q = "asks" THEN "acme" ELSE "globex"]

MCOwner == [c \in Chunks |-> IF c = "other" THEN "globex" ELSE "acme"]

MCDocument ==
    [c \in Chunks |-> CASE c \in {"intro", "detail"} -> "guide"
                        [] c = "notes" -> "release"
                        [] c = "other" -> "manual"]

=============================================================================
