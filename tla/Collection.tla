----------------------------- MODULE Collection -----------------------------
(***************************************************************************)
(* QdrantVectorStore.ensure_collection, run by every API process at start- *)
(* up and by `nowlens bootstrap`: look, create, then three payload         *)
(* indexes, each a call of its own that may fail with or without effect.   *)
(* Nothing but the existence of the collection is ever looked at again.    *)
(***************************************************************************)
EXTENDS Naturals, Sequences

CONSTANTS
    Starters,     \* calls of ensure_collection
    StoreFaults   \* calls to Qdrant may fail

ASSUME CollectionAssumption == StoreFaults \in BOOLEAN

\* What ensure_collection builds, in this order.
Parts == <<"vectors", "tenant_id", "domains", "document_id">>

AllParts == {Parts[k] : k \in 1..Len(Parts)}

VARIABLES
    collection,  \* the parts that exist in Qdrant
    next,        \* next[s]: 0 to look, k to build part k, Len(Parts) + 1 when ready
    failed       \* the calls that raised RetrievalError

collectionVars == <<collection, next, failed>>

Ready == Len(Parts) + 1

CollectionTypeOK ==
    /\ collection \subseteq AllParts
    /\ next \in [Starters -> 0..Ready]
    /\ failed \subseteq Starters

CollectionInit ==
    /\ collection = {}
    /\ next = [s \in Starters |-> 0]
    /\ failed = {}

Exists == "vectors" \in collection

\* collection_exists: a collection that is there is not touched.
Look(s) ==
    /\ s \notin failed
    /\ next[s] = 0
    /\ next' = [next EXCEPT ![s] = IF Exists THEN Ready ELSE 1]
    /\ UNCHANGED <<collection, failed>>

\* Mutant of Build: a failed index is logged and left out.
BuildTolerant(s) ==
    /\ s \notin failed
    /\ next[s] \in 1..Len(Parts)
    /\ \/ collection' = collection \cup {Parts[next[s]]}
       \/ UNCHANGED collection
    /\ next' = [next EXCEPT ![s] = @ + 1]
    /\ UNCHANGED failed

\* create_collection, refused when another process was faster, or one of the
\* payload indexes, which may be created twice.
Build(s) ==
    /\ s \notin failed
    /\ next[s] \in 1..Len(Parts)
    /\ next[s] = 1 => ~Exists
    /\ collection' = collection \cup {Parts[next[s]]}
    /\ next' = [next EXCEPT ![s] = @ + 1]
    /\ UNCHANGED failed

\* A call to Qdrant raises: ensure_collection gives up where it stands.  The
\* API logs it and serves on (app.py:49), the command line ends.
FailStart(s) ==
    /\ s \notin failed
    /\ \/ next[s] = 1 /\ Exists /\ UNCHANGED collection
       \/ StoreFaults /\ next[s] = 0 /\ UNCHANGED collection
       \/ /\ StoreFaults
          /\ next[s] \in 1..Len(Parts)
          /\ collection' \in {collection, collection \cup {Parts[next[s]]}}
    /\ failed' = failed \cup {s}
    /\ UNCHANGED next

StarterStep(s) == Look(s) \/ Build(s)

-----------------------------------------------------------------------------
\* A collection that lacks a payload index is being built or is the work of a
\* call that raised: whichever processes start together, a start that reports
\* success never leaves behind an index that it skipped.
IncompleteCollectionIsKnown ==
    Exists /\ collection # AllParts =>
        \E s \in Starters : s \in failed \/ next[s] \in 1..Len(Parts)

=============================================================================
