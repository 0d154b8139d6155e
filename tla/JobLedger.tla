------------------------------ MODULE JobLedger ------------------------------
(***************************************************************************)
(* What ingestion promises to whoever reads PostgreSQL: GET /jobs and the  *)
(* lexical retriever.  A job appears with its whole request, moves only    *)
(* forward, and its chunk rows appear in the same instant as the verdict   *)
(* that counts them.                                                       *)
(***************************************************************************)
EXTENDS Naturals

CONSTANTS Jobs, MaxChunks

VARIABLES
    jobRow,  \* ingestion_jobs, as committed
    rows     \* number of document_chunks rows of the job's document

ledger == <<jobRow, rows>>

Row(status, n) == [status |-> status, chunks |-> n]

Finished ==
    {Row(verdict, 0) : verdict \in {"succeeded", "failed", "skipped"}}
        \cup {Row("succeeded", n) : n \in 1..MaxChunks}

Init ==
    /\ jobRow = [j \in Jobs |-> Row("absent", 0)]
    /\ rows = [j \in Jobs |-> 0]

\* The rows of a request become visible together, in the states its
\* transaction gave them: all pending, or all finished with their chunk rows.
Appear(J) ==
    /\ \A j \in J : jobRow[j] = Row("absent", 0)
    /\ \E new \in [J -> {Row("pending", 0)}] \cup [J -> Finished] :
          /\ jobRow' = [j \in Jobs |-> IF j \in J THEN new[j] ELSE jobRow[j]]
          /\ rows' = [j \in Jobs |-> IF j \in J THEN new[j].chunks ELSE rows[j]]

Start(j) ==
    /\ jobRow[j] = Row("pending", 0)
    /\ jobRow' = [jobRow EXCEPT ![j] = Row("running", 0)]
    /\ UNCHANGED rows

Finish(j) ==
    /\ jobRow[j] = Row("running", 0)
    /\ \E row \in Finished :
          /\ jobRow' = [jobRow EXCEPT ![j] = row]
          /\ rows' = [rows EXCEPT ![j] = row.chunks]

Next ==
    \/ \E J \in SUBSET Jobs : Appear(J)
    \/ \E j \in Jobs : Start(j) \/ Finish(j)

Spec == Init /\ [][Next]_ledger

=============================================================================
