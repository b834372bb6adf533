------------------------------ MODULE JobStore ------------------------------
(***************************************************************************)
(* The durable job log of eujeno/net/jobstore.py: one row per job and the  *)
(* receipts of the peers that served it.  Each operator below is one       *)
(* method of the class, as a function from the table before the committed  *)
(* transaction to the table after it.                                      *)
(*                                                                         *)
(* rows maps every job id to a row, NoRow standing for a missing one, and  *)
(* receipts maps every job id to the hops of each peer (0 for no row).     *)
(* Timestamps, the prompt and the sampling parameters are left out.        *)
(***************************************************************************)
EXTENDS Naturals, Sequences

Statuses == {"NONE", "RUNNING", "WAITING_COVERAGE", "DONE", "FAILED", "INTERRUPTED"}

\* The statuses a row keeps until the coordinator restarts.
Terminal == {"DONE", "FAILED", "INTERRUPTED"}

NoRow == [status |-> "NONE", tokens |-> <<>>, result |-> <<>>]

NewRow == [status |-> "RUNNING", tokens |-> <<>>, result |-> <<>>]

-----------------------------------------------------------------------------
(* The writes *)

\* INSERT OR REPLACE: a row that was there is overwritten.
CreateJob(rows, job) == [rows EXCEPT ![job] = NewRow]

\* UPDATE ... WHERE job_id=?: a missing row stays missing.
UpdateRow(rows, job, row) ==
    IF rows[job].status = "NONE" THEN rows ELSE [rows EXCEPT ![job] = row]

SetStatus(rows, job, status) ==
    UpdateRow(rows, job, [rows[job] EXCEPT !.status = status])

\* The token list after token was recorded at position (counted from 0):
\* rewritten in place, appended just past the end, ignored beyond it.
WithTokenAnywhere(tokens, token, position) ==
    IF position < Len(tokens) THEN [tokens EXCEPT ![position + 1] = token]
    ELSE Append(tokens, token)

WithToken(tokens, token, position) ==
    IF position < Len(tokens) THEN [tokens EXCEPT ![position + 1] = token]
    ELSE IF position = Len(tokens) THEN Append(tokens, token)
    ELSE tokens

AppendToken(rows, job, token, position) ==
    UpdateRow(rows, job,
              [rows[job] EXCEPT !.tokens = WithToken(@, token, position)])

\* The result column holds the decoded text of the tokens that were returned.
Finish(rows, job, returned) ==
    UpdateRow(rows, job, [rows[job] EXCEPT !.status = "DONE", !.result = returned])

Fail(rows, job) == SetStatus(rows, job, "FAILED")

\* Run once when the coordinator starts.
RecoverRunningOnly(rows) ==
    [job \in DOMAIN rows |->
        IF rows[job].status = "RUNNING"
        THEN [rows[job] EXCEPT !.status = "INTERRUPTED"] ELSE rows[job]]

RecoverEverything(rows) ==
    [job \in DOMAIN rows |->
        IF rows[job].status = "NONE" THEN rows[job]
        ELSE [rows[job] EXCEPT !.status = "INTERRUPTED"]]

Recover(rows) ==
    [job \in DOMAIN rows |->
        IF rows[job].status \in {"RUNNING", "WAITING_COVERAGE"}
        THEN [rows[job] EXCEPT !.status = "INTERRUPTED"] ELSE rows[job]]

\* The upsert accumulates onto the receipts a job id already has.
AddReceipts(receipts, job, acked) ==
    [receipts EXCEPT ![job] = [peer \in DOMAIN @ |-> @[peer] + acked[peer]]]

=============================================================================
