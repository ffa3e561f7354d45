------------------------------- MODULE MCWorkflow -------------------------------
EXTENDS Workflow, TLC

CONSTANTS w1, w2, g, k

\* The observation of the original, and a repair that an obligation binds to it or
\* that is given as a lifecycle's payload.
MCProfiles == (w1 :> {"workflow"}) @@ (w2 :> {"workflow", "lifecycle"})
MCBaseline == (w1 :> None) @@ (w2 :> w1)

Report(gain, exit, successful) ==
  [events |-> (g :> gain) @@ (k :> "success"), exit |-> exit, completed |-> TRUE,
   successful |-> successful, certain |-> TRUE]
Success == Report("success", 0, TRUE)
Failure == Report("failure", 1, FALSE)
\* The original may fail, as it should, or succeed, and so may the repair.
MCReports == [w \in Root |-> {Failure, Success}]
\* Only the repair's reads are counted.
MCReadFiles == (w1 :> 0) @@ (w2 :> 2)
================================================================================
