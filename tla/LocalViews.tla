----------------------------- MODULE LocalViews -----------------------------
(***************************************************************************)
(* Local answers from views whose data are being edited.  A query reads    *)
(* the policy and the resolver it was started with, so one that overlaps a *)
(* reload is answered as if it had ended before; what a query sees that    *)
(* fetches the two on either side of a reload is in Service.               *)
(***************************************************************************)
EXTENDS LocalAnswers, ViewFiles

CONSTANT QueryFaults  \* bound of the model: edits that failed to write before a query

vars == <<localVars, diskVars, views>>

Init == LocalInit /\ FilesInit

Query == faults <= QueryFaults /\ LocalNext /\ UNCHANGED <<diskVars, views>>

Edit == at = "idle" /\ FilesNext /\ UNCHANGED localVars

Spec == Init /\ [][Query \/ Edit]_vars

EditsKeepOthers == [][~spoiled /\ ~spoiled' /\ views' # views => EditKeepsOthers]_vars
=============================================================================
