---- MODULE MCReportViewer ----
(* ReportViewer on small sets of model values. *)
EXTENDS ReportViewer, TLC

CONSTANTS ReadFinishes, ReadRestarts  \* bounds, once the page has been used

WorkerSymmetry == Permutations(Workers)

\* The repository alone is explored to its own bounds, and together with the page
\* to smaller ones.
PageUsed == unread # Runs
ReadBound == PageUsed => begun <= ReadFinishes /\ restarts <= ReadRestarts

MCViewerSpec == ViewerInit /\ [][ViewerNext /\ ReadBound']_viewerVars
====
