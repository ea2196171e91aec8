----------------------------- MODULE MCPipeline -----------------------------
(***************************************************************************)
(* AnalysisPipeline for TLC: two of the five steps (the code               *)
(* treats finalize_transcript and notify like any other step), and what    *)
(* the workstream document says of retries and reprocessing.               *)
(***************************************************************************)
EXTENDS AnalysisPipeline, TLC

TwoSteps == <<"score", "report">>

\* Workers are alike, and so are callers: the rerun has no liveness to check.
Alike == Permutations(Worker) \cup Permutations(Caller)

\* docs/workstreams/D-analysis.md: retryStep "re-queues a FAILED step and every
\* step after it".  Asked for while the pipeline is still running, the run in
\* progress declares the analysis over with the retried step still queued.
RetryRerunsTheStep == status \in Final => Unfinished(generation, 0) = {}

\* docs/workstreams/D-analysis.md: on reprocess, "older evaluations get
\* isCurrent=false".  A scoring transaction that had looked at the session before the
\* reprocess commits after the new run's, and its older evaluation is shown again.
OlderRunsAreHistory == [][\A g \in current : \A h \in current' : g <= h]_pipelineVars

\* docs/workstreams/D-analysis.md: "On reprocess, the previous evaluation stays current
\* until the new score step succeeds".  A run that scores for the second time (its job
\* was handed out again, or an earlier step retried) when the reprocess comes takes
\* the mark from its own row.
PreviousStaysCurrent == [][current # {} => current' # {}]_pipelineVars
=============================================================================
