----------------------------- MODULE MCPipeline -----------------------------
(* Small instances of the pipeline for TLC. *)
EXTENDS Pipeline, TLC

T(agent, step) == [agent_type |-> agent, step_id |-> step]

\* A plan whose tasks are listed out of order, and one that the planner's prompt
\* forbids, with a step number used twice.
SomePlans == {<<T("coder", 1), T("writer", 3), T("coder", 2)>>,
              <<T("coder", 1), T("writer", 1)>>}
ShortPlan == {<<T("coder", 1), T("writer", 2)>>}

Interchangeable == Permutations(Workers)
=============================================================================
