--------------------------- MODULE MCPlanPipeline ---------------------------
(***************************************************************************)
(* A small instance of PlanPipeline: plans of a single step, a simple      *)
(* task, a task of one sentence that names two files, and one of two       *)
(* sentences, more than the plan of a model may have.                      *)
(***************************************************************************)
EXTENDS PlanPipeline

MCTasks == {[simple |-> TRUE, files |-> {"main.py"}, parts |-> 1],
            [simple |-> FALSE, files |-> {"main.py", "notes.json"}, parts |-> 1],
            [simple |-> FALSE, files |-> {"notes.json"}, parts |-> 2]}

=============================================================================
