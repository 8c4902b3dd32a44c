--------------------------- MODULE MCStepExecutor ---------------------------
(***************************************************************************)
(* A small instance of StepExecutor: a step that reads and one that runs   *)
(* commands, with limits two calls apart, so that a reply can reach each   *)
(* of the limits first.                                                    *)
(***************************************************************************)
EXTENDS StepExecutor

MCTools == {"read_file", "run_shell", "manifold_search"}

\* manifold_search is allowed to a step that reads but is not registered.
MCRegistered == {"read_file", "run_shell"}

MCAllowedTools == [READ |-> {"read_file", "manifold_search"},
                   SHELL |-> {"run_shell", "read_file"}]

MCCallLists == {<<"read_file">>, <<"run_shell">>, <<"manifold_search">>,
                <<"read_file", "run_shell">>, <<"run_shell", "read_file">>,
                <<"manifold_search", "read_file", "read_file">>}

=============================================================================
