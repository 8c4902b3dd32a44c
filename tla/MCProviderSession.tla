------------------------ MODULE MCProviderSession ------------------------
(***************************************************************************)
(* A small instance of ProviderSession: a wait of two or three polls, a    *)
(* preferred provider with up to two fallbacks that may start a second     *)
(* server, and commands that together overrun the budget.                  *)
(***************************************************************************)
EXTENDS ProviderSession

\* With a server and everything configured, on both kinds of system; without a
\* server; and without a model.
MCMachines ==
  {[model |-> m, server |-> s, baseURL |-> b, apiKey |-> k, windows |-> w] :
     <<m, s, b, k, w>> \in {<<TRUE, TRUE, TRUE, TRUE, FALSE>>,
                            <<TRUE, TRUE, FALSE, FALSE, TRUE>>,
                            <<TRUE, FALSE, TRUE, FALSE, FALSE>>,
                            <<FALSE, TRUE, TRUE, FALSE, FALSE>>,
                            <<FALSE, TRUE, FALSE, FALSE, FALSE>>}}

MCProviderLists == {<<"native">>, <<"local">>, <<"other">>,
                    <<"native", "anthropic">>, <<"native", "native">>,
                    <<"anthropic", "native", "local">>}

MCDurations == {1, 3}

=============================================================================
