---------------------------- MODULE MCAgentLoop ----------------------------
(***************************************************************************)
(* A small instance of AgentLoop: two distinct calls, alone or together in *)
(* a reply, a window of a few short messages, and a Run of up to four      *)
(* turns that may have a short one before it.                              *)
(***************************************************************************)
EXTENDS AgentLoop

MCKeys == {"a", "b"}

MCCallLists == {<<"a">>, <<"a", "b">>}

\* A long text outweighs the window once the prompt is in it.
MCSizeCost == [size \in Sizes |-> CASE size = "empty" -> 1
                                    [] size = "short" -> 2
                                    [] size = "long" -> 8]

\* A short output is evaluated by nothing, an empty one by a message; the long
\* texts are answers, which a later Run finds in its history.
MCSizesOf == [input |-> {"short"}, call |-> {"short"},
              text |-> {"empty", "long"}, output |-> {"empty", "short"},
              error |-> {"short"}]

=============================================================================
