---------------------------- MODULE MCModelCall ----------------------------
(***************************************************************************)
(* A small instance of ModelCall: every conversation of up to four         *)
(* messages, and streams of up to three blocks and one damaged line.       *)
(***************************************************************************)
EXTENDS ModelCall

\* The i-th message says i.  For the stream one conversation is enough: the
\* reader does not look at it.
MCHistories ==
  {[i \in DOMAIN roles |-> [role |-> roles[i], content |-> <<i>>]] : roles \in SeqOf(Roles, 4)}
MCCalls ==
  {c \in [provider : Providers, stream : BOOLEAN, history : MCHistories] :
     c.stream => c.history = <<>>}

=============================================================================
