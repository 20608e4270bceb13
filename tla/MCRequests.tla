----------------------------- MODULE MCRequests -----------------------------
(***************************************************************************)
(* Requests on small instances.                                            *)
(***************************************************************************)
EXTENDS Requests, TLC

MCOperations == {"read", "post"}

MCRisk == [o \in MCOperations |-> 0]

\* A read and a post are a chain, however far apart; a second post in a row is
\* only refused.
MCRules ==
  << [ops |-> <<"post", "post">>, consecutive |-> TRUE, decision |-> "DENY"],
     [ops |-> <<"read", "post">>, consecutive |-> FALSE, decision |-> "HALT"] >>
=============================================================================
