------------------------------- MODULE MCChat -------------------------------
(* Two files of one name, a third whose name is the second choice for theirs *)
EXTENDS ChatSession, TLC

CONSTANTS f1, f2, f3

MCName == {"a", "a-1", "a-1-1"}

\* f1 and f2 are both called "a", in different directories of the agent.
MCTarget ==
  [f \in File |-> IF f = f3 THEN (0 :> "a-1") @@ (1 :> "a-1-1")
                            ELSE (0 :> "a") @@ (1 :> "a-1")]

=============================================================================
