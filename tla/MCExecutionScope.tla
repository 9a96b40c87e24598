-------------------------- MODULE MCExecutionScope --------------------------
(* Small instances of ExecutionScope for TLC.                              *)
EXTENDS ExecutionScope, FiniteSets, TLC

Symmetry == Permutations(Scope \ {Root}) \cup Permutations(Operation)
                \cup Permutations(Thread)

(* A tree of three scopes is explored with one thread at a time inside a   *)
(* call, one cause per scope, no claimed body and no cleanup error; a tree *)
(* of two scopes with everything the constants allow.                      *)
Explored ==
    \/ Cardinality(created) <= 2
    \/ /\ Cardinality({t \in Thread : call[t] # Idle}) <= 1
       /\ \A s \in created : Len(causes[s]) <= 1 /\ ~body_claimed[s]
       /\ cleanup_errors = {}

=============================================================================
