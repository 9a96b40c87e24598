---------------------- MODULE ExecutionScopeInvariant -----------------------
(***************************************************************************)
(* The inductive invariant behind the safety of the scope registry.  It    *)
(* adds to the safety invariants the shape of the tree, the meaning of     *)
(* each state, and what a thread that is inside a call may rely on when it *)
(* takes the lock again.                                                   *)
(***************************************************************************)
EXTENDS ExecutionScope

(* path is what walking Node.parent visits, and identities not given out   *)
(* yet carry nothing.                                                      *)
TreeInv ==
    /\ \A s \in created :
          /\ s \in path[s] /\ path[s] \subseteq created
          /\ \A t \in path[s] : path[t] \subseteq path[s]
          /\ \A t \in path[s] \ {s} : \E c \in path[s] : parent[c] = t
          /\ parent[s] # NoScope => parent[s] \in path[s]
    /\ \A s \in Scope \ created :
          /\ ~body_done[s] /\ terminal[s] = NoReport /\ state[s] = "Running"
          /\ causes[s] = << >> /\ s \notin cancelled

(* Operations live in scopes that exist, next to their supervisors.        *)
OperationInv ==
    \A o \in Operation :
        /\ Registered(o) => op_scope[o] \in created
        /\ op_parent[o] # NoOperation =>
              /\ op_parent[o] \in Operation
              /\ op_scope[op_parent[o]] = op_scope[o] /\ Registered(o)
        /\ ~Registered(o) => /\ outcome[o] = Pending /\ ~owner_lost[o]
                             /\ ~dispatched[o] /\ op_parent[o] = NoOperation
        /\ owner_lost[o] /\ outcome[o] = Pending => dispatched[o]

(* What the state of a scope says about its report and its causes.         *)
StateInv ==
    \A s \in created :
        /\ state[s] = "Terminated" <=> terminal[s] # NoReport
        /\ causes[s] # << >> => state[s] \in {"Stopping", "Terminated"}

(* A thread between two sections of a call: the tokens it still cancels    *)
(* belong to closed scopes, and a registration being dropped is pending    *)
(* and in the hands of no other thread.                                    *)
CallInv ==
    \A t \in Thread :
        /\ \A x \in call[t].tokens : x \in created /\ state[x] \in {"Stopping", "Terminated"}
        /\ call[t].kind = "finish" => call[t].scope \in created
        /\ call[t].kind = "drop" =>
              /\ call[t].operation \in Operation
              /\ Active(call[t].operation)
              /\ \A u \in Thread \ {t} :
                    call[u].kind = "drop" => call[u].operation # call[t].operation

SafetyInv ==
    /\ TypeOK
    /\ TreeInv
    /\ OperationInv
    /\ StateInv
    /\ CallInv
    /\ TerminationIsQuiet
    /\ ReportIsComplete
    /\ NothingIsStranded
    /\ StopReachesSubtree
    /\ CauseBeforeWake
    /\ EvidenceIsSound

(* The operations registered below a scope.                                *)
Below(s) == {p \in Operation : op_scope[p] \in Subtree(s)}

=============================================================================
