--------------------------- MODULE MCScopeObservers ---------------------------
(***************************************************************************)
(* Instances of ScopeObservers: a tree that must come to an end and that   *)
(* nobody watches, and for each observer the root with one operation.      *)
(* Observers only read what they share, so they are taken one at a time.   *)
(***************************************************************************)
EXTENDS ScopeObservers, TLC

CONSTANT FirstOperation

VARIABLE instance   \* "tree", or the observer

instanceVars == <<instance, vars, observerVars>>

InstanceInit == ObserverInit /\ instance \in {"tree"} \cup Observer

(* The owners of the tree end it themselves: nobody asks it to stop.  The  *)
(* operations are alike, so it does not matter which one comes first.      *)
TreeStep(A) ==
    /\ instance = "tree" /\ A
    /\ \A s \in Scope : \A i \in DOMAIN causes'[s] : causes'[s][i].reason \notin StopReason
    /\ (\E o \in Operation : op_scope'[o] # NoScope) => op_scope'[FirstOperation] # NoScope
    /\ UNCHANGED <<instance, observerVars>>

WatchStep(A) ==
    /\ instance # "tree" /\ A
    /\ created' = created
    /\ \A o \in Operation : op_scope'[o] # NoScope => o = FirstOperation
    /\ \A w \in Observer : step'[w] # "off" => w = instance
    /\ UNCHANGED instance

InstanceNext == TreeStep(Next) \/ WatchStep(WatchNext)

(* In the tree, while some body or operation can end, one of them does:    *)
(* the contract of the engine and of the adapters, on which join depends.  *)
(* A thread inside a call runs straight-line code to its end, the notify   *)
(* after the unlock included, and the runtime polls a task that was woken. *)
(* No deadline need expire, and no scope that is watched need end.         *)
FairInstanceSpec ==
    /\ InstanceInit /\ [][InstanceNext]_instanceVars
    /\ WF_instanceVars(TreeStep(Ends) \/ WatchStep(Notify))
    /\ \A t \in Thread :
          WF_instanceVars(TreeStep(ThreadNext(t)) \/ WatchStep(Unlock(ThreadNext(t))))
    /\ WF_instanceVars(WatchStep(Runs(instance)))

(* The tree ends, as TreeTerminates of ExecutionScope says of settle.      *)
TreeEnds == instance = "tree" => TreeTerminates

=============================================================================
