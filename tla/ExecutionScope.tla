--------------------------- MODULE ExecutionScope ---------------------------
(***************************************************************************)
(* The execution-scope registry of etas_host (execution/scope/registry.rs) *)
(* with its registrations (execution/operation/registration.rs) and its    *)
(* cancellation sources (execution/cancellation/source.rs).                *)
(*                                                                         *)
(* A tree of scopes shares one short admission lock.  Every public call is *)
(* one critical section, hence one action, except the calls that release   *)
(* the lock in the middle:                                                 *)
(*   request_stop        publishes the causes, unlocks, then cancels the   *)
(*                       tokens one after the other;                       *)
(*   finish_body(false)  is request_stop followed by a second section;     *)
(*   Drop of an OperationRegistration is request_stop followed by          *)
(*                       abandon_operation in a second section.            *)
(* Those are split into steps of a calling thread (variable call).         *)
(***************************************************************************)
EXTENDS Integers, Sequences

CONSTANTS
    Scope,          \* identities a scope can be given
    Root,           \* the scope ExecutionScope::new creates
    NoScope,        \* Option::<ScopeId>::None
    Operation,      \* identities an operation can be given
    NoOperation,    \* Option::<OperationId>::None
    Thread,         \* threads that may be inside a multi-section call
    StopReason,     \* reasons passed to CancelSource::stop
    MaxUnits,       \* bound on the progress units an adapter reports
    MaxCauses,      \* bound on the causes one scope records
    ClaimScope,     \* the scopes somebody calls claim_body on
    FaultyOperation \* the operations that meet cleanup errors

ASSUME ScopeAssumption == Root \in Scope /\ NoScope \notin Scope
ASSUME OperationAssumption == NoOperation \notin Operation
ASSUME BoundAssumption == MaxUnits \in Nat /\ MaxCauses \in Nat

VARIABLES
    created,          \* Registry.nodes: the scopes that exist
    parent,           \* Node.parent
    path,             \* what walking Node.parent from a scope visits
    state,            \* Node.state
    body_done,        \* Node.body_done
    body_claimed,     \* Node.body_claimed
    causes,           \* Node.causes, oldest first
    terminal,         \* Node.terminal
    cancelled,        \* scopes whose CancellationToken is cancelled
    op_scope,         \* the node whose operations map holds the operation
    op_parent,        \* OperationReport.parent
    dispatched,       \* OperationReport.dispatched
    outcome,          \* OperationReport.outcome
    owner_lost,       \* OperationReport.owner_lost
    completed_units,  \* OperationReport.completed_units
    cleanup_errors,   \* operations with cleanup evidence on record
    call              \* what each thread still has to do after an unlock

treeVars == <<created, parent, path, body_claimed>>
opVars == <<op_scope, op_parent, dispatched, completed_units, cleanup_errors>>
vars == <<treeVars, state, body_done, causes, terminal, cancelled,
          opVars, outcome, owner_lost, call>>

-----------------------------------------------------------------------------
(* Values *)

ScopeState == {"Running", "Draining", "Stopping", "Terminated"}
CancellationReason == StopReason \cup {"OwnerDropped", "ChildFailed"}
CancellationCause == [origin : Scope, reason : CancellationReason]

NoUnits == -1
Units == 0 .. MaxUnits

(* ExternalOutcome.  "Confirmed" stands for every outcome an adapter       *)
(* reports with certainty, "None" for an outcome not published yet.        *)
OutcomeKind == {"None", "NotDispatched", "Confirmed", "Unknown", "Partial"}
ExternalOutcome == [kind : OutcomeKind, units : Units \cup {NoUnits}]
Plain(k) == [kind |-> k, units |-> NoUnits]
Pending == Plain("None")

OperationReport == [id : Operation, dispatched : BOOLEAN,
                    outcome : ExternalOutcome, owner_lost : BOOLEAN,
                    cleanup_errors : BOOLEAN]
ScopeOutcome == {"Completed", "Failed", "Cancelled"}
NoReport == [outcome |-> "None", causes |-> << >>, operations |-> {}]
TerminationReport == [outcome : ScopeOutcome, causes : Seq(CancellationCause),
                      operations : SUBSET OperationReport]

Idle == [kind |-> "idle", scope |-> NoScope, operation |-> NoOperation,
         tokens |-> {}]
Call == [kind : {"idle", "stop", "finish", "drop"}, scope : Scope \cup {NoScope},
         operation : Operation \cup {NoOperation}, tokens : SUBSET Scope]

-----------------------------------------------------------------------------
(* Reading the registry *)

Children(s) == {c \in created : parent[c] = s}
Subtree(s) == {t \in created : s \in path[t]}
OperationsOf(s) == {o \in Operation : op_scope[o] = s}
Supervisors(o) == {c \in Operation : op_parent[c] = o}
Registered(o) == op_scope[o] # NoScope
Active(o) == Registered(o) /\ outcome[o] = Pending /\ ~owner_lost[o]

(* The OperationRegistration of o is still held by its owner: it was       *)
(* neither consumed by complete nor handed to Drop.                        *)
Owned(o) ==
    /\ Active(o)
    /\ \A t \in Thread : ~(call[t].kind = "drop" /\ call[t].operation = o)

CheckAdmission(id, nested) ==
    /\ \A s \in path[id] : state[s] \notin {"Stopping", "Terminated"}
    /\ nested \/ state[id] # "Draining"

-----------------------------------------------------------------------------
(* Registry::settle *)

(* Mutant of Delegated: one finished supervisor is enough.                 *)
DelegatedToAny(id, out, lost, T) ==
    {o \in OperationsOf(id) :
        /\ lost[o] /\ out[o] = Pending
        /\ Supervisors(o) # {}
        /\ \E c \in Supervisors(o) : out[c] # Pending \/ c \in T}

(* One round of its first loop: the lost owners of scope id whose          *)
(* supervisors all have an outcome, those of T counting as settled.        *)
Delegated(id, out, lost, T) ==
    {o \in OperationsOf(id) :
        /\ lost[o] /\ out[o] = Pending
        /\ Supervisors(o) # {}
        /\ \A c \in Supervisors(o) : out[c] # Pending \/ c \in T}

(* The rounds until nothing more is found: the least set they close.       *)
SettledBySupervisors(id, out, lost) ==
    {o \in Operation : \A T \in SUBSET Operation :
                           Delegated(id, out, lost, T) \subseteq T => o \in T}

(* Mutant of Uncertain: the progress is forgotten.                         *)
UncertainForgetsProgress(o) == Plain("Unknown")

(* What a settled or uncertain operation reports: its progress, if any.    *)
Uncertain(o) ==
    IF completed_units[o] = NoUnits
    THEN Plain("Unknown")
    ELSE [kind |-> "Partial", units |-> completed_units[o]]

(* Mutant of Ready: children are not waited for.                           *)
ReadyIgnoresChildren(s, done, out, T) ==
    /\ done[s] /\ terminal[s] = NoReport
    /\ \A o \in OperationsOf(s) : out[o] # Pending

(* A scope that may terminate, the scopes of T counting as terminated.     *)
Ready(s, done, out, T) ==
    /\ done[s] /\ terminal[s] = NoReport
    /\ \A o \in OperationsOf(s) : out[o] # Pending
    /\ \A c \in Children(s) : terminal[c] # NoReport \/ c \in T

(* The walk from id towards the root that terminates every ready scope and *)
(* stops at the first that is not: again the least set closed by it.       *)
WalkUp(id, done, out, T) ==
    {s \in created : /\ s = id \/ \E c \in T : parent[c] = s
                     /\ Ready(s, done, out, T)}
(* Mutant of Terminating: only the scope that changed is looked at.        *)
TerminatingWithoutWalk(id, done, out) == {s \in {id} : Ready(s, done, out, {})}
Terminating(id, done, out) ==
    {s \in Scope : \A T \in SUBSET Scope : WalkUp(id, done, out, T) \subseteq T => s \in T}

ReportOf(o, out, lost) ==
    [id |-> o, dispatched |-> dispatched[o], outcome |-> out[o],
     owner_lost |-> lost[o], cleanup_errors |-> o \in cleanup_errors']

OutcomeOf(s) ==
    IF causes[s] = << >> THEN "Completed"
    ELSE IF Head(causes[s]).reason = "ChildFailed" THEN "Failed" ELSE "Cancelled"

(* Mutant of ReportFor: reports of children that ended earlier are lost.   *)
ReportForThisWalk(s, W, out, lost) ==
    [outcome |-> OutcomeOf(s),
     causes |-> causes[s],
     operations |->
        UNION {{ReportOf(o, out, lost) : o \in OperationsOf(w)} :
                  w \in W \cap Subtree(s)}]

(* The report of s: its own operations and its children's reports; W are   *)
(* the scopes of the same walk, whose reports are made in this step too.   *)
ReportFor(s, W, out, lost) ==
    [outcome |-> OutcomeOf(s),
     causes |-> causes[s],
     operations |->
        UNION {{ReportOf(o, out, lost) : o \in OperationsOf(w)}
               \cup UNION {terminal[c].operations : c \in Children(w) \ W} :
                  w \in W \cap Subtree(s)}]

(* settle(id), given what its caller changed under the same lock.          *)
Settle(id, st, done, out, lost) ==
    LET supervised == SettledBySupervisors(id, out, lost)
        out2 == [o \in Operation |-> IF o \in supervised THEN Uncertain(o) ELSE out[o]]
        W == Terminating(id, done, out2)
    IN  /\ outcome' = out2
        /\ state' = [s \in Scope |-> IF s \in W THEN "Terminated" ELSE st[s]]
        /\ terminal' = [s \in Scope |->
                            IF s \in W THEN ReportFor(s, W, out2, lost) ELSE terminal[s]]

-----------------------------------------------------------------------------
(* Calls that are one critical section *)

ClaimBody(s) ==
    /\ s \in created \cap ClaimScope
    /\ ~body_claimed[s] /\ ~body_done[s]
    /\ body_claimed' = [body_claimed EXCEPT ![s] = TRUE]
    /\ UNCHANGED <<created, parent, path, state, body_done, causes, terminal,
                   cancelled, opVars, outcome, owner_lost, call>>

(* ExecutionScope::child; the new token is a child_token of the parent's.  *)
Child(s, c) ==
    /\ s \in created /\ c \in Scope \ created
    /\ CheckAdmission(s, FALSE)
    /\ created' = created \cup {c}
    /\ parent' = [parent EXCEPT ![c] = s]
    /\ path' = [path EXCEPT ![c] = path[s] \cup {c}]
    /\ cancelled' = IF s \in cancelled THEN cancelled \cup {c} ELSE cancelled
    /\ UNCHANGED <<body_claimed, state, body_done, causes, terminal, opVars,
                   outcome, owner_lost, call>>

Register(s, p, o) ==
    /\ s \in created /\ ~Registered(o)
    /\ p # NoOperation => op_scope[p] = s /\ Active(p)
    /\ CheckAdmission(s, p # NoOperation)
    /\ op_scope' = [op_scope EXCEPT ![o] = s]
    /\ op_parent' = [op_parent EXCEPT ![o] = p]
    /\ UNCHANGED <<treeVars, state, body_done, causes, terminal, cancelled,
                   dispatched, completed_units, cleanup_errors, outcome,
                   owner_lost, call>>

BeginDispatch(o) ==
    /\ Owned(o) /\ ~dispatched[o]
    /\ CheckAdmission(op_scope[o], TRUE)
    /\ dispatched' = [dispatched EXCEPT ![o] = TRUE]
    /\ UNCHANGED <<treeVars, state, body_done, causes, terminal, cancelled,
                   op_scope, op_parent, completed_units, cleanup_errors,
                   outcome, owner_lost, call>>

(* OperationRegistration::complete; errors says whether the adapter passes *)
(* cleanup errors along.                                                   *)
CompleteOperation(o, kind, errors) ==
    /\ Owned(o)
    /\ dispatched[o] <=> kind # "NotDispatched"
    /\ errors => o \in FaultyOperation
    /\ cleanup_errors' = IF errors THEN cleanup_errors \cup {o} ELSE cleanup_errors
    /\ Settle(op_scope[o], state, body_done,
              [outcome EXCEPT ![o] = IF kind = "Unknown" THEN Uncertain(o) ELSE Plain(kind)],
              owner_lost)
    /\ UNCHANGED <<treeVars, body_done, causes, cancelled, op_scope, op_parent,
                   dispatched, completed_units, owner_lost, call>>

(* Adapters reach these two through a clone of the OperationContext, so    *)
(* they need an active record, not its registration.                       *)
RecordCleanupError(o) ==
    /\ Active(o) /\ dispatched[o]
    /\ o \in FaultyOperation
    /\ cleanup_errors' = cleanup_errors \cup {o}
    /\ UNCHANGED <<treeVars, state, body_done, causes, terminal, cancelled,
                   op_scope, op_parent, dispatched, completed_units, outcome,
                   owner_lost, call>>

RecordProgress(o, units) ==
    /\ Active(o) /\ dispatched[o]
    /\ units >= completed_units[o]
    /\ completed_units' = [completed_units EXCEPT ![o] = units]
    /\ UNCHANGED <<treeVars, state, body_done, causes, terminal, cancelled,
                   op_scope, op_parent, dispatched, cleanup_errors, outcome,
                   owner_lost, call>>

-----------------------------------------------------------------------------
(* Calls that unlock in the middle *)

(* Mutant of Stoppable: no descent.                                        *)
StoppableSelf(s) == {t \in {s} : state[t] # "Terminated"}

(* The scopes request_stop's search from s reaches: it neither marks a     *)
(* terminated scope nor descends below it.                                 *)
Stoppable(s) ==
    {t \in Subtree(s) : \A u \in path[t] : s \in path[u] => state[u] # "Terminated"}

(* Mutant of RequestStop: tokens are cancelled before causes are recorded. *)
RequestStopWakesFirst(t, kind, s, o, reason) ==
    /\ call[t] = Idle
    /\ s \in Stoppable(s)
    /\ cancelled' = cancelled \cup Subtree(s)
    /\ call' = [call EXCEPT ![t] = [kind |-> kind, scope |-> s, operation |-> o,
                                    tokens |-> Subtree(s)]]
    /\ UNCHANGED <<treeVars, state, causes, body_done, terminal, opVars,
                   outcome, owner_lost>>

(* request_stop under the lock.  Cancelling the token of s also cancels    *)
(* every token derived from it with child_token, terminated scopes         *)
(* included, so those are the tokens thread t has to cancel next.          *)
RequestStop(t, kind, s, o, reason) ==
    LET cause == [origin |-> s, reason |-> reason]
        hit == Stoppable(s)
        tokens == IF s \in hit THEN Subtree(s) ELSE {}
        known(x) == \E i \in DOMAIN causes[x] : causes[x][i] = cause
    IN  /\ call[t] = Idle
        /\ \A x \in hit : known(x) \/ Len(causes[x]) < MaxCauses
        /\ state' = [x \in Scope |-> IF x \in hit THEN "Stopping" ELSE state[x]]
        /\ causes' = [x \in Scope |->
                        IF x \in hit /\ ~known(x)
                        THEN Append(causes[x], cause)
                        ELSE causes[x]]
        /\ call' = [call EXCEPT ![t] =
                        IF kind = "stop" /\ tokens = {}
                        THEN Idle
                        ELSE [kind |-> kind, scope |-> s, operation |-> o, tokens |-> tokens]]
        /\ UNCHANGED <<treeVars, body_done, terminal, cancelled, opVars,
                       outcome, owner_lost>>

(* One token wakes; the order within the token tree is the library's.      *)
CancelToken(t, x) ==
    /\ x \in call[t].tokens
    /\ cancelled' = cancelled \cup {x}
    /\ call' = [call EXCEPT ![t] =
                    IF call[t].kind = "stop" /\ call[t].tokens = {x}
                    THEN Idle
                    ELSE [call[t] EXCEPT !.tokens = @ \ {x}]]
    /\ UNCHANGED <<treeVars, state, body_done, causes, terminal, opVars,
                   outcome, owner_lost>>

Stop(t, s, reason) == s \in created /\ RequestStop(t, "stop", s, NoOperation, reason)

(* The locked half of finish_body, common to success and failure.  A       *)
(* second completion is an error that changes nothing.                     *)
BodyDone(s) ==
    IF body_done[s]
    THEN UNCHANGED <<body_done, state, outcome, terminal>>
    ELSE /\ body_done' = [body_done EXCEPT ![s] = TRUE]
         /\ Settle(s,
                   [state EXCEPT ![s] = IF @ = "Running" THEN "Draining" ELSE @],
                   [body_done EXCEPT ![s] = TRUE], outcome, owner_lost)

FinishBody(s) ==
    /\ s \in created /\ ~body_done[s]
    /\ cleanup_errors' = cleanup_errors
    /\ BodyDone(s)
    /\ UNCHANGED <<treeVars, causes, cancelled, op_scope, op_parent, dispatched,
                   completed_units, owner_lost, call>>

FailBody(t, s) ==
    s \in created /\ RequestStop(t, "finish", s, NoOperation, "ChildFailed")

FailBodyDone(t) ==
    /\ call[t].kind = "finish" /\ call[t].tokens = {}
    /\ cleanup_errors' = cleanup_errors
    /\ BodyDone(call[t].scope)
    /\ call' = [call EXCEPT ![t] = Idle]
    /\ UNCHANGED <<treeVars, causes, cancelled, op_scope, op_parent, dispatched,
                   completed_units, owner_lost>>

(* Drop of an OperationRegistration that was never completed.              *)
DropRegistration(t, o) ==
    Owned(o) /\ RequestStop(t, "drop", op_scope[o], o, "OwnerDropped")

AbandonOperation(t) ==
    LET o == call[t].operation
        lost == [owner_lost EXCEPT ![o] = TRUE]
    IN  /\ call[t].kind = "drop" /\ call[t].tokens = {}
        /\ cleanup_errors' = cleanup_errors
        /\ owner_lost' = lost
        /\ Settle(op_scope[o], state, body_done,
                  IF dispatched[o] THEN outcome
                  ELSE [outcome EXCEPT ![o] = Plain("NotDispatched")],
                  lost)
        /\ call' = [call EXCEPT ![t] = Idle]
        /\ UNCHANGED <<treeVars, body_done, causes, cancelled, op_scope,
                       op_parent, dispatched, completed_units>>

-----------------------------------------------------------------------------
Init ==
    /\ created = {Root}
    /\ parent = [s \in Scope |-> NoScope]
    /\ path = [s \in Scope |-> {s}]
    /\ state = [s \in Scope |-> "Running"]
    /\ body_done = [s \in Scope |-> FALSE]
    /\ body_claimed \in {[s \in Scope |-> FALSE], [s \in Scope |-> s = Root]}
    /\ causes = [s \in Scope |-> << >>]
    /\ terminal = [s \in Scope |-> NoReport]
    /\ cancelled = {}
    /\ op_scope = [o \in Operation |-> NoScope]
    /\ op_parent = [o \in Operation |-> NoOperation]
    /\ dispatched = [o \in Operation |-> FALSE]
    /\ outcome = [o \in Operation |-> Pending]
    /\ owner_lost = [o \in Operation |-> FALSE]
    /\ completed_units = [o \in Operation |-> NoUnits]
    /\ cleanup_errors = {}
    /\ call = [t \in Thread |-> Idle]

ScopeNext ==
    \E s \in Scope :
        \/ ClaimBody(s)
        \/ \E c \in Scope : Child(s, c)
        \/ FinishBody(s)
        \/ \E t \in Thread : FailBody(t, s)
        \/ \E t \in Thread, r \in StopReason : Stop(t, s, r)

(* Steps of the owner of o, or of an adapter working for it.               *)
OperationNext(o) ==
    \/ \E s \in Scope, p \in Operation \cup {NoOperation} : Register(s, p, o)
    \/ BeginDispatch(o)
    \/ \E k \in {"NotDispatched", "Confirmed", "Unknown"}, e \in BOOLEAN :
           CompleteOperation(o, k, e)
    \/ RecordCleanupError(o)
    \/ \E u \in Units : RecordProgress(o, u)
    \/ \E t \in Thread : DropRegistration(t, o)

(* Steps a thread owes once it is inside a call.                           *)
ThreadNext(t) ==
    \/ \E x \in Scope : CancelToken(t, x)
    \/ FailBodyDone(t)
    \/ AbandonOperation(t)

Next ==
    \/ ScopeNext
    \/ \E o \in Operation : OperationNext(o)
    \/ \E t \in Thread : ThreadNext(t)

Spec == Init /\ [][Next]_vars

(* A body ends, or the owner of an operation completes it.                 *)
Ends ==
    \/ \E s \in Scope : FinishBody(s)
    \/ \E o \in Operation, k \in {"NotDispatched", "Confirmed"} : CompleteOperation(o, k, FALSE)

-----------------------------------------------------------------------------
(* Properties *)

TypeOK ==
    /\ created \subseteq Scope /\ Root \in created
    /\ parent \in [Scope -> Scope \cup {NoScope}]
    /\ path \in [Scope -> SUBSET Scope]
    /\ state \in [Scope -> ScopeState]
    /\ body_done \in [Scope -> BOOLEAN]
    /\ body_claimed \in [Scope -> BOOLEAN]
    /\ causes \in [Scope -> Seq(CancellationCause)]
    /\ terminal \in [Scope -> TerminationReport \cup {NoReport}]
    /\ cancelled \subseteq Scope
    /\ op_scope \in [Operation -> Scope \cup {NoScope}]
    /\ op_parent \in [Operation -> Operation \cup {NoOperation}]
    /\ dispatched \in [Operation -> BOOLEAN]
    /\ outcome \in [Operation -> ExternalOutcome]
    /\ owner_lost \in [Operation -> BOOLEAN]
    /\ completed_units \in [Operation -> Units \cup {NoUnits}]
    /\ cleanup_errors \subseteq Operation
    /\ call \in [Thread -> Call]

(* A terminated scope has nothing left running below it: every scope of    *)
(* its subtree has terminated and every operation registered there has an  *)
(* outcome.  This is what join and wait_stopped promise their caller.      *)
TerminationIsQuiet ==
    \A s \in created : state[s] = "Terminated" =>
        \A t \in Subtree(s) :
            /\ state[t] = "Terminated" /\ terminal[t] # NoReport
            /\ \A o \in OperationsOf(t) : outcome[o] # Pending

(* The report published when a scope terminates lists exactly the          *)
(* operations ever registered below it, with the evidence they have now:   *)
(* nothing is registered, settled or amended there after the report.       *)
ReportIsComplete ==
    \A s \in created : state[s] = "Terminated" =>
        terminal[s].operations =
            {[id |-> o, dispatched |-> dispatched[o], outcome |-> outcome[o],
              owner_lost |-> owner_lost[o], cleanup_errors |-> o \in cleanup_errors] :
                o \in {p \in Operation : op_scope[p] \in Subtree(s)}}

(* No termination is missed, although settle only looks at the scope that  *)
(* changed and walks up from it: a scope whose body, operations and        *)
(* children are all done has terminated, and a lost owner whose            *)
(* supervisors are all settled has an outcome.                             *)
NothingIsStranded ==
    /\ \A s \in created : ~Ready(s, body_done, outcome, {})
    /\ \A s \in created : Delegated(s, outcome, owner_lost, {}) = {}

(* Stopping is closed downwards and explained: below a stopping scope      *)
(* every scope is stopping or terminated, and each stopping scope has a    *)
(* cause whose origin is on its own path to the root, so that stopping a   *)
(* child never stops its parent or a sibling.                              *)
StopReachesSubtree ==
    \A s \in created : state[s] = "Stopping" =>
        /\ \A t \in Subtree(s) : state[t] \in {"Stopping", "Terminated"}
        /\ causes[s] # << >>
        /\ \A i \in DOMAIN causes[s] : causes[s][i].origin \in path[s]

(* Whoever a token wakes while its scope is alive finds the cause already  *)
(* published, and finds the scope closed for admission.                    *)
CauseBeforeWake ==
    \A s \in cancelled :
        /\ state[s] \in {"Stopping", "Terminated"}
        /\ state[s] = "Stopping" => causes[s] # << >>

(* The published evidence is certain where it claims to be: NotDispatched  *)
(* is reported exactly for operations that never passed begin_dispatch,    *)
(* and progress once recorded is never reported as plain Unknown.          *)
EvidenceIsSound ==
    \A o \in Operation : outcome[o] # Pending =>
        /\ outcome[o].kind = "NotDispatched" <=> ~dispatched[o]
        /\ outcome[o].kind = "Unknown" => completed_units[o] = NoUnits
        /\ outcome[o].kind = "Partial" => outcome[o].units = completed_units[o]

(* Once a cause is on record for a scope, its subtree only shrinks: no     *)
(* scope or operation joins it and nothing registered there is dispatched. *)
ClosedStep ==
    \A s \in created : causes[s] # << >> =>
        /\ Subtree(s)' = Subtree(s)
        /\ \A o \in Operation : op_scope'[o] \in Subtree(s) =>
              op_scope[o] = op_scope'[o] /\ dispatched'[o] = dispatched[o]

(* Every step obeys it: request_stop closes admission for good.            *)
StopClosesAdmission == [][ClosedStep]_vars

(* What has been published stays: an outcome, a termination report and     *)
(* the first cause are never replaced, and causes are only appended.       *)
PublishedStep ==
    /\ \A o \in Operation : outcome[o] # Pending => outcome'[o] = outcome[o]
    /\ \A s \in Scope : terminal[s] # NoReport =>
          terminal'[s] = terminal[s] /\ causes'[s] = causes[s]
    /\ \A s \in Scope : \A i \in DOMAIN causes[s] :
          i \in DOMAIN causes'[s] /\ causes'[s][i] = causes[s][i]

(* Every step obeys it: no call amends what a report has said.             *)
PublishedIsFinal == [][PublishedStep]_vars

(* The documented life cycle: Running to Draining or Stopping, Draining to *)
(* Stopping, and to Terminated from Draining or Stopping or, when the last *)
(* body to finish has nothing pending, directly.                           *)
LifeCycleStep ==
    \A s \in Scope : state'[s] # state[s] =>
        \/ state[s] = "Running"
        \/ state[s] = "Draining" /\ state'[s] \in {"Stopping", "Terminated"}
        \/ state[s] = "Stopping" /\ state'[s] = "Terminated"

(* Every step obeys it: Node.state never moves backwards.                  *)
LifeCycle == [][LifeCycleStep]_vars

(* The whole tree comes to an end, whatever was stopped or dropped in      *)
(* between, with one documented exception: a dispatched operation whose    *)
(* owner was lost and which nobody supervises stays pending for good.      *)
TreeTerminates ==
    <>(\/ state[Root] = "Terminated"
       \/ \E o \in Operation : /\ owner_lost[o] /\ outcome[o] = Pending
                               /\ Supervisors(o) = {})

=============================================================================
