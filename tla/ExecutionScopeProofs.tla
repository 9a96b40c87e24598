------------------------ MODULE ExecutionScopeProofs ------------------------
(***************************************************************************)
(* The safety properties of the scope registry, proved for every set of    *)
(* scopes, operations and threads: type correctness; what one settle does; *)
(* and, call by call, that the registry keeps the inductive invariant,     *)
(* where calls that end a body or an operation are steps of settle.        *)
(***************************************************************************)
EXTENDS ExecutionScopeInvariant, TLAPS

(* Most leaves are first-order; the ones that need more name SMT.          *)
USE Zenon

USE DEF NoUnits, Units, OutcomeKind, ExternalOutcome, Plain, Pending

-----------------------------------------------------------------------------
(* Type correctness *)

(* What a lost or uncertain operation reports is an outcome.               *)
LEMMA UncertainType ==
    ASSUME TypeOK, NEW o \in Operation
    PROVE  Uncertain(o) \in ExternalOutcome /\ Uncertain(o) # Pending
BY BoundAssumption DEF Uncertain, TypeOK

(* The report of a scope is a report.                                      *)
LEMMA ReportType ==
    ASSUME TypeOK, cleanup_errors' \subseteq Operation,
           NEW s \in Scope, NEW W \in SUBSET Scope,
           NEW out \in [Operation -> ExternalOutcome],
           NEW lost \in [Operation -> BOOLEAN]
    PROVE  ReportFor(s, W, out, lost) \in TerminationReport
<1>1. ASSUME NEW o \in Operation
      PROVE  ReportOf(o, out, lost) \in OperationReport
  BY SMT DEF ReportOf, OperationReport, TypeOK
<1>2. ASSUME NEW c \in Scope
      PROVE  terminal[c].operations \subseteq OperationReport
  <2>1. terminal[c] \in TerminationReport \cup {NoReport}
    BY DEF TypeOK
  <2>2. CASE terminal[c] = NoReport
    BY <2>2, SMT DEF NoReport
  <2>3. CASE terminal[c] \in TerminationReport
    BY <2>3 DEF TerminationReport
  <2>4. QED
    BY <2>1, <2>2, <2>3
<1>3. ASSUME NEW w \in Scope
      PROVE  {ReportOf(o, out, lost) : o \in OperationsOf(w)}
               \cup UNION {terminal[c].operations : c \in Children(w) \ W}
             \subseteq OperationReport
  <2>1. {ReportOf(o, out, lost) : o \in OperationsOf(w)} \subseteq OperationReport
    BY <1>1 DEF OperationsOf
  <2>2. UNION {terminal[c].operations : c \in Children(w) \ W} \subseteq OperationReport
    BY <1>2, SMT DEF Children, TypeOK
  <2>3. QED
    BY <2>1, <2>2
<1>4. ReportFor(s, W, out, lost).operations \subseteq OperationReport
  BY <1>3 DEF ReportFor
<1>5. OutcomeOf(s) \in ScopeOutcome
  BY DEF OutcomeOf, ScopeOutcome
<1>6. causes[s] \in Seq(CancellationCause)
  BY DEF TypeOK
<1>7. QED
  BY <1>4, <1>5, <1>6 DEF ReportFor, TerminationReport

(* settle keeps outcome, state and terminal well typed.                    *)
LEMMA SettleType ==
    ASSUME TypeOK, cleanup_errors' \subseteq Operation,
           NEW id, NEW st \in [Scope -> ScopeState],
           NEW done, NEW out \in [Operation -> ExternalOutcome],
           NEW lost \in [Operation -> BOOLEAN],
           Settle(id, st, done, out, lost)
    PROVE  /\ outcome' \in [Operation -> ExternalOutcome]
           /\ state' \in [Scope -> ScopeState]
           /\ terminal' \in [Scope -> TerminationReport \cup {NoReport}]
<1> DEFINE supervised == SettledBySupervisors(id, out, lost)
           out2 == [o \in Operation |-> IF o \in supervised THEN Uncertain(o) ELSE out[o]]
           W == Terminating(id, done, out2)
<1>1. /\ outcome' = out2
      /\ state' = [s \in Scope |-> IF s \in W THEN "Terminated" ELSE st[s]]
      /\ terminal' = [s \in Scope |->
                          IF s \in W THEN ReportFor(s, W, out2, lost) ELSE terminal[s]]
  BY DEF Settle
<1>2. out2 \in [Operation -> ExternalOutcome]
  BY UncertainType
<1>3. W \in SUBSET Scope
  BY DEF Terminating
<1>4. \A s \in Scope : ReportFor(s, W, out2, lost) \in TerminationReport
  <2> HIDE DEF W, out2
  <2> QED BY <1>2, <1>3, ReportType
<1> HIDE DEF W, out2
<1>5. QED
  BY <1>1, <1>2, <1>4 DEF TypeOK, ScopeState

(* request_stop under the lock keeps its variables well typed.             *)
LEMMA RequestStopType ==
    ASSUME TypeOK, NEW t \in Thread, NEW kind \in {"stop", "finish", "drop"},
           NEW s \in Scope, NEW o \in Operation \cup {NoOperation},
           NEW reason \in CancellationReason,
           RequestStop(t, kind, s, o, reason)
    PROVE  TypeOK'
<1> DEFINE cause == [origin |-> s, reason |-> reason]
<1>1. cause \in CancellationCause
  BY DEF CancellationCause
<1>2. state' \in [Scope -> ScopeState]
  BY DEF RequestStop, TypeOK, ScopeState
<1>3. causes' \in [Scope -> Seq(CancellationCause)]
  <2>1. \A x \in Scope : Append(causes[x], cause) \in Seq(CancellationCause)
    BY <1>1, SMT DEF TypeOK
  <2>2. \A x \in Scope : causes[x] \in Seq(CancellationCause)
    BY DEF TypeOK
  <2> HIDE DEF cause
  <2>3. \A x \in Scope : causes'[x] \in {causes[x], Append(causes[x], cause)}
    BY DEF RequestStop, cause
  <2>4. causes' = [x \in Scope |-> causes'[x]]
    BY DEF RequestStop
  <2>5. QED
    BY <2>1, <2>2, <2>3, <2>4
<1>4. call' \in [Thread -> Call]
  <2>1. Subtree(s) \subseteq Scope
    BY DEF Subtree, TypeOK
  <2>2. Idle \in Call
    BY DEF Idle, Call
  <2>3. \A tk \in SUBSET Scope :
            [kind |-> kind, scope |-> s, operation |-> o, tokens |-> tk] \in Call
    BY DEF Call
  <2>4. \E v \in Call : call' = [call EXCEPT ![t] = v]
    BY <2>1, <2>2, <2>3 DEF RequestStop
  <2>5. QED
    BY <2>4 DEF TypeOK
<1>5. QED
  BY <1>2, <1>3, <1>4 DEF RequestStop, TypeOK, treeVars, opVars

(* So does the locked half of finish_body.                                 *)
LEMMA BodyDoneType ==
    ASSUME TypeOK, cleanup_errors' = cleanup_errors, NEW s, BodyDone(s)
    PROVE  /\ body_done' \in [Scope -> BOOLEAN]
           /\ outcome' \in [Operation -> ExternalOutcome]
           /\ state' \in [Scope -> ScopeState]
           /\ terminal' \in [Scope -> TerminationReport \cup {NoReport}]
<1> DEFINE st == [state EXCEPT ![s] = IF @ = "Running" THEN "Draining" ELSE @]
<1>1. CASE body_done[s]
  BY <1>1 DEF BodyDone, TypeOK
<1>2. CASE ~body_done[s]
  <2>1. /\ body_done' = [body_done EXCEPT ![s] = TRUE]
        /\ Settle(s, st, [body_done EXCEPT ![s] = TRUE], outcome, owner_lost)
    BY <1>2 DEF BodyDone
  <2>2. st \in [Scope -> ScopeState] /\ body_done' \in [Scope -> BOOLEAN]
    BY <2>1 DEF TypeOK, ScopeState
  <2>3. /\ outcome \in [Operation -> ExternalOutcome]
        /\ owner_lost \in [Operation -> BOOLEAN]
        /\ cleanup_errors' \subseteq Operation
    BY DEF TypeOK
  <2> HIDE DEF st
  <2>4. QED
    BY <2>1, <2>2, <2>3, SettleType
<1>3. QED
  BY <1>1, <1>2

(* The registry starts well typed and every call keeps it so.              *)
LEMMA TypeStep == TypeOK /\ [Next]_vars => TypeOK'
<1> SUFFICES ASSUME TypeOK, [Next]_vars PROVE TypeOK'
  OBVIOUS
<1>1. ASSUME NEW s \in Scope, ClaimBody(s) PROVE TypeOK'
  BY <1>1 DEF ClaimBody, TypeOK, opVars
<1>2. ASSUME NEW s \in Scope, NEW c \in Scope, Child(s, c) PROVE TypeOK'
  BY <1>2 DEF Child, TypeOK, opVars
<1>3. ASSUME NEW s \in Scope, FinishBody(s) PROVE TypeOK'
  <2>1. BodyDone(s) /\ cleanup_errors' = cleanup_errors
    BY <1>3 DEF FinishBody
  <2>2. QED
    BY <1>3, <2>1, BodyDoneType DEF FinishBody, TypeOK, treeVars
<1>4. ASSUME NEW t \in Thread, NEW s \in Scope, FailBody(t, s) PROVE TypeOK'
  BY <1>4, RequestStopType DEF FailBody, CancellationReason
<1>5. ASSUME NEW t \in Thread, NEW s \in Scope, NEW r \in StopReason, Stop(t, s, r)
      PROVE  TypeOK'
  BY <1>5, RequestStopType DEF Stop, CancellationReason
<1>6. ASSUME NEW o \in Operation, NEW s \in Scope,
             NEW p \in Operation \cup {NoOperation}, Register(s, p, o)
      PROVE  TypeOK'
  BY <1>6 DEF Register, TypeOK, treeVars
<1>7. ASSUME NEW o \in Operation, BeginDispatch(o) PROVE TypeOK'
  BY <1>7 DEF BeginDispatch, TypeOK, treeVars
<1>8. ASSUME NEW o \in Operation, NEW k \in {"NotDispatched", "Confirmed", "Unknown"},
             NEW e \in BOOLEAN, CompleteOperation(o, k, e)
      PROVE  TypeOK'
  <2> DEFINE v == IF k = "Unknown" THEN Uncertain(o) ELSE Plain(k)
             out == [outcome EXCEPT ![o] = v]
  <2>1. cleanup_errors' \subseteq Operation
    BY <1>8 DEF CompleteOperation, TypeOK
  <2>2. v \in ExternalOutcome
    BY UncertainType
  <2>3. out \in [Operation -> ExternalOutcome]
    <3> HIDE DEF v
    <3> QED BY <2>2 DEF TypeOK
  <2>4. Settle(op_scope[o], state, body_done, out, owner_lost)
    BY <1>8 DEF CompleteOperation
  <2>5. owner_lost \in [Operation -> BOOLEAN] /\ state \in [Scope -> ScopeState]
    BY DEF TypeOK
  <2> HIDE DEF out
  <2>6. /\ outcome' \in [Operation -> ExternalOutcome]
        /\ state' \in [Scope -> ScopeState]
        /\ terminal' \in [Scope -> TerminationReport \cup {NoReport}]
    BY <2>1, <2>3, <2>4, <2>5, SettleType
  <2>7. QED
    BY <1>8, <2>1, <2>6 DEF CompleteOperation, TypeOK, treeVars
<1>9. ASSUME NEW o \in Operation, RecordCleanupError(o) PROVE TypeOK'
  BY <1>9 DEF RecordCleanupError, TypeOK, treeVars
<1>10. ASSUME NEW o \in Operation, NEW u \in Units, RecordProgress(o, u) PROVE TypeOK'
  BY <1>10 DEF RecordProgress, TypeOK, treeVars
<1>11. ASSUME NEW o \in Operation, NEW t \in Thread, DropRegistration(t, o) PROVE TypeOK'
  <2>1. op_scope[o] \in Scope
    BY <1>11 DEF DropRegistration, Owned, Active, Registered, TypeOK
  <2>2. QED
    BY <1>11, <2>1, RequestStopType DEF DropRegistration, CancellationReason
<1>12. ASSUME NEW t \in Thread, NEW x \in Scope, CancelToken(t, x) PROVE TypeOK'
  <2>1. call[t] \in Call /\ Idle \in Call
    BY DEF TypeOK, Idle, Call
  <2>2. [call[t] EXCEPT !.tokens = @ \ {x}] \in Call
    BY <2>1 DEF Call
  <2>3. \E v \in Call : call' = [call EXCEPT ![t] = v]
    BY <1>12, <2>1, <2>2 DEF CancelToken
  <2>4. call' \in [Thread -> Call]
    BY <2>3 DEF TypeOK
  <2>5. QED
    BY <1>12, <2>4 DEF CancelToken, TypeOK, treeVars, opVars
<1>13. ASSUME NEW t \in Thread, FailBodyDone(t) PROVE TypeOK'
  <2>1. BodyDone(call[t].scope) /\ cleanup_errors' = cleanup_errors
    BY <1>13 DEF FailBodyDone
  <2>2. call' \in [Thread -> Call]
    BY <1>13 DEF FailBodyDone, TypeOK, Idle, Call
  <2>3. QED
    BY <1>13, <2>1, <2>2, BodyDoneType DEF FailBodyDone, TypeOK, treeVars
<1>14. ASSUME NEW t \in Thread, AbandonOperation(t) PROVE TypeOK'
  <2> DEFINE o == call[t].operation
             lost == [owner_lost EXCEPT ![o] = TRUE]
             out == IF dispatched[o] THEN outcome
                    ELSE [outcome EXCEPT ![o] = Plain("NotDispatched")]
  <2>1. /\ Settle(op_scope[o], state, body_done, out, lost)
        /\ owner_lost' = lost /\ cleanup_errors' = cleanup_errors
    BY <1>14 DEF AbandonOperation
  <2>2. /\ lost \in [Operation -> BOOLEAN]
        /\ out \in [Operation -> ExternalOutcome]
        /\ state \in [Scope -> ScopeState]
        /\ cleanup_errors \subseteq Operation
    BY DEF TypeOK
  <2> HIDE DEF lost, out
  <2>3. /\ outcome' \in [Operation -> ExternalOutcome]
        /\ state' \in [Scope -> ScopeState]
        /\ terminal' \in [Scope -> TerminationReport \cup {NoReport}]
    BY <2>1, <2>2, SettleType
  <2>4. call' \in [Thread -> Call]
    BY <1>14 DEF AbandonOperation, TypeOK, Idle, Call
  <2>5. QED
    BY <1>14, <2>1, <2>2, <2>3, <2>4 DEF AbandonOperation, TypeOK, treeVars
<1>15. CASE UNCHANGED vars
  BY <1>15 DEF vars, treeVars, opVars, TypeOK
<1>16. QED
  BY <1>1, <1>2, <1>3, <1>4, <1>5, <1>6, <1>7, <1>8, <1>9, <1>10, <1>11, <1>12,
     <1>13, <1>14, <1>15
  DEF Next, ScopeNext, OperationNext, ThreadNext

(* The registry is always well typed, whatever its callers do.             *)
THEOREM TypeCorrect == Spec => []TypeOK
<1>1. Init => TypeOK
  <2> SUFFICES ASSUME Init PROVE TypeOK
    OBVIOUS
  <2>1. Idle \in Call
    BY DEF Idle, Call
  <2>2. body_claimed \in [Scope -> BOOLEAN]
    BY DEF Init
  <2>3. causes \in [Scope -> Seq(CancellationCause)]
    BY SMT DEF Init
  <2>4. outcome \in [Operation -> ExternalOutcome]
    BY DEF Init
  <2>5. call \in [Thread -> Call] /\ terminal \in [Scope -> TerminationReport \cup {NoReport}]
    BY <2>1 DEF Init
  <2>6. QED
    BY <2>2, <2>3, <2>4, <2>5, ScopeAssumption DEF Init, TypeOK, ScopeState
<1>2. QED
  BY <1>1, TypeStep, PTL DEF Spec

-----------------------------------------------------------------------------
(* The two least sets of settle *)

(* The walk of settle finds more when more scopes have terminated.         *)
LEMMA WalkUpMonotone ==
    ASSUME NEW id, NEW done, NEW out, NEW T, NEW U, T \subseteq U
    PROVE  WalkUp(id, done, out, T) \subseteq WalkUp(id, done, out, U)
BY DEF WalkUp, Ready

(* A set closed under the walk holds every scope that terminates.          *)
LEMMA TerminatingLeast ==
    ASSUME NEW id, NEW done, NEW out, NEW T \in SUBSET Scope,
           WalkUp(id, done, out, T) \subseteq T
    PROVE  Terminating(id, done, out) \subseteq T
BY DEF Terminating

(* The scopes that terminate are exactly what the walk finds from them.    *)
LEMMA TerminatingFixed ==
    ASSUME created \subseteq Scope, NEW id, NEW done, NEW out
    PROVE  WalkUp(id, done, out, Terminating(id, done, out)) = Terminating(id, done, out)
<1> DEFINE W == Terminating(id, done, out)
           F(T) == WalkUp(id, done, out, T)
<1>1. W \in SUBSET Scope
  BY DEF Terminating
<1>2. \A T : F(T) \in SUBSET Scope
  BY DEF WalkUp
<1>3. ASSUME NEW T \in SUBSET Scope, F(T) \subseteq T PROVE F(W) \subseteq T
  <2>1. W \subseteq T
    BY <1>3, TerminatingLeast
  <2>2. F(W) \subseteq F(T)
    <3> HIDE DEF W
    <3> QED BY <2>1, WalkUpMonotone
  <2>3. QED
    BY <1>3, <2>2
<1>4. F(W) \subseteq W
  <2> SUFFICES ASSUME NEW s \in F(W), NEW T \in SUBSET Scope, F(T) \subseteq T
               PROVE  s \in T
    BY <1>2 DEF Terminating
  <2> QED BY <1>3
<1>5. F(F(W)) \subseteq F(W)
  <2> DEFINE FW == F(W)
  <2> HIDE DEF W
  <2>1. FW \subseteq W
    BY <1>4
  <2> HIDE DEF FW
  <2>2. F(FW) \subseteq F(W)
    BY <2>1, WalkUpMonotone
  <2> QED BY <2>2 DEF FW
<1>6. W \subseteq F(W)
  <2> DEFINE FW == F(W)
  <2>1. FW \in SUBSET Scope /\ WalkUp(id, done, out, FW) \subseteq FW
    BY <1>2, <1>5
  <2> HIDE DEF FW
  <2>2. W \subseteq FW
    BY <2>1, TerminatingLeast
  <2> QED BY <2>2 DEF FW
<1>7. QED
  BY <1>4, <1>6

(* Likewise for the lost owners: more supervisors settled, more found.     *)
LEMMA DelegatedMonotone ==
    ASSUME NEW id, NEW out, NEW lost, NEW T, NEW U, T \subseteq U
    PROVE  Delegated(id, out, lost, T) \subseteq Delegated(id, out, lost, U)
BY DEF Delegated

(* The lost owners settled are exactly those whose supervisors have an     *)
(* outcome once they are settled.                                          *)
LEMMA SettledFixed ==
    ASSUME NEW id, NEW out, NEW lost
    PROVE  Delegated(id, out, lost, SettledBySupervisors(id, out, lost))
             = SettledBySupervisors(id, out, lost)
<1> DEFINE D == SettledBySupervisors(id, out, lost)
           F(T) == Delegated(id, out, lost, T)
<1>1. D \in SUBSET Operation
  BY DEF SettledBySupervisors
<1>2. \A T : F(T) \in SUBSET Operation
  BY DEF Delegated, OperationsOf
<1>3. ASSUME NEW T \in SUBSET Operation, F(T) \subseteq T PROVE D \subseteq T /\ F(D) \subseteq T
  <2>1. D \subseteq T
    BY <1>3 DEF SettledBySupervisors
  <2>2. F(D) \subseteq F(T)
    <3> HIDE DEF D
    <3> QED BY <2>1, DelegatedMonotone
  <2>3. QED
    BY <1>3, <2>1, <2>2
<1>4. F(D) \subseteq D
  <2> SUFFICES ASSUME NEW s \in F(D), NEW T \in SUBSET Operation, F(T) \subseteq T
               PROVE  s \in T
    BY <1>2 DEF SettledBySupervisors
  <2> QED BY <1>3
<1>5. D \subseteq F(D)
  <2> DEFINE FD == F(D)
  <2> HIDE DEF D
  <2>1. FD \subseteq D /\ FD \in SUBSET Operation
    BY <1>2, <1>4
  <2> HIDE DEF FD
  <2>2. F(FD) \subseteq F(D)
    BY <2>1, DelegatedMonotone
  <2>3. F(FD) \subseteq FD
    BY <2>2 DEF FD
  <2> QED BY <1>3, <2>1, <2>3 DEF FD
<1>6. QED
  BY <1>4, <1>5

-----------------------------------------------------------------------------
(* Subtrees, and what a step that leaves some variables alone keeps *)

(* Subtrees nest.                                                          *)
LEMMA SubtreeNests ==
    ASSUME TreeInv, TypeOK, NEW s \in created, NEW c \in Subtree(s)
    PROVE  /\ Subtree(c) \subseteq Subtree(s)
           /\ \A d \in Children(c) : d \in Subtree(s)
<1>1. c \in created /\ s \in path[c] /\ c # NoScope
  BY ScopeAssumption DEF Subtree, TypeOK
<1>2. Subtree(c) \subseteq Subtree(s)
  BY <1>1 DEF TreeInv, Subtree
<1>3. \A d \in Children(c) : d \in created /\ c \in path[d]
  BY <1>1 DEF TreeInv, Children
<1>4. QED
  BY <1>2, <1>3 DEF Subtree

(* What is about the scopes alone.                                         *)
LEMMA TreeFrame ==
    ASSUME SafetyInv,
           UNCHANGED <<created, parent, path, state, body_done, causes, terminal>>
    PROVE  /\ cancelled' = cancelled => TreeInv' /\ CauseBeforeWake'
           /\ StateInv' /\ StopReachesSubtree'
BY SMT DEF SafetyInv, TreeInv, CauseBeforeWake, StateInv, StopReachesSubtree, Subtree

(* What is about unfinished work, in a step that terminates no scope.      *)
LEMMA QuietFrame ==
    ASSUME SafetyInv,
           UNCHANGED <<created, parent, path, body_done, terminal, op_scope, op_parent,
                       outcome, owner_lost>>,
           \A x \in created : state'[x] = "Terminated" <=> state[x] = "Terminated"
    PROVE  NothingIsStranded' /\ TerminationIsQuiet'
<1>1. NothingIsStranded'
  BY SMT DEF SafetyInv, NothingIsStranded, Ready, Delegated, OperationsOf, Children, Supervisors
<1>2. TerminationIsQuiet'
  BY SMT DEF SafetyInv, TerminationIsQuiet, Subtree, OperationsOf, TreeInv
<1>3. QED
  BY <1>1, <1>2

(* What is about the operations, in a step that terminates no scope.       *)
LEMMA OperationFrame ==
    ASSUME SafetyInv,
           UNCHANGED <<created, parent, path, body_done, terminal, opVars, outcome,
                       owner_lost>>,
           \A x \in created : state'[x] = "Terminated" <=> state[x] = "Terminated"
    PROVE  /\ OperationInv' /\ EvidenceIsSound' /\ NothingIsStranded'
           /\ TerminationIsQuiet' /\ ReportIsComplete'
<1>1. OperationInv' /\ EvidenceIsSound'
  BY DEF SafetyInv, OperationInv, EvidenceIsSound, Registered, opVars
<1>2. ReportIsComplete'
  BY DEF SafetyInv, ReportIsComplete, Subtree, opVars
<1>3. QED
  BY <1>1, <1>2, QuietFrame DEF opVars

(* What is about the threads inside a call.                                *)
LEMMA CallFrame ==
    ASSUME CallInv, UNCHANGED <<call, created, state, op_scope, outcome, owner_lost>>
    PROVE  CallInv'
BY DEF CallInv, Active, Registered

-----------------------------------------------------------------------------
(* What one settle does to the scopes and the operations: which scopes it  *)
(* terminates, which outcomes it sets, and that the scopes it terminates   *)
(* have come to rest.                                                      *)

(* The evidence an outcome v of o stands on.                               *)
Evidence(o, v) ==
    /\ v.kind = "NotDispatched" <=> ~dispatched[o]
    /\ v.kind = "Unknown" => completed_units[o] = NoUnits
    /\ v.kind = "Partial" => v.units = completed_units[o]

(* What the callers of settle have in common: they change scope id and     *)
(* pending operations of scope id, nothing else, and settle does the rest. *)
SettleStep(id, st, done, out, lost) ==
    /\ id \in created
    /\ st \in [Scope -> ScopeState] /\ done \in [Scope -> BOOLEAN]
    /\ out \in [Operation -> ExternalOutcome] /\ lost \in [Operation -> BOOLEAN]
    /\ \A s \in Scope :
          /\ done[s] # body_done[s] => s = id /\ done[s]
          /\ st[s] # state[s] => s = id /\ state[s] = "Running" /\ st[s] = "Draining"
    /\ \A o \in Operation :
          /\ out[o] # outcome[o] => /\ op_scope[o] = id /\ outcome[o] = Pending
                                    /\ out[o] # Pending /\ Evidence(o, out[o])
          /\ lost[o] # owner_lost[o] => op_scope[o] = id /\ outcome[o] = Pending /\ lost[o]
          /\ o \in cleanup_errors' \ cleanup_errors => op_scope[o] = id /\ outcome[o] = Pending
          /\ lost[o] /\ out[o] = Pending => dispatched[o]
    /\ Settle(id, st, done, out, lost)
    /\ body_done' = done /\ owner_lost' = lost
    /\ cleanup_errors \subseteq cleanup_errors' /\ cleanup_errors' \subseteq Operation
    /\ UNCHANGED <<treeVars, causes, cancelled, op_scope, op_parent, dispatched,
                   completed_units>>

(* Such a step, by a caller that leaves the calls of other threads alone,  *)
(* and the registrations they are dropping.                                *)
SomeSettle ==
    \E id, st, done, out, lost :
        /\ SettleStep(id, st, done, out, lost)
        /\ \A u \in Thread : call'[u] = call[u] \/ call'[u] = Idle
        /\ \A u \in Thread : call'[u].kind = "drop" =>
              /\ out[call[u].operation] = outcome[call[u].operation]
              /\ lost[call[u].operation] = owner_lost[call[u].operation]

(* The scopes W that settle terminates, and why.                           *)
Terminates(id, st, done, lost, W) ==
    /\ W \subseteq created
    /\ WalkUp(id, done, outcome', W) = W
    /\ \A T \in SUBSET Scope : WalkUp(id, done, outcome', T) \subseteq T => W \subseteq T
    /\ state' = [s \in Scope |-> IF s \in W THEN "Terminated" ELSE st[s]]
    /\ terminal' = [s \in Scope |->
                       IF s \in W THEN ReportFor(s, W, outcome', lost) ELSE terminal[s]]
    /\ \A s \in W : terminal'[s] # NoReport

(* settle terminates such a set of scopes.                                 *)
LEMMA SettleTerminates ==
    ASSUME TypeOK, NEW STATE id, NEW STATE st, NEW STATE done,
           NEW STATE out, NEW STATE lost,
           SettleStep(id, st, done, out, lost)
    PROVE  \E W : Terminates(id, st, done, lost, W)
<1> DEFINE supervised == SettledBySupervisors(id, out, lost)
           out2 == [o \in Operation |-> IF o \in supervised THEN Uncertain(o) ELSE out[o]]
           W == Terminating(id, done, out2)
<1>1. /\ outcome' = out2
      /\ state' = [s \in Scope |-> IF s \in W THEN "Terminated" ELSE st[s]]
      /\ terminal' = [s \in Scope |->
                          IF s \in W THEN ReportFor(s, W, out2, lost) ELSE terminal[s]]
  BY DEF SettleStep, Settle
<1>2. created \subseteq Scope
  BY DEF TypeOK
<1> HIDE DEF out2
<1>3. WalkUp(id, done, out2, W) = W
  BY <1>2, TerminatingFixed
<1>4. \A T \in SUBSET Scope : WalkUp(id, done, out2, T) \subseteq T => W \subseteq T
  BY TerminatingLeast
<1> HIDE DEF W
<1>5. W \subseteq created
  BY <1>3 DEF WalkUp
<1>6. \A s \in W : terminal'[s] # NoReport
  <2> SUFFICES ASSUME NEW s \in W PROVE terminal'[s].outcome # "None"
    BY SMT DEF NoReport
  <2>1. terminal'[s] = ReportFor(s, W, out2, lost)
    BY <1>1, <1>2, <1>5
  <2>2. terminal'[s].outcome = OutcomeOf(s)
    BY <2>1, SMT DEF ReportFor
  <2>3. QED
    BY <2>2 DEF OutcomeOf
<1>7. QED
  BY <1>1, <1>3, <1>4, <1>5, <1>6 DEF Terminates

(* What settle does to outcomes: pending ones of scope id become final.    *)
LEMMA SettleOutcomes ==
    ASSUME TypeOK, NEW STATE id, NEW STATE st, NEW STATE done,
           NEW STATE out, NEW STATE lost,
           SettleStep(id, st, done, out, lost)
    PROVE  /\ \A o \in Operation : outcome'[o] # outcome[o] =>
                 /\ op_scope[o] = id /\ outcome[o] = Pending
                 /\ outcome'[o] # Pending /\ Evidence(o, outcome'[o])
                 /\ out[o] # Pending \/ lost[o]
           /\ \A o \in Operation : out[o] # Pending => outcome'[o] = out[o]
           /\ \A o \in Operation : outcome'[o] = Pending => out[o] = Pending
           /\ Delegated(id, outcome', lost, {}) = {}
<1> DEFINE D == SettledBySupervisors(id, out, lost)
           out2 == [o \in Operation |-> IF o \in D THEN Uncertain(o) ELSE out[o]]
<1>1. outcome' = out2
  BY DEF SettleStep, Settle
<1>2. Delegated(id, out, lost, D) = D
  BY SettledFixed
<1> HIDE DEF D
<1>3. D \subseteq Operation
  BY <1>2 DEF Delegated, OperationsOf
<1>4. \A o \in D : /\ op_scope[o] = id /\ lost[o] /\ out[o] = Pending
                   /\ dispatched[o] /\ outcome'[o] = Uncertain(o)
  BY <1>1, <1>2, <1>3, SMT DEF Delegated, OperationsOf, SettleStep
<1>5. \A o \in Operation \ D : outcome'[o] = out[o]
  BY <1>1
<1>6. \A o \in D : outcome'[o] # Pending /\ Evidence(o, outcome'[o])
  <2> SUFFICES ASSUME NEW o \in D PROVE outcome'[o] # Pending /\ Evidence(o, outcome'[o])
    OBVIOUS
  <2>1. o \in Operation /\ dispatched[o] /\ outcome'[o] = Uncertain(o)
    BY <1>3, <1>4
  <2>2. Uncertain(o) # Pending
    BY <2>1, UncertainType
  <2>3. Evidence(o, Uncertain(o))
    <3>1. CASE completed_units[o] = NoUnits
      <4>1. Uncertain(o).kind = "Unknown"
        BY <3>1 DEF Uncertain, Plain
      <4>2. QED
        BY <2>1, <3>1, <4>1 DEF Evidence
    <3>2. CASE completed_units[o] # NoUnits
      <4>1. Uncertain(o).kind = "Partial" /\ Uncertain(o).units = completed_units[o]
        BY <3>2 DEF Uncertain
      <4>2. QED
        BY <2>1, <4>1 DEF Evidence
    <3>3. QED
      BY <3>1, <3>2
  <2>4. QED
    BY <2>1, <2>2, <2>3
<1>7. Delegated(id, outcome', lost, {}) = {}
  <2> SUFFICES ASSUME NEW o \in Delegated(id, outcome', lost, {}) PROVE FALSE
    OBVIOUS
  <2>1. /\ o \in OperationsOf(id) /\ lost[o] /\ outcome'[o] = Pending
        /\ Supervisors(o) # {}
        /\ \A c \in Supervisors(o) : outcome'[c] # Pending
    BY DEF Delegated
  <2>2. o \in Operation \ D /\ out[o] = Pending
    BY <1>5, <1>6, <2>1 DEF OperationsOf
  <2>3. \A c \in Supervisors(o) : out[c] # Pending \/ c \in D
    BY <1>5, <2>1 DEF Supervisors
  <2>4. o \in Delegated(id, out, lost, D)
    BY <2>1, <2>2, <2>3 DEF Delegated
  <2>5. QED
    BY <1>2, <2>2, <2>4
<1>8. \A o \in Operation : out[o] # outcome[o] =>
          op_scope[o] = id /\ outcome[o] = Pending /\ out[o] # Pending /\ Evidence(o, out[o])
  BY DEF SettleStep
<1>9. \A o \in Operation : outcome'[o] # outcome[o] =>
                 /\ op_scope[o] = id /\ outcome[o] = Pending
                 /\ outcome'[o] # Pending /\ Evidence(o, outcome'[o])
                 /\ out[o] # Pending \/ lost[o]
  <2> SUFFICES ASSUME NEW o \in Operation, outcome'[o] # outcome[o]
               PROVE  /\ op_scope[o] = id /\ outcome[o] = Pending
                      /\ outcome'[o] # Pending /\ Evidence(o, outcome'[o])
                      /\ out[o] # Pending \/ lost[o]
    OBVIOUS
  <2>1. CASE o \in D
    <3>1. outcome[o] = Pending
      BY <1>4, <1>8, <2>1
    <3>2. QED
      BY <1>4, <1>6, <2>1, <3>1
  <2>2. CASE o \notin D
    <3>1. outcome'[o] = out[o]
      BY <1>5, <2>2
    <3>2. QED
      BY <1>8, <3>1
  <2>3. QED
    BY <2>1, <2>2
<1>10. QED
  BY <1>4, <1>5, <1>6, <1>7, <1>9

(* A scope and everything below it has come to rest after the step.        *)
CalmNext(s) ==
    \A t \in Subtree(s) :
        /\ state'[t] = "Terminated" /\ terminal'[t] # NoReport
        /\ \A o \in OperationsOf(t) : outcome'[o] # Pending

(* The tree does not change in settle, and it relates scopes as before.    *)
LEMMA SettleFrame ==
    ASSUME NEW STATE id, NEW STATE st, NEW STATE done,
           NEW STATE out, NEW STATE lost,
           SettleStep(id, st, done, out, lost)
    PROVE  /\ created' = created /\ parent' = parent /\ path' = path
           /\ causes' = causes /\ cancelled' = cancelled
           /\ op_scope' = op_scope /\ op_parent' = op_parent
           /\ dispatched' = dispatched /\ completed_units' = completed_units
           /\ \A s : Subtree(s)' = Subtree(s) /\ Children(s)' = Children(s)
           /\ \A s : OperationsOf(s)' = OperationsOf(s)
           /\ \A o : Supervisors(o)' = Supervisors(o)
BY DEF SettleStep, treeVars, Subtree, Children, OperationsOf, Supervisors

(* Below a scope that terminates, everything has come to rest: the scopes  *)
(* for which this is so are closed under the walk of settle.               *)
LEMMA SettleCalm ==
    ASSUME SafetyInv, NEW STATE id, NEW STATE st, NEW STATE done,
           NEW STATE out, NEW STATE lost,
           SettleStep(id, st, done, out, lost),
           NEW W, Terminates(id, st, done, lost, W)
    PROVE  /\ \A s \in created : state[s] = "Terminated" => CalmNext(s)
           /\ \A s \in W : CalmNext(s)
<1> USE DEF SafetyInv
<1>1. created \subseteq Scope /\ W \subseteq created
  BY DEF TypeOK, Terminates
<1>2. \A s \in W : state'[s] = "Terminated" /\ terminal'[s] # NoReport
  BY <1>1 DEF Terminates
<1>3. \A s \in created : state[s] = "Terminated" =>
          state'[s] = "Terminated" /\ terminal'[s] # NoReport
  <2> SUFFICES ASSUME NEW s \in created, state[s] = "Terminated", s \notin W
               PROVE  state'[s] = "Terminated" /\ terminal'[s] # NoReport
    BY <1>2
  <2>1. state'[s] = st[s] /\ terminal'[s] = terminal[s]
    BY <1>1 DEF Terminates
  <2>2. st[s] = "Terminated"
    BY <1>1 DEF SettleStep
  <2>3. terminal[s] # NoReport
    BY DEF StateInv
  <2>4. QED
    BY <2>1, <2>2, <2>3
<1>4. \A o \in Operation : outcome[o] # Pending => outcome'[o] # Pending
  BY SettleOutcomes
<1>5. ASSUME NEW s \in created, state[s] = "Terminated" PROVE CalmNext(s)
  <2> SUFFICES ASSUME NEW t \in Subtree(s)
               PROVE  /\ state'[t] = "Terminated" /\ terminal'[t] # NoReport
                      /\ \A o \in OperationsOf(t) : outcome'[o] # Pending
    BY DEF CalmNext
  <2>1. state[t] = "Terminated" /\ \A o \in OperationsOf(t) : outcome[o] # Pending
    BY <1>5 DEF TerminationIsQuiet
  <2>2. QED
    BY <1>3, <1>4, <2>1 DEF Subtree, OperationsOf
<1> DEFINE T == {s \in W : CalmNext(s)}
<1>6. WalkUp(id, done, outcome', T) \subseteq T
  <2> SUFFICES ASSUME NEW s \in WalkUp(id, done, outcome', T) PROVE s \in T
    OBVIOUS
  <2>1. s \in created /\ Ready(s, done, outcome', T)
    BY DEF WalkUp
  <2>2. s \in W
    <3>1. WalkUp(id, done, outcome', T) \subseteq WalkUp(id, done, outcome', W)
      <4>1. T \subseteq W
        OBVIOUS
      <4> HIDE DEF T
      <4>2. QED
        BY <4>1 DEF WalkUp, Ready
    <3>2. QED
      BY <3>1 DEF Terminates
  <2>3. ASSUME NEW t \in Subtree(s)
        PROVE  /\ state'[t] = "Terminated" /\ terminal'[t] # NoReport
               /\ \A o \in OperationsOf(t) : outcome'[o] # Pending
    <3>1. CASE t = s
      BY <1>2, <2>1, <2>2, <3>1 DEF Ready
    <3>2. CASE t # s
      <4>1. PICK c \in path[t] : parent[c] = s
        BY <3>2 DEF Subtree, TreeInv
      <4>2. c \in Children(s) /\ t \in Subtree(c)
        BY <4>1 DEF Children, Subtree, TreeInv
      <4>3. CASE terminal[c] # NoReport
        <5>1. CalmNext(c)
          BY <1>5, <4>2, <4>3 DEF StateInv, Children
        <5>2. QED
          BY <4>2, <5>1 DEF CalmNext
      <4>4. CASE c \in T
        BY <4>2, <4>4 DEF CalmNext
      <4>5. QED
        BY <2>1, <4>2, <4>3, <4>4 DEF Ready
    <3>3. QED
      BY <3>1, <3>2
  <2>4. CalmNext(s)
    BY <2>3 DEF CalmNext
  <2>5. QED
    BY <2>2, <2>4
<1>7. T \in SUBSET Scope
  BY <1>1
<1>8. W \subseteq T
  BY <1>6, <1>7 DEF Terminates
<1>9. QED
  BY <1>5, <1>8

(* settle terminates a scope only with its whole subtree at rest.          *)
LEMMA SettleQuiet ==
    ASSUME SafetyInv, NEW STATE id, NEW STATE st, NEW STATE done,
           NEW STATE out, NEW STATE lost,
           SettleStep(id, st, done, out, lost)
    PROVE  TerminationIsQuiet'
<1> USE DEF SafetyInv
<1>1. PICK W : Terminates(id, st, done, lost, W)
  BY SettleTerminates
<1>2. \A s \in created : state'[s] = "Terminated" => s \in W \/ state[s] = "Terminated"
  BY <1>1 DEF Terminates, SettleStep, TypeOK
<1>3. \A s \in created : state'[s] = "Terminated" => CalmNext(s)
  BY <1>1, <1>2, SettleCalm
<1>4. QED
  BY <1>3, SettleFrame, SMT DEF TerminationIsQuiet, CalmNext

(* settle misses nothing: what is ready after it was ready before.         *)
LEMMA SettleStrandsNothing ==
    ASSUME SafetyInv, NEW STATE id, NEW STATE st, NEW STATE done,
           NEW STATE out, NEW STATE lost,
           SettleStep(id, st, done, out, lost)
    PROVE  NothingIsStranded'
<1> USE DEF SafetyInv
<1>1. PICK W : Terminates(id, st, done, lost, W)
  BY SettleTerminates
<1>2. created \subseteq Scope /\ W \subseteq created
  BY <1>1 DEF TypeOK, Terminates
<1>3. \A s \in Scope : s \notin W => terminal'[s] = terminal[s]
  BY <1>1 DEF Terminates
<1>4. ASSUME NEW s \in created, Ready(s, body_done, outcome, {})' PROVE FALSE
  <2>1. /\ done[s] /\ terminal'[s] = NoReport
        /\ \A o \in OperationsOf(s) : outcome'[o] # Pending
        /\ \A c \in Children(s) : terminal'[c] # NoReport
    BY <1>4, SettleFrame, SMT DEF Ready, SettleStep
  <2>2. s \notin W
    BY <1>1, <2>1 DEF Terminates
  <2>3. terminal[s] = NoReport
    BY <1>2, <1>3, <2>1, <2>2
  <2>4. \A c \in Children(s) : terminal[c] # NoReport \/ c \in W
    BY <1>2, <1>3, <2>1 DEF Children
  <2>5. Ready(s, done, outcome', W)
    BY <2>1, <2>3, <2>4 DEF Ready
  <2>6. s # id /\ ~\E c \in W : parent[c] = s
    BY <1>1, <2>2, <2>5, SMT DEF Terminates, WalkUp
  <2>7. \A c \in Children(s) : terminal[c] # NoReport
    BY <2>4, <2>6 DEF Children
  <2>8. body_done[s]
    BY <1>2, <2>1, <2>6 DEF SettleStep
  <2>9. \A o \in OperationsOf(s) : outcome[o] # Pending
    BY <2>1, <2>6, SettleOutcomes DEF OperationsOf
  <2>10. Ready(s, body_done, outcome, {})
    BY <2>3, <2>7, <2>8, <2>9 DEF Ready
  <2>11. QED
    BY <2>10 DEF NothingIsStranded
<1>5. ASSUME NEW s \in created, NEW o \in Delegated(s, outcome, owner_lost, {})' PROVE FALSE
  <2>1. /\ o \in Operation /\ op_scope[o] = s /\ owner_lost'[o] /\ outcome'[o] = Pending
        /\ Supervisors(o) # {} /\ \A c \in Supervisors(o) : outcome'[c] # Pending
    BY <1>5, SettleFrame DEF Delegated, OperationsOf
  <2>2. CASE s = id
    <3>1. o \in Delegated(id, outcome', lost, {})
      BY <2>1, <2>2 DEF Delegated, OperationsOf, SettleStep
    <3>2. QED
      BY <3>1, SettleOutcomes
  <2>3. CASE s # id
    <3>1. owner_lost[o] /\ outcome[o] = Pending
      BY <2>1, <2>3, SettleOutcomes, SMT DEF SettleStep
    <3>2. \A c \in Supervisors(o) : op_scope[c] = s
      BY <2>1, OperationAssumption DEF Supervisors, OperationInv
    <3>3. \A c \in Supervisors(o) : outcome[c] # Pending
      BY <2>1, <2>3, <3>2, SettleOutcomes, SMT DEF Supervisors
    <3>4. o \in Delegated(s, outcome, owner_lost, {})
      BY <2>1, <3>1, <3>3 DEF Delegated, OperationsOf
    <3>5. QED
      BY <3>4 DEF NothingIsStranded
  <2>4. QED
    BY <2>2, <2>3
<1>6. created' = created
  BY SettleFrame
<1>7. QED
  BY <1>4, <1>5, <1>6 DEF NothingIsStranded

-----------------------------------------------------------------------------
(* The reports settle publishes are complete, and with what else it keeps  *)
(* every step that calls settle keeps the inductive invariant.             *)

(* settle keeps the tree, the operations, the states and the evidence.     *)
LEMMA SettleLocal ==
    ASSUME SafetyInv, NEW STATE id, NEW STATE st, NEW STATE done,
           NEW STATE out, NEW STATE lost,
           SettleStep(id, st, done, out, lost)
    PROVE  /\ TreeInv' /\ OperationInv' /\ StateInv'
           /\ StopReachesSubtree' /\ CauseBeforeWake' /\ EvidenceIsSound'
<1> USE DEF SafetyInv
<1>1. PICK W : Terminates(id, st, done, lost, W)
  BY SettleTerminates
<1>2. created \subseteq Scope /\ W \subseteq created
  BY <1>1 DEF TypeOK, Terminates
<1>3. \A s \in Scope : /\ s \in W => state'[s] = "Terminated" /\ terminal'[s] # NoReport
                       /\ s \notin W => state'[s] = st[s] /\ terminal'[s] = terminal[s]
  BY <1>1 DEF Terminates
<1>4. \A s \in Scope : st[s] = state[s] \/ (s = id /\ state[s] = "Running" /\ st[s] = "Draining")
  BY DEF SettleStep
<1>5. /\ created' = created /\ parent' = parent /\ path' = path
      /\ causes' = causes /\ cancelled' = cancelled
      /\ op_scope' = op_scope /\ op_parent' = op_parent
      /\ dispatched' = dispatched /\ completed_units' = completed_units
  BY SettleFrame
<1>6. TreeInv'
  <2>1. \A s \in Scope \ created : ~body_done'[s] /\ terminal'[s] = NoReport /\ state'[s] = "Running"
    BY <1>2, <1>3, <1>4, SMT DEF SettleStep, TreeInv
  <2>2. QED
    BY <1>5, <2>1, SMT DEF TreeInv
<1>7. OperationInv'
  <2> SUFFICES ASSUME NEW o \in Operation
               PROVE  /\ ~Registered(o) => outcome'[o] = Pending /\ ~owner_lost'[o]
                      /\ owner_lost'[o] /\ outcome'[o] = Pending => dispatched[o]
    BY <1>5 DEF OperationInv, Registered
  <2>1. ASSUME ~Registered(o) PROVE outcome'[o] = Pending /\ ~owner_lost'[o]
    <3>1. op_scope[o] # id
      BY <1>2, <2>1, ScopeAssumption DEF Registered, SettleStep
    <3>2. outcome'[o] = outcome[o]
      BY <3>1, SettleOutcomes, SMT
    <3>3. owner_lost'[o] = owner_lost[o]
      BY <3>1 DEF SettleStep
    <3>4. QED
      BY <2>1, <3>2, <3>3 DEF OperationInv
  <2>2. ASSUME owner_lost'[o], outcome'[o] = Pending PROVE dispatched[o]
    BY <2>2, SettleOutcomes, SMT DEF SettleStep
  <2>3. QED
    BY <2>1, <2>2
<1>8. StateInv'
  BY <1>2, <1>3, <1>4, <1>5, SMT DEF StateInv
<1>9. StopReachesSubtree'
  <2> SUFFICES ASSUME NEW s \in created, state'[s] = "Stopping"
               PROVE  /\ \A t \in Subtree(s) : state'[t] \in {"Stopping", "Terminated"}
                      /\ causes[s] # << >>
                      /\ \A i \in DOMAIN causes[s] : causes[s][i].origin \in path[s]
    BY <1>5 DEF StopReachesSubtree, Subtree
  <2>1. state[s] = "Stopping"
    BY <1>2, <1>3, <1>4
  <2>2. \A t \in Subtree(s) : state'[t] \in {"Stopping", "Terminated"}
    BY <1>2, <1>3, <1>4, <2>1 DEF StopReachesSubtree, Subtree
  <2>3. QED
    BY <2>1, <2>2 DEF StopReachesSubtree
<1>10. CauseBeforeWake'
  BY <1>2, <1>3, <1>4, <1>5 DEF CauseBeforeWake, TypeOK
<1>11. EvidenceIsSound'
  <2> SUFFICES ASSUME NEW o \in Operation, outcome'[o] # Pending
               PROVE  Evidence(o, outcome'[o])
    BY <1>5 DEF EvidenceIsSound, Evidence
  <2>1. CASE outcome'[o] = outcome[o]
    BY <2>1 DEF EvidenceIsSound, Evidence
  <2>2. CASE outcome'[o] # outcome[o]
    BY <2>2, SettleOutcomes
  <2>3. QED
    BY <2>1, <2>2
<1>12. QED
  BY <1>6, <1>7, <1>8, <1>9, <1>10, <1>11

(* Every scope below s terminates in this step, or lies below a child that *)
(* had terminated before and whose report is copied in this step.          *)
Covered(s, W) ==
    \A t \in Subtree(s) :
        t \in W \/ \E w \in W \cap Subtree(s) : \E c \in Children(w) \ W : t \in Subtree(c)

(* The walk of settle leaves no gap between the reports it assembles.      *)
LEMMA SettleCovers ==
    ASSUME SafetyInv, NEW STATE id, NEW STATE st, NEW STATE done,
           NEW STATE out, NEW STATE lost,
           SettleStep(id, st, done, out, lost),
           NEW W, Terminates(id, st, done, lost, W)
    PROVE  \A s \in W : Covered(s, W)
<1> USE DEF SafetyInv
<1>1. created \subseteq Scope /\ W \subseteq created
  BY DEF TypeOK, Terminates
<1> DEFINE T == {s \in W : Covered(s, W)}
<1>2. \A s \in W : terminal[s] = NoReport
  BY DEF Terminates, WalkUp, Ready
<1>3. WalkUp(id, done, outcome', T) \subseteq T
  <2> SUFFICES ASSUME NEW s \in WalkUp(id, done, outcome', T) PROVE s \in T
    OBVIOUS
  <2>1. s \in created /\ Ready(s, done, outcome', T)
    BY DEF WalkUp
  <2>2. s \in W
    <3>1. T \subseteq W
      OBVIOUS
    <3> HIDE DEF T
    <3>2. WalkUp(id, done, outcome', T) \subseteq WalkUp(id, done, outcome', W)
      BY <3>1 DEF WalkUp, Ready
    <3>3. QED
      BY <3>2 DEF Terminates
  <2>3. ASSUME NEW t \in Subtree(s), t # s
        PROVE  t \in W \/ \E w \in W \cap Subtree(s) : \E c \in Children(w) \ W : t \in Subtree(c)
    <3>1. PICK c \in path[t] : parent[c] = s
      BY <2>3 DEF Subtree, TreeInv
    <3>2. c \in Children(s) /\ t \in Subtree(c)
      BY <3>1 DEF Children, Subtree, TreeInv
    <3>3. s \in Subtree(s)
      BY <2>1 DEF Subtree, TreeInv
    <3>4. CASE c \notin W
      BY <2>2, <3>2, <3>3, <3>4
    <3>5. CASE c \in W
      <4>1. Covered(c, W)
        BY <1>2, <2>1, <3>2, <3>5 DEF Ready
      <4>2. Subtree(c) \subseteq Subtree(s)
        <5>1. c \in Subtree(s)
          BY <2>1, <3>2, <3>3, SubtreeNests
        <5>2. QED
          BY <2>1, <5>1, SubtreeNests
      <4>3. QED
        BY <3>2, <4>1, <4>2 DEF Covered
    <3>6. QED
      BY <3>4, <3>5
  <2>4. Covered(s, W)
    BY <2>2, <2>3 DEF Covered
  <2>5. QED
    BY <2>2, <2>4
<1>4. T \in SUBSET Scope
  BY <1>1
<1>5. W \subseteq T
  BY <1>3, <1>4 DEF Terminates
<1>6. QED
  BY <1>5

(* settle publishes reports that list everything below, as it is.          *)
LEMMA SettleReports ==
    ASSUME SafetyInv, NEW STATE id, NEW STATE st, NEW STATE done,
           NEW STATE out, NEW STATE lost,
           SettleStep(id, st, done, out, lost)
    PROVE  ReportIsComplete'
<1> USE DEF SafetyInv
<1>1. PICK W : Terminates(id, st, done, lost, W)
  BY SettleTerminates
<1>2. created \subseteq Scope /\ W \subseteq created
  BY <1>1 DEF TypeOK, Terminates
<1> DEFINE Rec(o) == ReportOf(o, outcome', lost)
<1>3. ASSUME NEW s \in created, state[s] = "Terminated"
      PROVE  terminal[s].operations = {Rec(o) : o \in Below(s)}
  <2>1. ASSUME NEW o \in Below(s)
        PROVE  Rec(o) = [id |-> o, dispatched |-> dispatched[o], outcome |-> outcome[o],
                         owner_lost |-> owner_lost[o], cleanup_errors |-> o \in cleanup_errors]
    <3>1. outcome[o] # Pending
      BY <1>3 DEF TerminationIsQuiet, Below, OperationsOf
    <3>2. outcome'[o] = outcome[o] /\ o \in Operation
      BY <3>1, SettleOutcomes DEF Below
    <3>3. lost[o] = owner_lost[o] /\ (o \in cleanup_errors' <=> o \in cleanup_errors)
      BY <3>1, <3>2 DEF SettleStep
    <3>4. QED
      BY <3>2, <3>3, SMT DEF ReportOf
  <2>2. terminal[s].operations =
            {[id |-> o, dispatched |-> dispatched[o], outcome |-> outcome[o],
              owner_lost |-> owner_lost[o], cleanup_errors |-> o \in cleanup_errors] :
                o \in Below(s)}
    BY <1>3 DEF ReportIsComplete, Below
  <2>3. QED
    BY <2>1, <2>2
<1>4. ASSUME NEW s \in W
      PROVE  terminal'[s].operations = {Rec(o) : o \in Below(s)}
  <2> DEFINE Part(w) == {Rec(o) : o \in OperationsOf(w)}
                          \cup UNION {terminal[c].operations : c \in Children(w) \ W}
  <2>1. terminal'[s].operations = UNION {Part(w) : w \in W \cap Subtree(s)}
    BY <1>1, <1>2 DEF Terminates, ReportFor
  <2>2. \A w \in W : \A c \in Children(w) \ W :
            c \in created /\ state[c] = "Terminated"
    BY <1>1, SMT DEF Terminates, WalkUp, Ready, StateInv, Children
  <2>3. ASSUME NEW w \in W \cap Subtree(s), NEW r \in Part(w)
        PROVE  r \in {Rec(o) : o \in Below(s)}
    <3>1. CASE r \in {Rec(o) : o \in OperationsOf(w)}
      BY <2>3, <3>1 DEF OperationsOf, Below
    <3>2. CASE \E c \in Children(w) \ W : r \in terminal[c].operations
      <4>1. PICK c \in Children(w) \ W : r \in terminal[c].operations
        BY <3>2
      <4>2. r \in {Rec(o) : o \in Below(c)}
        BY <1>3, <2>2, <2>3, <4>1
      <4>3. c \in Subtree(s) /\ Subtree(c) \subseteq Subtree(s)
        BY <1>2, <2>3, <4>1, SubtreeNests
      <4>4. QED
        BY <4>2, <4>3 DEF Below
    <3>3. QED
      BY <2>3, <3>1, <3>2
  <2>4. ASSUME NEW o \in Below(s)
        PROVE  \E w \in W \cap Subtree(s) : Rec(o) \in Part(w)
    <3>1. op_scope[o] \in Subtree(s) /\ o \in Operation
      BY <2>4 DEF Below
    <3>2. CASE op_scope[o] \in W
      BY <3>1, <3>2 DEF OperationsOf
    <3>3. CASE \E w \in W \cap Subtree(s) : \E c \in Children(w) \ W : op_scope[o] \in Subtree(c)
      <4>1. PICK w \in W \cap Subtree(s) : \E c \in Children(w) \ W : op_scope[o] \in Subtree(c)
        BY <3>3
      <4>2. PICK c \in Children(w) \ W : op_scope[o] \in Subtree(c)
        BY <4>1
      <4>3. Rec(o) \in terminal[c].operations
        BY <1>3, <2>2, <3>1, <4>2, SMT DEF Below
      <4>4. QED
        BY <4>2, <4>3
    <3>4. QED
      BY <1>1, <3>1, <3>2, <3>3, SettleCovers DEF Covered
  <2> HIDE DEF Part, Rec
  <2>5. QED
    BY <2>1, <2>3, <2>4, SMT
<1>5. ASSUME NEW s \in created, state'[s] = "Terminated"
      PROVE  terminal'[s].operations = {Rec(o) : o \in Below(s)}
  <2>1. CASE s \in W
    BY <1>4, <2>1
  <2>2. CASE s \notin W
    <3>1. terminal'[s] = terminal[s] /\ state[s] = "Terminated"
      BY <1>1, <1>2, <1>5, <2>2 DEF Terminates, SettleStep
    <3>2. QED
      BY <1>3, <3>1
  <2>3. QED
    BY <2>1, <2>2
<1>6. QED
  <2>1. created' = created /\ dispatched' = dispatched /\ owner_lost' = lost
    BY SettleFrame, SMT DEF SettleStep
  <2>2. \A s : Below(s)' = Below(s)
    BY SettleFrame, SMT DEF Below
  <2>3. SUFFICES ASSUME NEW s \in created', state'[s] = "Terminated"
                 PROVE  terminal'[s].operations =
                          {[id |-> o, dispatched |-> dispatched'[o], outcome |-> outcome'[o],
                            owner_lost |-> owner_lost'[o],
                            cleanup_errors |-> o \in cleanup_errors'] : o \in Below(s)'}
    BY DEF ReportIsComplete, Below
  <2>4. QED
    BY <1>5, <2>1, <2>2, <2>3 DEF ReportOf

(* A caller of settle that leaves the calls of other threads alone, and    *)
(* the registrations they are dropping, keeps the invariant.               *)
LEMMA SettleSafe ==
    ASSUME SafetyInv, TypeOK', NEW STATE id, NEW STATE st, NEW STATE done,
           NEW STATE out, NEW STATE lost,
           SettleStep(id, st, done, out, lost),
           \A u \in Thread : call'[u] = call[u] \/ call'[u] = Idle,
           \A u \in Thread : call'[u].kind = "drop" =>
               /\ out[call[u].operation] = outcome[call[u].operation]
               /\ lost[call[u].operation] = owner_lost[call[u].operation]
    PROVE  SafetyInv'
<1> USE DEF SafetyInv
<1>1. PICK W : Terminates(id, st, done, lost, W)
  BY SettleTerminates
<1>2. \A x \in created : state[x] \in {"Stopping", "Terminated"} =>
          state'[x] \in {"Stopping", "Terminated"}
  BY <1>1 DEF Terminates, SettleStep, TypeOK
<1>2a. \A o \in Operation : outcome'[o] # outcome[o] => out[o] # Pending \/ lost[o]
  BY SettleOutcomes, SMT
<1>3. CallInv'
  <2> SUFFICES ASSUME NEW t \in Thread
               PROVE  /\ \A x \in call'[t].tokens :
                            x \in created' /\ state'[x] \in {"Stopping", "Terminated"}
                      /\ call'[t].kind = "finish" => call'[t].scope \in created'
                      /\ call'[t].kind = "drop" =>
                            /\ call'[t].operation \in Operation
                            /\ Active(call[t].operation)'
                            /\ \A u \in Thread \ {t} : call'[u].kind = "drop" =>
                                  call'[u].operation # call'[t].operation
    BY DEF CallInv
  <2>1. created' = created /\ op_scope' = op_scope
    BY SettleFrame
  <2>2. CASE call'[t] = Idle
    BY <2>2, SMT DEF Idle
  <2>3. CASE call'[t] = call[t]
    <3>1. \A x \in call'[t].tokens :
              x \in created' /\ state'[x] \in {"Stopping", "Terminated"}
      BY <1>2, <2>1, <2>3 DEF CallInv
    <3>2. call'[t].kind = "finish" => call'[t].scope \in created'
      BY <2>1, <2>3 DEF CallInv
    <3>3. ASSUME call'[t].kind = "drop"
          PROVE  /\ call'[t].operation \in Operation
                 /\ Active(call[t].operation)'
                 /\ \A u \in Thread \ {t} : call'[u].kind = "drop" =>
                       call'[u].operation # call'[t].operation
      <4> DEFINE o == call[t].operation
      <4>1. /\ o \in Operation /\ Active(o)
            /\ \A u \in Thread \ {t} : call[u].kind = "drop" => call[u].operation # o
        BY <2>3, <3>3 DEF CallInv
      <4>2. \A u \in Thread \ {t} : call'[u].kind = "drop" => call'[u].operation # o
        BY <4>1, SMT DEF Idle
      <4>3. out[o] = outcome[o] /\ lost[o] = owner_lost[o]
        BY <3>3
      <4>4. outcome'[o] = Pending
        BY <1>2a, <4>1, <4>3 DEF Active
      <4>5. ~owner_lost'[o]
        BY <4>1, <4>3 DEF Active, SettleStep
      <4>6. op_scope[o] # NoScope
        BY <4>1 DEF Active, Registered
      <4>7. QED
        BY <2>1, <2>3, <4>1, <4>2, <4>4, <4>5, <4>6 DEF Active, Registered
    <3>4. QED
      BY <3>1, <3>2, <3>3
  <2>4. QED
    BY <2>2, <2>3
<1>4. QED
  BY <1>3, SettleLocal, SettleQuiet, SettleStrandsNothing, SettleReports

(* So every step that calls settle keeps the invariant.                    *)
LEMMA SomeSettleSafe ==
    ASSUME SafetyInv, TypeOK', SomeSettle PROVE SafetyInv'
<1>1. PICK id, st, done, out, lost :
          /\ SettleStep(id, st, done, out, lost)
          /\ \A u \in Thread : call'[u] = call[u] \/ call'[u] = Idle
          /\ \A u \in Thread : call'[u].kind = "drop" =>
                /\ out[call[u].operation] = outcome[call[u].operation]
                /\ lost[call[u].operation] = owner_lost[call[u].operation]
  BY DEF SomeSettle
<1>2. QED
  BY <1>1, SettleSafe, SMT

-----------------------------------------------------------------------------
(* The calls *)

-----------------------------------------------------------------------------
(* Calls that admit a scope or an operation, and evidence about one *)

(* A new child joins an open scope, so no closed scope gains a descendant. *)
LEMMA ChildSafe ==
    ASSUME SafetyInv, TypeOK', NEW s \in Scope, NEW c \in Scope, Child(s, c) PROVE SafetyInv'
<1> USE DEF SafetyInv
<1>1. /\ s \in created /\ c \notin created
      /\ \A x \in path[s] : state[x] \notin {"Stopping", "Terminated"}
      /\ created' = created \cup {c}
      /\ parent' = [parent EXCEPT ![c] = s]
      /\ path' = [path EXCEPT ![c] = path[s] \cup {c}]
      /\ cancelled' = IF s \in cancelled THEN cancelled \cup {c} ELSE cancelled
      /\ UNCHANGED <<state, body_done, causes, terminal, opVars, outcome, owner_lost, call>>
  BY DEF Child, CheckAdmission
<1>2. created \subseteq Scope /\ s # NoScope /\ s # c
  BY <1>1, ScopeAssumption, SMT DEF TypeOK
<1>3. /\ \A x \in created : path'[x] = path[x] /\ parent'[x] = parent[x]
      /\ path'[c] = path[s] \cup {c} /\ parent'[c] = s
  BY <1>1, <1>2, SMT DEF TypeOK
<1>4. s \in path[s] /\ path[s] \subseteq created /\ s \notin cancelled /\ cancelled' = cancelled
  BY <1>1, <1>2 DEF TreeInv, CauseBeforeWake
<1>5. \A x \in created : Subtree(x)' = IF x \in path[s] THEN Subtree(x) \cup {c} ELSE Subtree(x)
  BY <1>1, <1>3 DEF Subtree
<1>6. Subtree(c)' = {c}
  <2>1. \A x \in created : c \notin path[x]
    BY <1>1 DEF TreeInv
  <2>2. QED
    BY <1>1, <1>3, <2>1 DEF Subtree
<1>7. \A x \in created : state[x] \in {"Stopping", "Terminated"} => Subtree(x)' = Subtree(x)
  BY <1>1, <1>5
<1>8. /\ state'[c] = "Running" /\ terminal'[c] = NoReport /\ causes'[c] = << >>
      /\ ~body_done'[c] /\ \A o \in Operation : op_scope'[o] # c
  <2>1. \A o \in Operation : op_scope[o] # c
    BY <1>1, ScopeAssumption DEF OperationInv, Registered
  <2>2. QED
    BY <1>1, <2>1 DEF TreeInv, opVars
<1>9. TreeInv'
  <2> SUFFICES ASSUME NEW x \in created'
               PROVE  /\ x \in path'[x] /\ path'[x] \subseteq created'
                      /\ \A t \in path'[x] : path'[t] \subseteq path'[x]
                      /\ \A t \in path'[x] \ {x} : \E d \in path'[x] : parent'[d] = t
                      /\ parent'[x] # NoScope => parent'[x] \in path'[x]
    BY <1>1, <1>4 DEF TreeInv
  <2>1. CASE x \in created
    BY <1>1, <1>3, <2>1, SMT DEF TreeInv
  <2>2. CASE x = c
    <3>1. \A t \in path[s] : path'[t] = path[t] /\ path[t] \subseteq path[s]
      BY <1>1, <1>3, <1>4 DEF TreeInv
    <3>2. \A t \in path'[c] : path'[t] \subseteq path'[c]
      BY <1>3, <3>1
    <3>3. \A t \in path'[c] \ {c} : \E d \in path'[c] : parent'[d] = t
      <4> SUFFICES ASSUME NEW t \in path[s] PROVE \E d \in path'[c] : parent'[d] = t
        BY <1>3
      <4>1. CASE t = s
        BY <1>3, <4>1
      <4>2. CASE t # s
        <5>1. PICK d \in path[s] : parent[d] = t
          BY <1>1, <4>2 DEF TreeInv
        <5>2. d \in path'[c] /\ parent'[d] = t
          BY <1>3, <1>4, <5>1
        <5>3. QED
          BY <5>2
      <4>3. QED
        BY <4>1, <4>2
    <3>4. QED
      BY <1>1, <1>3, <1>4, <2>2, <3>2, <3>3, SMT
  <2>3. QED
    BY <1>1, <2>1, <2>2
<1>10. OperationInv' /\ EvidenceIsSound'
  BY <1>1 DEF OperationInv, EvidenceIsSound, Registered, opVars
<1>11. StateInv'
  BY <1>1, <1>8 DEF StateInv
<1>12. TerminationIsQuiet'
  BY <1>1, <1>7, <1>8, SMT DEF TerminationIsQuiet, OperationsOf, opVars
<1>13. ReportIsComplete'
  BY <1>1, <1>7, <1>8, SMT DEF ReportIsComplete, opVars
<1>14. StopReachesSubtree'
  <2> SUFFICES ASSUME NEW x \in created', state'[x] = "Stopping"
               PROVE  /\ \A y \in Subtree(x)' : state'[y] \in {"Stopping", "Terminated"}
                      /\ causes'[x] # << >>
                      /\ \A i \in DOMAIN causes'[x] : causes'[x][i].origin \in path'[x]
    BY DEF StopReachesSubtree
  <2>1. x \in created /\ state[x] = "Stopping"
    BY <1>1, <1>8
  <2>2. QED
    BY <1>1, <1>3, <1>7, <2>1, SMT DEF StopReachesSubtree
<1>15. CauseBeforeWake'
  BY <1>1, <1>4 DEF CauseBeforeWake
<1>16. CallInv'
  BY <1>1 DEF CallInv, Active, Registered, opVars
<1>17. NothingIsStranded'
  <2>1. \A x \in created : Children(x) \subseteq Children(x)'
    BY <1>1, <1>3 DEF Children
  <2>2. ASSUME NEW x \in created' PROVE ~Ready(x, body_done, outcome, {})'
    <3>1. CASE x = c
      BY <1>8, <3>1 DEF Ready
    <3>2. CASE x \in created
      <4>1. ~Ready(x, body_done, outcome, {})
        BY <3>2 DEF NothingIsStranded
      <4>2. OperationsOf(x)' = OperationsOf(x)
        BY <1>1 DEF OperationsOf, opVars
      <4>3. QED
        BY <1>1, <2>1, <3>2, <4>1, <4>2 DEF Ready
    <3>3. QED
      BY <1>1, <2>2, <3>1, <3>2
  <2>3. ASSUME NEW x \in created' PROVE Delegated(x, outcome, owner_lost, {})' = {}
    <3>1. CASE x = c
      BY <1>8, <3>1 DEF Delegated, OperationsOf
    <3>2. CASE x \in created
      BY <1>1, <3>2, SMT DEF Delegated, OperationsOf, Supervisors, opVars, NothingIsStranded
    <3>3. QED
      BY <1>1, <2>3, <3>1, <3>2
  <2>4. QED
    BY <2>2, <2>3 DEF NothingIsStranded
<1>18. QED
  BY <1>9, <1>10, <1>11, <1>12, <1>13, <1>14, <1>15, <1>16, <1>17

(* A new operation joins an open scope.                                    *)
LEMMA RegisterSafe ==
    ASSUME SafetyInv, TypeOK', NEW s \in Scope, NEW p \in Operation \cup {NoOperation},
           NEW o \in Operation, Register(s, p, o)
    PROVE  SafetyInv'
<1> USE DEF SafetyInv
<1>1. /\ s \in created /\ ~Registered(o)
      /\ p # NoOperation => op_scope[p] = s /\ Active(p)
      /\ \A x \in path[s] : state[x] \notin {"Stopping", "Terminated"}
      /\ op_scope' = [op_scope EXCEPT ![o] = s]
      /\ op_parent' = [op_parent EXCEPT ![o] = p]
      /\ UNCHANGED <<treeVars, state, body_done, causes, terminal, cancelled,
                     dispatched, completed_units, cleanup_errors, outcome, owner_lost, call>>
  BY DEF Register, CheckAdmission
<1>2. created' = created /\ path' = path /\ parent' = parent
  BY <1>1 DEF treeVars
<1>3. /\ op_scope'[o] = s /\ op_parent'[o] = p
      /\ \A q \in Operation \ {o} : op_scope'[q] = op_scope[q] /\ op_parent'[q] = op_parent[q]
  BY <1>1 DEF TypeOK
<1>4. s # NoScope /\ p # o /\ op_scope[o] = NoScope
  BY <1>1, ScopeAssumption, OperationAssumption DEF Active, Registered
<1>5. \A x \in created : state[x] = "Terminated" => s \notin Subtree(x)
  BY <1>1 DEF Subtree
<1>6. \A x : Subtree(x)' = Subtree(x)
  BY <1>2 DEF Subtree
<1>7. /\ outcome'[o] = Pending /\ ~owner_lost'[o] /\ ~dispatched'[o]
  BY <1>1 DEF OperationInv
<1>8. TreeInv' /\ StateInv' /\ StopReachesSubtree' /\ CauseBeforeWake'
  BY <1>1, <1>2, SMT DEF TreeInv, StateInv, StopReachesSubtree, CauseBeforeWake, Subtree
<1>9. OperationInv'
  <2> SUFFICES ASSUME NEW q \in Operation
               PROVE /\ op_scope'[q] # NoScope => op_scope'[q] \in created
                     /\ op_parent'[q] # NoOperation =>
                           /\ op_parent'[q] \in Operation
                           /\ op_scope'[op_parent'[q]] = op_scope'[q] /\ op_scope'[q] # NoScope
                     /\ op_scope'[q] = NoScope =>
                           /\ outcome[q] = Pending /\ ~owner_lost[q]
                           /\ ~dispatched[q] /\ op_parent'[q] = NoOperation
                     /\ owner_lost[q] /\ outcome[q] = Pending => dispatched[q]
    BY <1>1, <1>2, SMT DEF OperationInv, Registered
  <2>1. CASE q = o
    <3>1. p # NoOperation => op_scope'[p] = s
      BY <1>1, <1>3, <1>4
    <3>2. QED
      BY <1>1, <1>3, <1>4, <1>7, <2>1, <3>1
  <2>2. CASE q # o
    <3>1. op_scope'[q] = op_scope[q] /\ op_parent'[q] = op_parent[q]
      BY <1>3, <2>2
    <3>2. op_parent[q] # NoOperation => op_parent[q] # o
      BY <1>1 DEF OperationInv, Registered
    <3>3. op_parent[q] # NoOperation => op_scope'[op_parent[q]] = op_scope[op_parent[q]]
      BY <1>3, <3>2 DEF OperationInv
    <3>4. QED
      BY <3>1, <3>3 DEF OperationInv, Registered
  <2>3. QED
    BY <2>1, <2>2
<1>10. EvidenceIsSound'
  BY <1>1 DEF EvidenceIsSound
<1>11. TerminationIsQuiet'
  <2> SUFFICES ASSUME NEW x \in created, state[x] = "Terminated", NEW t \in Subtree(x),
                      NEW q \in Operation, op_scope'[q] = t
               PROVE  outcome[q] # Pending
    BY <1>1, <1>2, <1>6, SMT DEF TerminationIsQuiet, OperationsOf
  <2>1. q # o
    BY <1>3, <1>5
  <2>2. QED
    BY <1>3, <2>1 DEF TerminationIsQuiet, OperationsOf
<1>12. ReportIsComplete'
  <2>1. \A x \in created : state[x] = "Terminated" =>
            {q \in Operation : op_scope'[q] \in Subtree(x)'}
              = {q \in Operation : op_scope[q] \in Subtree(x)}
    <3>1. \A x : NoScope \notin Subtree(x)
      BY ScopeAssumption DEF Subtree, TypeOK
    <3>2. QED
      BY <1>3, <1>4, <1>5, <1>6, <3>1
  <2>2. QED
    BY <1>1, <1>2, <2>1 DEF ReportIsComplete
<1>13. CallInv'
  <2>1. \A q \in Operation : Active(q) => Active(q)'
    BY <1>1, <1>3, <1>4 DEF Active, Registered
  <2>2. QED
    BY <1>1, <1>2, <2>1 DEF CallInv
<1>14. NothingIsStranded'
  <2>1. ASSUME NEW x \in created PROVE ~Ready(x, body_done, outcome, {})'
    <3>1. OperationsOf(x) \subseteq OperationsOf(x)'
      BY <1>2, <1>3, <1>4, <2>1, ScopeAssumption, SMT DEF OperationsOf, TypeOK
    <3>2. QED
      BY <1>1, <1>2, <2>1, <3>1 DEF Ready, Children, NothingIsStranded
  <2>2. ASSUME NEW x \in created, NEW q \in Delegated(x, outcome, owner_lost, {})' PROVE FALSE
    <3>1. /\ q \in Operation /\ op_scope'[q] = x /\ owner_lost[q] /\ outcome[q] = Pending
          /\ Supervisors(q)' # {} /\ \A d \in Supervisors(q)' : outcome[d] # Pending
      BY <1>1, <2>2 DEF Delegated, OperationsOf
    <3>2. q # o /\ q # p
      BY <1>1, <1>7, <3>1, OperationAssumption DEF Active
    <3>3. Supervisors(q)' = Supervisors(q)
      <4>1. op_parent[o] = NoOperation
        BY <1>1 DEF OperationInv
      <4>2. QED
        BY <1>3, <3>1, <3>2, <4>1, OperationAssumption DEF Supervisors
    <3>4. q \in Delegated(x, outcome, owner_lost, {})
      BY <1>3, <3>1, <3>2, <3>3 DEF Delegated, OperationsOf
    <3>5. QED
      BY <2>2, <3>4 DEF NothingIsStranded
  <2>3. QED
    BY <1>2, <2>1, <2>2 DEF NothingIsStranded
<1>15. QED
  BY <1>8, <1>9, <1>10, <1>11, <1>12, <1>13, <1>14

(* Evidence is added to pending operations only, so no report goes stale.  *)
LEMMA RecordSafe ==
    ASSUME SafetyInv, TypeOK', NEW o \in Operation, Active(o),
           cleanup_errors \subseteq cleanup_errors',
           cleanup_errors' \subseteq cleanup_errors \cup {o},
           \A q \in Operation \ {o} : completed_units'[q] = completed_units[q],
           UNCHANGED <<treeVars, state, body_done, causes, terminal, cancelled, op_scope,
                       op_parent, dispatched, outcome, owner_lost, call>>
    PROVE  SafetyInv'
<1> USE DEF SafetyInv
<1>1. outcome[o] = Pending
  BY DEF Active
<1>2. created' = created /\ parent' = parent /\ path' = path
  BY DEF treeVars
<1>3. /\ TreeInv' /\ StateInv' /\ StopReachesSubtree' /\ CauseBeforeWake' /\ TerminationIsQuiet'
      /\ NothingIsStranded' /\ CallInv'
  BY <1>2, TreeFrame, QuietFrame, CallFrame
<1>4. OperationInv'
  BY <1>2 DEF OperationInv, Registered
<1>5. EvidenceIsSound'
  BY <1>1 DEF EvidenceIsSound
<1>6. ReportIsComplete'
  <2>1. ASSUME NEW x \in created, state[x] = "Terminated", NEW q \in Operation,
               op_scope[q] \in Subtree(x)
        PROVE  q \in cleanup_errors' <=> q \in cleanup_errors
    BY <1>1, <2>1 DEF TerminationIsQuiet, OperationsOf
  <2>2. QED
    BY <1>2, <2>1, SMT DEF ReportIsComplete, Subtree
<1>7. QED
  BY <1>3, <1>4, <1>5, <1>6

-----------------------------------------------------------------------------
(* Calls that stop, dispatch and wake *)

(* Below a scope that is stopped, every scope is marked or has terminated. *)
LEMMA StoppableOrTerminated ==
    ASSUME SafetyInv, NEW s \in created
    PROVE  /\ Stoppable(s) \subseteq Subtree(s)
           /\ \A x \in Stoppable(s) : state[x] # "Terminated"
           /\ \A x \in Subtree(s) : x \in Stoppable(s) \/ state[x] = "Terminated"
<1> USE DEF SafetyInv
<1>1. \A x \in Stoppable(s) : x \in Subtree(s) /\ state[x] # "Terminated"
  BY DEF Stoppable, Subtree, TreeInv
<1>2. ASSUME NEW x \in Subtree(s), x \notin Stoppable(s) PROVE state[x] = "Terminated"
  <2>1. PICK u \in path[x] : state[u] = "Terminated"
    BY <1>2 DEF Stoppable
  <2>2. u \in created /\ x \in Subtree(u)
    BY <2>1 DEF Subtree, TreeInv
  <2>3. QED
    BY <2>1, <2>2 DEF TerminationIsQuiet
<1>3. QED
  BY <1>1, <1>2

(* The locked section of request_stop, for whoever calls it.               *)
LEMMA RequestStopSafe ==
    ASSUME SafetyInv, TypeOK', NEW t \in Thread, NEW kind \in {"stop", "finish", "drop"},
           NEW s \in created, NEW o \in Operation \cup {NoOperation},
           NEW reason \in CancellationReason,
           RequestStop(t, kind, s, o, reason),
           kind = "drop" => o \in Operation /\ Owned(o)
    PROVE  SafetyInv'
<1> USE DEF SafetyInv
<1> DEFINE cause == [origin |-> s, reason |-> reason]
           hit == Stoppable(s)
           known(x) == \E i \in DOMAIN causes[x] : causes[x][i] = cause
           tokens == IF s \in hit THEN Subtree(s) ELSE {}
<1>1. /\ state' = [x \in Scope |-> IF x \in hit THEN "Stopping" ELSE state[x]]
      /\ causes' = [x \in Scope |->
                      IF x \in hit /\ ~known(x) THEN Append(causes[x], cause) ELSE causes[x]]
  BY DEF RequestStop
<1>2. UNCHANGED <<created, path, parent, body_done, terminal, cancelled, opVars, outcome,
                  owner_lost>>
  BY DEF RequestStop, treeVars
<1>3. /\ created \subseteq Scope /\ s \in Scope /\ cancelled \subseteq Scope
      /\ causes \in [Scope -> Seq(CancellationCause)] /\ call \in [Thread -> Call]
  BY DEF TypeOK
<1>4. /\ hit \subseteq Subtree(s) /\ hit \subseteq created
      /\ \A x \in hit : state[x] # "Terminated" /\ s \in path[x]
      /\ \A x \in Subtree(s) : x \in hit \/ state[x] = "Terminated"
  BY StoppableOrTerminated DEF Subtree
<1> HIDE DEF hit, tokens
<1>5. \A x \in Scope : /\ x \in hit => state'[x] = "Stopping"
                       /\ x \notin hit => state'[x] = state[x]
                       /\ state'[x] = "Terminated" <=> state[x] = "Terminated"
  BY <1>1, <1>4
<1>6. \A x \in Scope \ hit : causes'[x] = causes[x]
  BY <1>1
<1>7. ASSUME NEW x \in hit
      PROVE  /\ causes'[x] # << >>
             /\ \A i \in DOMAIN causes'[x] : causes'[x][i].origin \in path[x]
  <2>1. x \in Scope /\ x \in created /\ causes[x] \in Seq(CancellationCause)
    BY <1>3, <1>4
  <2>2. \A i \in DOMAIN causes[x] : causes[x][i].origin \in path[x]
    <3>1. CASE causes[x] = << >>
      BY <3>1, SMT
    <3>2. CASE causes[x] # << >>
      BY <1>4, <2>1, <3>2 DEF StateInv, StopReachesSubtree
    <3>3. QED
      BY <3>1, <3>2
  <2>3. CASE known(x)
    <3>1. causes'[x] = causes[x] /\ causes[x] # << >>
      BY <1>1, <2>1, <2>3, SMT
    <3>2. QED
      BY <2>2, <3>1
  <2>4. CASE ~known(x)
    <3>1. causes'[x] = Append(causes[x], cause)
      BY <1>1, <2>1, <2>4
    <3>2. cause.origin \in path[x]
      BY <1>4
    <3> HIDE DEF cause
    <3>3. /\ Len(causes'[x]) = Len(causes[x]) + 1
          /\ \A i \in 1 .. Len(causes[x]) : causes'[x][i] = causes[x][i]
          /\ causes'[x][Len(causes[x]) + 1] = cause
          /\ DOMAIN causes'[x] = 1 .. Len(causes[x]) + 1 /\ Len(causes[x]) \in Nat
          /\ DOMAIN causes[x] = 1 .. Len(causes[x])
      BY <2>1, <3>1, SMT
    <3>4. \A i \in DOMAIN causes'[x] : causes'[x][i].origin \in path[x]
      <4> SUFFICES ASSUME NEW i \in 1 .. Len(causes[x]) + 1
                   PROVE  causes'[x][i].origin \in path[x]
        BY <3>3
      <4>1. CASE i \in 1 .. Len(causes[x])
        BY <2>2, <3>3, <4>1
      <4>2. CASE i = Len(causes[x]) + 1
        BY <3>2, <3>3, <4>2
      <4>3. QED
        BY <3>3, <4>1, <4>2, SMT
    <3>5. causes'[x] # << >>
      BY <2>1, <3>1, SMT
    <3>6. QED
      BY <3>4, <3>5
  <2>5. QED
    BY <2>3, <2>4
<1> HIDE DEF cause, known
<1>8. TreeInv'
  <2>1. \A x \in Scope \ created : x \notin hit
    BY <1>4
  <2>2. \A x \in Scope \ created :
            /\ ~body_done'[x] /\ terminal'[x] = NoReport /\ state'[x] = "Running"
            /\ causes'[x] = << >> /\ x \notin cancelled'
    BY <1>2, <1>5, <1>6, <2>1 DEF TreeInv
  <2>3. QED
    BY <1>2, <2>2, SMT DEF TreeInv
<1>9. /\ OperationInv' /\ EvidenceIsSound' /\ NothingIsStranded'
      /\ TerminationIsQuiet' /\ ReportIsComplete'
  BY <1>2, <1>3, <1>5, OperationFrame
<1>10. StateInv'
  BY <1>2, <1>3, <1>5, <1>6 DEF StateInv
<1>11. StopReachesSubtree'
  <2> SUFFICES ASSUME NEW x \in created, state'[x] = "Stopping"
               PROVE  /\ \A y \in Subtree(x) : state'[y] \in {"Stopping", "Terminated"}
                      /\ causes'[x] # << >>
                      /\ \A i \in DOMAIN causes'[x] : causes'[x][i].origin \in path[x]
    BY <1>2 DEF StopReachesSubtree, Subtree
  <2>1. CASE x \in hit
    <3>1. Subtree(x) \subseteq Subtree(s)
      BY <1>4, <2>1, SubtreeNests
    <3>2. \A y \in Subtree(x) : state'[y] \in {"Stopping", "Terminated"}
      BY <1>3, <1>4, <1>5, <3>1 DEF Subtree
    <3>3. QED
      BY <1>7, <2>1, <3>2
  <2>2. CASE x \notin hit
    BY <1>3, <1>5, <1>6, <2>2 DEF StopReachesSubtree, Subtree
  <2>3. QED
    BY <2>1, <2>2
<1>12. CauseBeforeWake'
  BY <1>2, <1>3, <1>5, <1>6, <1>7 DEF CauseBeforeWake
<1>13. CallInv'
  <2>1. \A x \in tokens : x \in created' /\ state'[x] \in {"Stopping", "Terminated"}
    BY <1>2, <1>3, <1>4, <1>5 DEF Subtree, tokens
  <2>2. \A u \in Thread \ {t} : call'[u] = call[u]
    BY <1>3 DEF RequestStop
  <2>3. /\ call'[t] = Idle
           \/ call'[t] = [kind |-> kind, scope |-> s, operation |-> o, tokens |-> tokens]
    BY <1>3 DEF RequestStop, tokens, hit
  <2>4. /\ \A x \in call'[t].tokens : x \in created' /\ state'[x] \in {"Stopping", "Terminated"}
        /\ call'[t].kind = "finish" => call'[t].scope \in created'
        /\ call'[t].kind = "drop" => call'[t].operation = o /\ kind = "drop"
    BY <1>2, <2>1, <2>3, SMT DEF Idle
  <2>5. /\ \A x : Active(x)' = Active(x)
        /\ \A x \in created : state[x] \in {"Stopping", "Terminated"} =>
               state'[x] \in {"Stopping", "Terminated"}
    BY <1>2, <1>3, <1>5 DEF Active, Registered, opVars
  <2>6. kind = "drop" => /\ o \in Operation /\ Active(o)
                         /\ \A u \in Thread : call[u].kind = "drop" => call[u].operation # o
    BY DEF Owned
  <2>7. QED
    BY <1>2, <2>2, <2>4, <2>5, <2>6, SMT DEF CallInv
<1>14. QED
  BY <1>8, <1>9, <1>10, <1>11, <1>12, <1>13

(* Dispatch needs an open scope and a pending operation.                   *)
LEMMA BeginDispatchSafe ==
    ASSUME SafetyInv, TypeOK', NEW o \in Operation, BeginDispatch(o) PROVE SafetyInv'
<1> USE DEF SafetyInv
<1>1. /\ Registered(o) /\ outcome[o] = Pending /\ ~owner_lost[o]
      /\ dispatched' = [dispatched EXCEPT ![o] = TRUE]
      /\ UNCHANGED <<treeVars, state, body_done, causes, terminal, cancelled, op_scope,
                     op_parent, completed_units, cleanup_errors, outcome, owner_lost, call>>
  BY DEF BeginDispatch, Owned, Active
<1>2. /\ dispatched'[o] /\ \A q \in Operation \ {o} : dispatched'[q] = dispatched[q]
      /\ created' = created /\ parent' = parent /\ path' = path
  BY <1>1 DEF TypeOK, treeVars
<1>3. /\ TreeInv' /\ StateInv' /\ StopReachesSubtree' /\ CauseBeforeWake' /\ TerminationIsQuiet'
      /\ NothingIsStranded' /\ CallInv'
  BY <1>1, <1>2, TreeFrame, QuietFrame, CallFrame
<1>4. OperationInv'
  BY <1>1, <1>2 DEF OperationInv, Registered
<1>5. EvidenceIsSound'
  BY <1>1, <1>2 DEF EvidenceIsSound
<1>6. ReportIsComplete'
  <2> DEFINE Old(q) == [id |-> q, dispatched |-> dispatched[q], outcome |-> outcome[q],
                        owner_lost |-> owner_lost[q], cleanup_errors |-> q \in cleanup_errors]
             New(q) == [id |-> q, dispatched |-> dispatched'[q], outcome |-> outcome'[q],
                        owner_lost |-> owner_lost'[q], cleanup_errors |-> q \in cleanup_errors']
  <2>1. SUFFICES ASSUME NEW x \in created', state'[x] = "Terminated"
                 PROVE  terminal'[x].operations = {New(q) : q \in Below(x)'}
    BY DEF ReportIsComplete, Below
  <2>2. x \in created /\ state[x] = "Terminated" /\ Below(x)' = Below(x)
    BY <1>1, <1>2, <2>1 DEF Below, Subtree
  <2>3. \A q \in Below(x) : q \in Operation \ {o}
    BY <1>1, <2>2 DEF TerminationIsQuiet, OperationsOf, Below
  <2>4. \A q \in Below(x) : New(q) = Old(q)
    BY <1>1, <1>2, <2>3
  <2>5. terminal'[x].operations = {Old(q) : q \in Below(x)}
    BY <1>1, <2>2 DEF ReportIsComplete, Below
  <2> HIDE DEF Old, New
  <2>6. QED
    BY <2>2, <2>4, <2>5
<1>7. QED
  BY <1>3, <1>4, <1>5, <1>6

(* A token wakes a scope that is closed already.                           *)
LEMMA CancelTokenSafe ==
    ASSUME SafetyInv, TypeOK', NEW t \in Thread, NEW x \in Scope, CancelToken(t, x)
    PROVE  SafetyInv'
<1> USE DEF SafetyInv
<1>1. /\ x \in call[t].tokens /\ cancelled' = cancelled \cup {x}
      /\ call' = [call EXCEPT ![t] = IF call[t].kind = "stop" /\ call[t].tokens = {x}
                                     THEN Idle
                                     ELSE [call[t] EXCEPT !.tokens = @ \ {x}]]
      /\ UNCHANGED <<treeVars, state, body_done, causes, terminal, opVars, outcome, owner_lost>>
  BY DEF CancelToken
<1>2. x \in created /\ state[x] \in {"Stopping", "Terminated"}
  BY <1>1 DEF CallInv
<1>3. UNCHANGED <<created, parent, path, state, body_done, causes, terminal, opVars,
                  outcome, owner_lost>>
  BY <1>1 DEF treeVars
<1>4. TreeInv'
  BY <1>1, <1>2, <1>3, SMT DEF TreeInv
<1>5. CauseBeforeWake'
  BY <1>1, <1>2, <1>3 DEF CauseBeforeWake, StopReachesSubtree
<1>6. CallInv'
  <2>1. \A u \in Thread \ {t} : call'[u] = call[u]
    BY <1>1 DEF TypeOK
  <2>2. call[t] \in Call
    BY DEF TypeOK
  <2>3. call'[t] = Idle \/ call'[t] = [call[t] EXCEPT !.tokens = @ \ {x}]
    BY <1>1 DEF TypeOK
  <2>4. /\ call'[t].tokens \subseteq call[t].tokens
        /\ call'[t].kind = "finish" =>
              call[t].kind = "finish" /\ call'[t].scope = call[t].scope
        /\ call'[t].kind = "drop" =>
              call[t].kind = "drop" /\ call'[t].operation = call[t].operation
    <3>1. CASE call'[t] = Idle
      BY <3>1, SMT DEF Idle
    <3>2. CASE call'[t] = [call[t] EXCEPT !.tokens = @ \ {x}]
      BY <2>2, <3>2 DEF Call
    <3>3. QED
      BY <2>3, <3>1, <3>2
  <2>5. \A q : Active(q)' = Active(q)
    BY <1>1 DEF Active, Registered, opVars
  <2>6. QED
    BY <1>3, <2>1, <2>4, <2>5, SMT DEF CallInv
<1>7. QED
  BY <1>3, <1>4, <1>5, <1>6, TreeFrame, OperationFrame

-----------------------------------------------------------------------------
(* Calls that settle: the end of a body or an operation, a lost owner *)

(* The second section of finish_body is such a caller.                     *)
LEMMA BodyDoneSettles ==
    ASSUME SafetyInv, NEW STATE s, s \in created, BodyDone(s), ~body_done[s],
           UNCHANGED <<treeVars, causes, cancelled, opVars, owner_lost>>
    PROVE  SettleStep(s, [state EXCEPT ![s] = IF @ = "Running" THEN "Draining" ELSE @],
                      [body_done EXCEPT ![s] = TRUE], outcome, owner_lost)
<1> USE DEF SafetyInv
<1> DEFINE st == [state EXCEPT ![s] = IF @ = "Running" THEN "Draining" ELSE @]
           done == [body_done EXCEPT ![s] = TRUE]
<1>1. body_done' = done /\ Settle(s, st, done, outcome, owner_lost)
  BY DEF BodyDone
<1>2. /\ st \in [Scope -> ScopeState] /\ done \in [Scope -> BOOLEAN]
      /\ outcome \in [Operation -> ExternalOutcome] /\ owner_lost \in [Operation -> BOOLEAN]
      /\ cleanup_errors \subseteq Operation
  BY DEF TypeOK, ScopeState
<1>3. \A x \in Scope :
          /\ done[x] # body_done[x] => x = s /\ done[x]
          /\ st[x] # state[x] => x = s /\ state[x] = "Running" /\ st[x] = "Draining"
  BY DEF TypeOK
<1>4. \A o \in Operation : owner_lost[o] /\ outcome[o] = Pending => dispatched[o]
  BY DEF OperationInv
<1> HIDE DEF st, done
<1>5. SettleStep(s, st, done, outcome, owner_lost)
  BY <1>1, <1>2, <1>3, <1>4 DEF SettleStep, opVars
<1>6. QED
  BY <1>5 DEF st, done

(* A successful finish_body.                                               *)
LEMMA FinishBodySettles ==
    ASSUME SafetyInv, TypeOK', NEW s \in Scope, FinishBody(s)
    PROVE  SomeSettle
<1>1. /\ s \in created /\ BodyDone(s) /\ ~body_done[s] /\ call' = call
      /\ UNCHANGED <<treeVars, causes, cancelled, opVars, owner_lost>>
  BY DEF FinishBody, opVars
<1> DEFINE st == [state EXCEPT ![s] = IF @ = "Running" THEN "Draining" ELSE @]
           done == [body_done EXCEPT ![s] = TRUE]
<1>2. SettleStep(s, st, done, outcome, owner_lost)
  BY <1>1, BodyDoneSettles
<1> HIDE DEF st, done
<1>3. QED
  BY <1>1, <1>2 DEF SomeSettle

(* The end of a failed finish_body.                                        *)
LEMMA FailBodyDoneSettles ==
    ASSUME SafetyInv, TypeOK', NEW t \in Thread, FailBodyDone(t)
    PROVE  \/ SomeSettle
           \/ SafetyInv' /\ UNCHANGED <<state, causes, terminal, outcome>>
<1> DEFINE s == call[t].scope
           st == [state EXCEPT ![s] = IF @ = "Running" THEN "Draining" ELSE @]
           done == [body_done EXCEPT ![s] = TRUE]
<1>1. /\ s \in created /\ BodyDone(s)
      /\ UNCHANGED <<treeVars, causes, cancelled, opVars, owner_lost>>
      /\ call' = [call EXCEPT ![t] = Idle]
  BY DEF FailBodyDone, opVars, SafetyInv, CallInv
<1>2. \A u \in Thread : call'[u] = call[u] \/ call'[u] = Idle
  BY <1>1 DEF SafetyInv, TypeOK
<1>3. CASE ~body_done[s]
  <2>1. SettleStep(s, st, done, outcome, owner_lost)
    BY <1>1, <1>3, BodyDoneSettles
  <2> HIDE DEF st, done, s
  <2>2. SomeSettle
    <3> USE DEF SomeSettle
    <3> WITNESS s, st, done, outcome, owner_lost
    <3> QED BY <1>2, <2>1
  <2>3. QED
    BY <2>2
<1>4. CASE body_done[s]
  <2>1. UNCHANGED <<treeVars, causes, cancelled, opVars, owner_lost, body_done, state,
                    outcome, terminal>>
    BY <1>1, <1>4 DEF BodyDone
  <2>2. CallInv'
    <3>1. \A u \in Thread : call'[u].kind = "drop" => call'[u] = call[u]
      BY <1>2, SMT DEF Idle
    <3>2. \A u \in Thread : call'[u].tokens \subseteq call[u].tokens
      BY <1>2, SMT DEF Idle
    <3>3. \A u \in Thread : call'[u].kind = "finish" => call'[u] = call[u]
      BY <1>2, SMT DEF Idle
    <3>4. QED
      BY <2>1, <3>1, <3>2, <3>3, SMT DEF SafetyInv, CallInv, Active, Registered, treeVars, opVars
  <2>3. QED
    BY <2>1, <2>2, TreeFrame, OperationFrame DEF SafetyInv, treeVars
<1>5. QED
  BY <1>3, <1>4

(* Completion by the owner.                                                *)
LEMMA CompleteOperationSettles ==
    ASSUME SafetyInv, TypeOK', NEW o \in Operation,
           NEW k \in {"NotDispatched", "Confirmed", "Unknown"}, NEW e \in BOOLEAN,
           CompleteOperation(o, k, e)
    PROVE  SomeSettle
<1> USE DEF SafetyInv
<1> DEFINE v == IF k = "Unknown" THEN Uncertain(o) ELSE Plain(k)
           out == [outcome EXCEPT ![o] = v]
           id == op_scope[o]
<1>1. /\ Registered(o) /\ outcome[o] = Pending /\ ~owner_lost[o]
      /\ \A t \in Thread : call[t].kind = "drop" => call[t].operation # o
  BY DEF CompleteOperation, Owned, Active
<1>2. id \in created
  BY <1>1 DEF OperationInv
<1>3. v \in ExternalOutcome /\ v # Pending
  BY UncertainType DEF ExternalOutcome, OutcomeKind, Plain, Pending
<1>4. Evidence(o, v)
  <2>1. dispatched[o] <=> k # "NotDispatched"
    BY DEF CompleteOperation
  <2>2. CASE k # "Unknown"
    <3>1. v.kind = k
      BY <2>2 DEF Plain
    <3> HIDE DEF v
    <3>2. QED
      BY <2>1, <2>2, <3>1 DEF Evidence
  <2>3. CASE k = "Unknown" /\ completed_units[o] = NoUnits
    <3>1. v.kind = "Unknown"
      BY <2>3 DEF Uncertain, Plain
    <3> HIDE DEF v
    <3>2. QED
      BY <2>1, <2>3, <3>1 DEF Evidence
  <2>4. CASE k = "Unknown" /\ completed_units[o] # NoUnits
    <3>1. v.kind = "Partial" /\ v.units = completed_units[o]
      BY <2>4 DEF Uncertain
    <3> HIDE DEF v
    <3>2. QED
      BY <2>1, <2>4, <3>1 DEF Evidence
  <2>5. QED
    BY <2>2, <2>3, <2>4
<1> HIDE DEF v
<1>5. /\ out \in [Operation -> ExternalOutcome] /\ out[o] = v
      /\ \A p \in Operation : p # o => out[p] = outcome[p]
  BY <1>3 DEF TypeOK
<1>6. /\ cleanup_errors' \subseteq Operation /\ cleanup_errors \subseteq cleanup_errors'
      /\ cleanup_errors' \subseteq cleanup_errors \cup {o}
  BY DEF CompleteOperation, TypeOK
<1>7. Settle(id, state, body_done, out, owner_lost)
  BY DEF CompleteOperation, v
<1>8. \A p \in Operation :
          /\ out[p] # outcome[p] => /\ op_scope[p] = id /\ outcome[p] = Pending
                                    /\ out[p] # Pending /\ Evidence(p, out[p])
          /\ p \in cleanup_errors' \ cleanup_errors => op_scope[p] = id /\ outcome[p] = Pending
          /\ owner_lost[p] /\ out[p] = Pending => dispatched[p]
  BY <1>1, <1>3, <1>4, <1>5, <1>6 DEF OperationInv
<1>9. /\ UNCHANGED <<treeVars, causes, cancelled, op_scope, op_parent, dispatched,
                     completed_units, owner_lost, body_done>>
      /\ call' = call
  BY DEF CompleteOperation
<1>10. /\ state \in [Scope -> ScopeState] /\ body_done \in [Scope -> BOOLEAN]
       /\ owner_lost \in [Operation -> BOOLEAN]
  BY DEF TypeOK
<1> HIDE DEF out, id
<1>11. SettleStep(id, state, body_done, out, owner_lost)
  BY <1>2, <1>5, <1>6, <1>7, <1>8, <1>9, <1>10 DEF SettleStep
<1>12. \A u \in Thread : call'[u].kind = "drop" =>
           out[call[u].operation] = outcome[call[u].operation]
  BY <1>1, <1>5, <1>9 DEF CallInv
<1>13. QED
  BY <1>9, <1>11, <1>12, SMT DEF SomeSettle

(* Loss of the owner.                                                      *)
LEMMA AbandonOperationSettles ==
    ASSUME SafetyInv, TypeOK', NEW t \in Thread, AbandonOperation(t)
    PROVE  SomeSettle
<1> USE DEF SafetyInv
<1> DEFINE o == call[t].operation
           lost == [owner_lost EXCEPT ![o] = TRUE]
           out == IF dispatched[o] THEN outcome
                  ELSE [outcome EXCEPT ![o] = Plain("NotDispatched")]
           id == op_scope[o]
<1>1. /\ o \in Operation /\ Registered(o) /\ outcome[o] = Pending /\ ~owner_lost[o]
      /\ \A u \in Thread \ {t} : call[u].kind = "drop" => call[u].operation # o
  BY DEF AbandonOperation, CallInv, Active
<1>2. id \in created
  BY <1>1 DEF OperationInv
<1>3. /\ out \in [Operation -> ExternalOutcome] /\ lost \in [Operation -> BOOLEAN]
      /\ state \in [Scope -> ScopeState] /\ body_done \in [Scope -> BOOLEAN]
      /\ cleanup_errors \subseteq Operation
  BY DEF TypeOK, ExternalOutcome, OutcomeKind, Plain
<1>4. \A p \in Operation : p # o => out[p] = outcome[p] /\ lost[p] = owner_lost[p]
  BY DEF TypeOK
<1>5. /\ lost[o]
      /\ dispatched[o] => out[o] = outcome[o]
      /\ ~dispatched[o] => out[o] = Plain("NotDispatched")
  BY <1>1 DEF TypeOK
<1>6. ~dispatched[o] => out[o] # Pending /\ Evidence(o, out[o])
  <2> SUFFICES ASSUME ~dispatched[o] PROVE out[o] # Pending /\ Evidence(o, out[o])
    OBVIOUS
  <2>1. out[o] = Plain("NotDispatched")
    BY <1>5
  <2> HIDE DEF out
  <2>2. out[o].kind = "NotDispatched"
    BY <2>1, SMT DEF Plain
  <2>3. QED
    BY <2>1, <2>2, SMT DEF Evidence, Plain, Pending
<1>7. /\ Settle(id, state, body_done, out, lost)
      /\ owner_lost' = lost /\ cleanup_errors' = cleanup_errors
      /\ call' = [call EXCEPT ![t] = Idle]
      /\ UNCHANGED <<treeVars, causes, cancelled, op_scope, op_parent, dispatched,
                     completed_units, body_done>>
  BY DEF AbandonOperation
<1>8. \A p \in Operation : owner_lost[p] /\ outcome[p] = Pending => dispatched[p]
  BY DEF OperationInv
<1> HIDE DEF out, id, lost
<1>9. \A p \in Operation :
          /\ out[p] # outcome[p] => /\ op_scope[p] = id /\ outcome[p] = Pending
                                    /\ out[p] # Pending /\ Evidence(p, out[p])
          /\ lost[p] # owner_lost[p] => op_scope[p] = id /\ outcome[p] = Pending /\ lost[p]
          /\ lost[p] /\ out[p] = Pending => dispatched[p]
  <2> SUFFICES ASSUME NEW p \in Operation
               PROVE /\ out[p] # outcome[p] => /\ op_scope[p] = id /\ outcome[p] = Pending
                                               /\ out[p] # Pending /\ Evidence(p, out[p])
                     /\ lost[p] # owner_lost[p] =>
                           op_scope[p] = id /\ outcome[p] = Pending /\ lost[p]
                     /\ lost[p] /\ out[p] = Pending => dispatched[p]
    OBVIOUS
  <2>1. CASE p # o
    BY <1>4, <1>8, <2>1
  <2>2. CASE p = o
    BY <1>1, <1>5, <1>6, <2>2 DEF id
  <2>3. QED
    BY <2>1, <2>2
<1>10. SettleStep(id, state, body_done, out, lost)
  BY <1>2, <1>3, <1>7, <1>9 DEF SettleStep
<1>11. \A u \in Thread : call'[u] = call[u] \/ call'[u] = Idle
  BY <1>7 DEF TypeOK
<1>12. \A u \in Thread : call'[u].kind = "drop" =>
           /\ u # t /\ call[u].kind = "drop"
           /\ call[u].operation \in Operation /\ call[u].operation # o
  BY <1>1, <1>7 DEF Idle, TypeOK, CallInv
<1>13. \A u \in Thread : call'[u].kind = "drop" =>
           /\ out[call[u].operation] = outcome[call[u].operation]
           /\ lost[call[u].operation] = owner_lost[call[u].operation]
  BY <1>4, <1>12
<1>14. QED
  BY <1>10, <1>11, <1>13, SMT DEF SomeSettle

-----------------------------------------------------------------------------
(* The safety properties of the scope registry, proved for every set of    *)
(* scopes, operations and threads.                                         *)

(* Every step of the registry keeps the inductive invariant.               *)
LEMMA SafetyStep == SafetyInv /\ [Next]_vars => SafetyInv'
<1> SUFFICES ASSUME SafetyInv, [Next]_vars PROVE SafetyInv'
  OBVIOUS
<1>1. TypeOK /\ TypeOK'
  BY TypeStep DEF SafetyInv
<1>2. ASSUME NEW s \in Scope, ClaimBody(s) PROVE SafetyInv'
  <2>1. UNCHANGED <<created, parent, path, state, body_done, causes, terminal, opVars,
                    outcome, owner_lost>> /\ UNCHANGED <<cancelled, call>>
    BY <1>2 DEF ClaimBody
  <2>2. CallInv'
    BY <2>1, CallFrame DEF SafetyInv, opVars
  <2>3. QED
    BY <1>1, <2>1, <2>2, TreeFrame, OperationFrame DEF SafetyInv
<1>3. ASSUME NEW s \in Scope, NEW c \in Scope, Child(s, c) PROVE SafetyInv'
  BY <1>1, <1>3, ChildSafe
<1>4. ASSUME NEW s \in Scope, FinishBody(s) PROVE SafetyInv'
  BY <1>1, <1>4, FinishBodySettles, SomeSettleSafe
<1>5. ASSUME NEW t \in Thread, NEW s \in Scope, FailBody(t, s) PROVE SafetyInv'
  BY <1>1, <1>5, RequestStopSafe DEF FailBody, CancellationReason
<1>6. ASSUME NEW t \in Thread, NEW s \in Scope, NEW r \in StopReason, Stop(t, s, r)
      PROVE  SafetyInv'
  BY <1>1, <1>6, RequestStopSafe DEF Stop, CancellationReason
<1>7. ASSUME NEW o \in Operation, NEW s \in Scope,
             NEW p \in Operation \cup {NoOperation}, Register(s, p, o)
      PROVE  SafetyInv'
  BY <1>1, <1>7, RegisterSafe
<1>8. ASSUME NEW o \in Operation, BeginDispatch(o) PROVE SafetyInv'
  BY <1>1, <1>8, BeginDispatchSafe
<1>9. ASSUME NEW o \in Operation, NEW k \in {"NotDispatched", "Confirmed", "Unknown"},
             NEW e \in BOOLEAN, CompleteOperation(o, k, e)
      PROVE  SafetyInv'
  BY <1>1, <1>9, CompleteOperationSettles, SomeSettleSafe
<1>10. ASSUME NEW o \in Operation, RecordCleanupError(o) PROVE SafetyInv'
  BY <1>1, <1>10, RecordSafe DEF RecordCleanupError
<1>11. ASSUME NEW o \in Operation, NEW u \in Units, RecordProgress(o, u) PROVE SafetyInv'
  <2>1. \A q \in Operation \ {o} : completed_units'[q] = completed_units[q]
    BY <1>1, <1>11 DEF RecordProgress, TypeOK
  <2>2. QED
    BY <1>1, <1>11, <2>1, RecordSafe DEF RecordProgress
<1>12. ASSUME NEW o \in Operation, NEW t \in Thread, DropRegistration(t, o) PROVE SafetyInv'
  <2>1. Owned(o) /\ op_scope[o] \in created
    BY <1>12 DEF DropRegistration, Owned, Active, SafetyInv, OperationInv
  <2>2. RequestStop(t, "drop", op_scope[o], o, "OwnerDropped")
    BY <1>12 DEF DropRegistration
  <2>3. QED
    BY <1>1, <2>1, <2>2, RequestStopSafe DEF CancellationReason
<1>13. ASSUME NEW t \in Thread, NEW x \in Scope, CancelToken(t, x) PROVE SafetyInv'
  BY <1>1, <1>13, CancelTokenSafe
<1>14. ASSUME NEW t \in Thread, FailBodyDone(t) PROVE SafetyInv'
  BY <1>1, <1>14, FailBodyDoneSettles, SomeSettleSafe
<1>15. ASSUME NEW t \in Thread, AbandonOperation(t) PROVE SafetyInv'
  BY <1>1, <1>15, AbandonOperationSettles, SomeSettleSafe
<1>16. CASE UNCHANGED vars
  <2>1. UNCHANGED <<created, parent, path, state, body_done, causes, terminal, opVars,
                    outcome, owner_lost>> /\ UNCHANGED <<cancelled, call>>
    BY <1>16 DEF vars, treeVars
  <2>2. CallInv'
    BY <2>1, CallFrame DEF SafetyInv, opVars
  <2>3. QED
    BY <1>1, <2>1, <2>2, TreeFrame, OperationFrame DEF SafetyInv
<1>17. QED
  BY <1>2, <1>3, <1>4, <1>5, <1>6, <1>7, <1>8, <1>9, <1>10, <1>11, <1>12, <1>13,
     <1>14, <1>15, <1>16
  DEF Next, ScopeNext, OperationNext, ThreadNext

-----------------------------------------------------------------------------
(* Theorems *)

(* It holds initially.                                                    *)
LEMMA SafetyInitially == Init => SafetyInv
<1> SUFFICES ASSUME Init PROVE SafetyInv
  OBVIOUS
<1>1. TypeOK
  <2>1. Idle \in Call
    BY DEF Idle, Call
  <2>2. body_claimed \in [Scope -> BOOLEAN]
    BY DEF Init
  <2>3. causes \in [Scope -> Seq(CancellationCause)]
    BY SMT DEF Init
  <2>4. outcome \in [Operation -> ExternalOutcome]
    BY DEF Init, ExternalOutcome, OutcomeKind, Plain, Pending
  <2>5. call \in [Thread -> Call] /\ terminal \in [Scope -> TerminationReport \cup {NoReport}]
    BY <2>1 DEF Init
  <2>6. QED
    BY <2>2, <2>3, <2>4, <2>5, ScopeAssumption DEF Init, TypeOK, ScopeState
<1>2. TreeInv /\ StateInv /\ OperationInv
  BY ScopeAssumption DEF Init, TreeInv, StateInv, OperationInv, Registered
<1>3. CallInv
  BY DEF Init, CallInv, Idle
<1>4. /\ TerminationIsQuiet /\ ReportIsComplete /\ StopReachesSubtree
      /\ CauseBeforeWake /\ EvidenceIsSound
  BY ScopeAssumption DEF Init, TerminationIsQuiet, ReportIsComplete, StopReachesSubtree,
     CauseBeforeWake, EvidenceIsSound
<1>5. NothingIsStranded
  <2>1. ~Ready(Root, body_done, outcome, {})
    BY ScopeAssumption DEF Init, Ready
  <2>2. Delegated(Root, outcome, owner_lost, {}) = {}
    BY DEF Init, Delegated, OperationsOf
  <2>3. QED
    BY <2>1, <2>2 DEF Init, NothingIsStranded
<1>6. QED
  BY <1>1, <1>2, <1>3, <1>4, <1>5 DEF SafetyInv

(* The inductive invariant holds in every reachable state.                 *)
LEMMA SafetyInvariant == Spec => []SafetyInv
BY SafetyInitially, SafetyStep, PTL DEF Spec

(* A terminated scope has nothing running below it, for any tree, any      *)
(* number of operations and any interleaving of the threads.               *)
THEOREM TerminationQuiet == Spec => []TerminationIsQuiet
<1>1. SafetyInv => TerminationIsQuiet
  BY DEF SafetyInv
<1>2. QED
  BY <1>1, SafetyInvariant, PTL

(* A termination report lists exactly the operations below its scope, and  *)
(* never goes stale.                                                       *)
THEOREM ReportComplete == Spec => []ReportIsComplete
<1>1. SafetyInv => ReportIsComplete
  BY DEF SafetyInv
<1>2. QED
  BY <1>1, SafetyInvariant, PTL

(* settle misses no termination, though it only walks up from the scope    *)
(* that changed.                                                           *)
THEOREM NothingStranded == Spec => []NothingIsStranded
<1>1. SafetyInv => NothingIsStranded
  BY DEF SafetyInv
<1>2. QED
  BY <1>1, SafetyInvariant, PTL

(* A stop reaches the whole subtree and is explained by a cause from above.*)
THEOREM StopReaches == Spec => []StopReachesSubtree
<1>1. SafetyInv => StopReachesSubtree
  BY DEF SafetyInv
<1>2. QED
  BY <1>1, SafetyInvariant, PTL

(* No live scope is woken by its token before its cause is on record.      *)
THEOREM CausePublished == Spec => []CauseBeforeWake
<1>1. SafetyInv => CauseBeforeWake
  BY DEF SafetyInv
<1>2. QED
  BY <1>1, SafetyInvariant, PTL

(* Published outcomes claim no more than the dispatch and the progress on  *)
(* record support.                                                         *)
THEOREM EvidenceSound == Spec => []EvidenceIsSound
<1>1. SafetyInv => EvidenceIsSound
  BY DEF SafetyInv
<1>2. QED
  BY <1>1, SafetyInvariant, PTL

(* settle replaces nothing that was published.                             *)
LEMMA SettleKeepsPublished ==
    ASSUME SafetyInv, SomeSettle PROVE PublishedStep /\ LifeCycleStep
<1> USE DEF SafetyInv
<1>1. PICK id, st, done, out, lost : SettleStep(id, st, done, out, lost)
  BY DEF SomeSettle
<1>2. PICK W : Terminates(id, st, done, lost, W)
  BY <1>1, SettleTerminates
<1>3. W \subseteq created /\ \A s \in W : terminal[s] = NoReport /\ state[s] # "Terminated"
  BY <1>2, SMT DEF Terminates, WalkUp, Ready, StateInv
<1>4. \A s \in Scope : /\ s \in W => state'[s] = "Terminated"
                       /\ s \notin W => state'[s] = st[s] /\ terminal'[s] = terminal[s]
  BY <1>2 DEF Terminates
<1>5. causes' = causes
  BY <1>1, SettleFrame
<1>6. \A o \in Operation : outcome[o] # Pending => outcome'[o] = outcome[o]
  BY <1>1, SettleOutcomes
<1>7. PublishedStep
  BY <1>3, <1>4, <1>5, <1>6 DEF PublishedStep
<1>8. LifeCycleStep
  <2> SUFFICES ASSUME NEW s \in Scope, state'[s] # state[s], state[s] # "Running"
               PROVE  /\ state[s] \in {"Draining", "Stopping"}
                      /\ state'[s] = "Terminated"
    BY DEF LifeCycleStep
  <2>1. st[s] = state[s]
    BY <1>1 DEF SettleStep
  <2>2. s \in W
    BY <1>4, <2>1
  <2>3. QED
    BY <1>3, <1>4, <2>2 DEF TypeOK, ScopeState
<1>9. QED
  BY <1>7, <1>8

(* Nor does request_stop: causes are appended, and terminated scopes are   *)
(* left alone.                                                             *)
LEMMA RequestStopKeepsPublished ==
    ASSUME SafetyInv, NEW t, NEW kind, NEW s \in created, NEW o,
           NEW reason \in CancellationReason, RequestStop(t, kind, s, o, reason)
    PROVE  PublishedStep /\ LifeCycleStep
<1> USE DEF SafetyInv
<1> DEFINE cause == [origin |-> s, reason |-> reason]
           hit == Stoppable(s)
           known(x) == \E i \in DOMAIN causes[x] : causes[x][i] = cause
<1>1. /\ state' = [x \in Scope |-> IF x \in hit THEN "Stopping" ELSE state[x]]
      /\ causes' = [x \in Scope |->
                      IF x \in hit /\ ~known(x) THEN Append(causes[x], cause) ELSE causes[x]]
      /\ UNCHANGED <<terminal, outcome>>
  BY DEF RequestStop
<1>2. \A x \in hit : x \in created /\ state[x] # "Terminated" /\ terminal[x] = NoReport
  BY StoppableOrTerminated DEF Subtree, StateInv
<1> HIDE DEF hit, known, cause
<1>3. \A x \in Scope : causes'[x] = causes[x] \/ causes'[x] = Append(causes[x], cause)
  BY <1>1
<1>4. ASSUME NEW x \in Scope, NEW i \in DOMAIN causes[x]
      PROVE  i \in DOMAIN causes'[x] /\ causes'[x][i] = causes[x][i]
  <2>1. causes[x] \in Seq(CancellationCause)
    BY DEF TypeOK
  <2>2. CASE causes'[x] = Append(causes[x], cause)
    BY <1>4, <2>1, <2>2, SMT
  <2>3. QED
    BY <1>3, <1>4, <2>2
<1>5. \A x \in Scope : terminal[x] # NoReport => causes'[x] = causes[x]
  BY <1>1, <1>2
<1>6. PublishedStep
  BY <1>1, <1>4, <1>5 DEF PublishedStep
<1>7. LifeCycleStep
  <2> SUFFICES ASSUME NEW x \in Scope, state'[x] # state[x], state[x] # "Running"
               PROVE  state[x] = "Draining" /\ state'[x] = "Stopping"
    BY DEF LifeCycleStep
  <2>1. x \in hit /\ state'[x] = "Stopping"
    BY <1>1
  <2>2. QED
    BY <1>2, <2>1 DEF TypeOK, ScopeState
<1>8. QED
  BY <1>6, <1>7

(* Each step keeps what was published and moves along the life cycle.      *)
LEMMA PublishedStepHolds ==
    ASSUME SafetyInv, [Next]_vars PROVE PublishedStep /\ LifeCycleStep
<1>1. TypeOK'
  BY TypeStep DEF SafetyInv
<1>2. ASSUME UNCHANGED <<state, causes, terminal, outcome>> PROVE PublishedStep /\ LifeCycleStep
  BY <1>2 DEF PublishedStep, LifeCycleStep
<1>3. ASSUME NEW s \in Scope, FinishBody(s) PROVE PublishedStep /\ LifeCycleStep
  BY <1>1, <1>3, FinishBodySettles, SettleKeepsPublished
<1>4. ASSUME NEW t \in Thread, NEW s \in Scope, FailBody(t, s) PROVE PublishedStep /\ LifeCycleStep
  BY <1>4, RequestStopKeepsPublished DEF FailBody, CancellationReason
<1>5. ASSUME NEW t \in Thread, NEW s \in Scope, NEW r \in StopReason, Stop(t, s, r)
      PROVE  PublishedStep /\ LifeCycleStep
  BY <1>5, RequestStopKeepsPublished DEF Stop, CancellationReason
<1>6. ASSUME NEW o \in Operation, NEW k \in {"NotDispatched", "Confirmed", "Unknown"},
             NEW e \in BOOLEAN, CompleteOperation(o, k, e)
      PROVE  PublishedStep /\ LifeCycleStep
  BY <1>1, <1>6, CompleteOperationSettles, SettleKeepsPublished
<1>7. ASSUME NEW o \in Operation, NEW t \in Thread, DropRegistration(t, o)
      PROVE  PublishedStep /\ LifeCycleStep
  <2>1. op_scope[o] \in created
    BY <1>7 DEF DropRegistration, Owned, Active, SafetyInv, OperationInv
  <2>2. RequestStop(t, "drop", op_scope[o], o, "OwnerDropped")
    BY <1>7 DEF DropRegistration
  <2>3. QED
    BY <2>1, <2>2, RequestStopKeepsPublished DEF CancellationReason
<1>8. ASSUME NEW t \in Thread, FailBodyDone(t) PROVE PublishedStep /\ LifeCycleStep
  BY <1>1, <1>2, <1>8, FailBodyDoneSettles, SettleKeepsPublished
<1>9. ASSUME NEW t \in Thread, AbandonOperation(t) PROVE PublishedStep /\ LifeCycleStep
  BY <1>1, <1>9, AbandonOperationSettles, SettleKeepsPublished
<1>10. ASSUME NEW s \in Scope, ClaimBody(s) \/ \E c \in Scope : Child(s, c)
       PROVE  PublishedStep /\ LifeCycleStep
  BY <1>2, <1>10 DEF ClaimBody, Child
<1>11. ASSUME NEW o \in Operation,
              \/ \E s \in Scope, p \in Operation \cup {NoOperation} : Register(s, p, o)
              \/ BeginDispatch(o) \/ RecordCleanupError(o)
              \/ \E u \in Units : RecordProgress(o, u)
       PROVE  PublishedStep /\ LifeCycleStep
  BY <1>2, <1>11 DEF Register, BeginDispatch, RecordCleanupError, RecordProgress
<1>12. ASSUME NEW t \in Thread, NEW x \in Scope, CancelToken(t, x)
       PROVE  PublishedStep /\ LifeCycleStep
  BY <1>2, <1>12 DEF CancelToken
<1>13. CASE UNCHANGED vars
  BY <1>2, <1>13 DEF vars
<1>14. QED
  BY <1>3, <1>4, <1>5, <1>6, <1>7, <1>8, <1>9, <1>10, <1>11, <1>12, <1>13
  DEF Next, ScopeNext, OperationNext, ThreadNext

(* Outcomes, reports and causes are final once published.                  *)
THEOREM PublishedFinal == Spec => PublishedIsFinal
<1>1. SafetyInv /\ [Next]_vars => [PublishedStep]_vars
  BY PublishedStepHolds
<1>2. QED
  BY <1>1, SafetyInvariant, PTL DEF Spec, PublishedIsFinal

(* Scopes move along the documented life cycle only.                       *)
THEOREM LifeCycleHolds == Spec => LifeCycle
<1>1. SafetyInv /\ [Next]_vars => [LifeCycleStep]_vars
  BY PublishedStepHolds
<1>2. QED
  BY <1>1, SafetyInvariant, PTL DEF Spec, LifeCycle

(* No step admits or dispatches anything below a scope with a cause.       *)
LEMMA ClosedStepHolds ==
    ASSUME SafetyInv, [Next]_vars PROVE ClosedStep
<1> USE DEF SafetyInv
<1>1. ASSUME UNCHANGED <<created, path, op_scope, dispatched>> PROVE ClosedStep
  BY <1>1 DEF ClosedStep, Subtree
<1>2. ASSUME NEW s \in created, causes[s] # << >>, NEW t \in Subtree(s)
      PROVE  state[s] \in {"Stopping", "Terminated"} /\ s \in path[t]
  BY <1>2 DEF StateInv, Subtree
<1>3. ASSUME NEW s \in Scope, NEW c \in Scope, Child(s, c) PROVE ClosedStep
  <2>1. /\ s \in created /\ c \notin created
        /\ \A x \in path[s] : state[x] \notin {"Stopping", "Terminated"}
        /\ created' = created \cup {c}
        /\ path' = [path EXCEPT ![c] = path[s] \cup {c}]
        /\ op_scope' = op_scope /\ dispatched' = dispatched
    BY <1>3 DEF Child, CheckAdmission, opVars
  <2>2. path'[c] = path[s] \cup {c} /\ \A x \in created : path'[x] = path[x]
    BY <2>1 DEF TypeOK
  <2>3. ASSUME NEW x \in created, causes[x] # << >> PROVE Subtree(x)' = Subtree(x)
    <3>1. x \notin path'[c]
      BY <2>1, <2>2, <2>3 DEF StateInv
    <3>2. QED
      BY <2>1, <2>2, <3>1 DEF Subtree
  <2>4. QED
    BY <2>1, <2>3 DEF ClosedStep
<1>4. ASSUME NEW o \in Operation, NEW s \in Scope,
             NEW p \in Operation \cup {NoOperation}, Register(s, p, o)
      PROVE  ClosedStep
  <2>1. /\ \A x \in path[s] : state[x] \notin {"Stopping", "Terminated"}
        /\ op_scope' = [op_scope EXCEPT ![o] = s]
        /\ created' = created /\ path' = path /\ dispatched' = dispatched
    BY <1>4 DEF Register, CheckAdmission, treeVars
  <2>2. \A x \in created : causes[x] # << >> => s \notin Subtree(x)
    BY <2>1 DEF StateInv, Subtree
  <2>3. op_scope'[o] = s /\ \A q \in Operation \ {o} : op_scope'[q] = op_scope[q]
    BY <2>1 DEF TypeOK
  <2>4. QED
    BY <2>1, <2>2, <2>3 DEF ClosedStep, Subtree
<1>5. ASSUME NEW o \in Operation, BeginDispatch(o) PROVE ClosedStep
  <2>1. /\ \A x \in path[op_scope[o]] : state[x] \notin {"Stopping", "Terminated"}
        /\ dispatched' = [dispatched EXCEPT ![o] = TRUE]
        /\ created' = created /\ path' = path /\ op_scope' = op_scope
    BY <1>5 DEF BeginDispatch, CheckAdmission, treeVars
  <2>2. \A x \in created : causes[x] # << >> => op_scope[o] \notin Subtree(x)
    BY <2>1 DEF StateInv, Subtree
  <2>3. \A q \in Operation \ {o} : dispatched'[q] = dispatched[q]
    BY <2>1 DEF TypeOK
  <2>4. QED
    BY <2>1, <2>2, <2>3 DEF ClosedStep, Subtree
<1>6. ASSUME NEW s \in Scope,
             \/ ClaimBody(s) \/ FinishBody(s)
             \/ \E t \in Thread : FailBody(t, s)
             \/ \E t \in Thread, r \in StopReason : Stop(t, s, r)
      PROVE  ClosedStep
  BY <1>1, <1>6 DEF ClaimBody, FinishBody, FailBody, Stop, RequestStop, treeVars, opVars
<1>7. ASSUME NEW o \in Operation,
             \/ \E k \in {"NotDispatched", "Confirmed", "Unknown"}, e \in BOOLEAN :
                    CompleteOperation(o, k, e)
             \/ RecordCleanupError(o) \/ \E u \in Units : RecordProgress(o, u)
             \/ \E t \in Thread : DropRegistration(t, o)
      PROVE  ClosedStep
  BY <1>1, <1>7 DEF CompleteOperation, RecordCleanupError, RecordProgress,
     DropRegistration, RequestStop, treeVars, opVars
<1>8. ASSUME NEW t \in Thread, ThreadNext(t) PROVE ClosedStep
  BY <1>1, <1>8 DEF ThreadNext, CancelToken, FailBodyDone, AbandonOperation, treeVars, opVars
<1>9. CASE UNCHANGED vars
  BY <1>1, <1>9 DEF vars, treeVars, opVars
<1>10. QED
  BY <1>3, <1>4, <1>5, <1>6, <1>7, <1>8, <1>9 DEF Next, ScopeNext, OperationNext

(* A scope with a cause on record admits nothing any more, anywhere below. *)
THEOREM StopCloses == Spec => StopClosesAdmission
<1>1. SafetyInv /\ [Next]_vars => [ClosedStep]_vars
  BY ClosedStepHolds
<1>2. QED
  BY <1>1, SafetyInvariant, PTL DEF Spec, StopClosesAdmission

=============================================================================
