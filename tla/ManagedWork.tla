----------------------------- MODULE ManagedWork -----------------------------
(***************************************************************************)
(* Backend work that outlives its waiter: OperationContext::supervise and  *)
(* run_blocking_managed (execution/operation/context.rs, blocking.rs) on   *)
(* top of the scope registry.                                              *)
(*                                                                         *)
(* A job registers an operation of its own below the operation of the      *)
(* caller's context and moves the registration into a task.  A blocking    *)
(* job also needs one of a fixed number of permits.  The task checks the   *)
(* signal, passes begin_dispatch, runs the job and completes.  The job may *)
(* panic, the runtime may drop a task that never started, and the caller's *)
(* operation may be dropped at any time.                                   *)
(***************************************************************************)
EXTENDS ExecutionScope, FiniteSets

CONSTANTS
    Job,        \* the operations registered by jobs; the others are callers'
    Blocking,   \* the jobs of run_blocking_managed; the others of supervise
    Capacity    \* permits of BLOCKING_CAPACITY

ASSUME JobAssumption ==
    /\ Job \subseteq Operation /\ Blocking \subseteq Job /\ IsFiniteSet(Job)
    /\ Capacity \in Nat

VARIABLES
    phase,      \* how far each job has come
    caller,     \* the operation of the context each job was submitted with
    permits,    \* permits left in BLOCKING_CAPACITY
    ran,        \* the jobs whose closure was entered
    answer      \* what the caller's future resolves to

workVars == <<phase, caller, permits, ran, answer>>
allVars == <<vars, workVars>>

Phase == {"idle", "checked", "permitted", "queued", "started", "refused",
          "dispatched", "running", "dropping", "closing", "done"}
Answer == {"none", "NotDispatched", "OutcomeUnavailable", "Response", "Error"}
HoldsPermit(j) == j \in Blocking /\ phase[j] \notin {"idle", "checked", "done"}

Move(j, from, to) == phase[j] = from /\ phase' = [phase EXCEPT ![j] = to]

(* CancelSignal::check                                                     *)
Signalled(j) == causes[op_scope[caller[j]]] # << >>

-----------------------------------------------------------------------------
(* In the caller's future *)

(* The checks before admission.  The time budget may run out at any time.  *)
Submit(j, p) ==
    /\ p \in Operation \ Job /\ Registered(p)
    /\ caller' = [caller EXCEPT ![j] = p]
    /\ \/ j \in Blocking /\ causes[op_scope[p]] = << >> /\ Move(j, "idle", "checked")
       \/ j \notin Blocking /\ Move(j, "idle", "permitted")
    /\ UNCHANGED <<vars, permits, ran, answer>>

(* try_acquire_owned: no waiting for a permit.                             *)
Acquire(j) ==
    /\ Move(j, "checked", "permitted")
    /\ permits > 0
    /\ permits' = permits - 1
    /\ UNCHANGED <<vars, caller, ran, answer>>

(* register_work, and the task is spawned with the registration.           *)
Spawn(j) ==
    /\ Move(j, "permitted", "queued")
    /\ Register(op_scope[caller[j]], caller[j], j)
    /\ UNCHANGED <<caller, permits, ran, answer>>

(* Every refusal before a registration exists.                             *)
Refuse(j) ==
    /\ \/ Move(j, "idle", "done")
          /\ j \in Blocking
       \/ Move(j, "checked", "done")
          /\ permits = 0
       \/ Move(j, "permitted", "done")
          /\ ~(CheckAdmission(op_scope[caller[j]], TRUE) /\ Active(caller[j]))
    /\ permits' = IF HoldsPermit(j) THEN permits + 1 ELSE permits
    /\ answer' = [answer EXCEPT ![j] = IF j \in Blocking THEN "NotDispatched" ELSE "Error"]
    /\ UNCHANGED <<vars, caller, ran>>

-----------------------------------------------------------------------------
(* In the task that owns the registration *)

(* check_time and signal().check(): a blocking job may be refused here.    *)
Start(j) ==
    /\ \/ j \in Blocking /\ Move(j, "queued", "refused")
       \/ Move(j, "queued", "started") /\ (j \in Blocking => ~Signalled(j))
    /\ UNCHANGED <<vars, caller, permits, ran, answer>>

Dispatch(j) ==
    /\ \/ Move(j, "started", "dispatched") /\ BeginDispatch(j)
       \/ Move(j, "started", "refused") /\ ~CheckAdmission(op_scope[j], TRUE) /\ UNCHANGED vars
    /\ UNCHANGED <<caller, permits, ran, answer>>

Run(j) ==
    /\ Move(j, "dispatched", "running")
    /\ ran' = ran \cup {j}
    /\ UNCHANGED <<vars, caller, permits, answer>>

(* The registration is completed after the job has returned.  Its result   *)
(* decides the outcome: Confirmed, or Unknown for an error.                *)
Finish(j) ==
    /\ \/ Move(j, "refused", "closing") /\ CompleteOperation(j, "NotDispatched", FALSE)
          /\ answer' = [answer EXCEPT ![j] = IF j \in Blocking THEN "NotDispatched" ELSE "Error"]
       \/ Move(j, "running", "closing") /\ CompleteOperation(j, "Confirmed", FALSE)
          /\ answer' = [answer EXCEPT ![j] = "Response"]
       \/ Move(j, "running", "closing") /\ CompleteOperation(j, "Unknown", FALSE)
          /\ answer' = [answer EXCEPT ![j] = IF j \in Blocking THEN "OutcomeUnavailable" ELSE "Error"]
    /\ UNCHANGED <<caller, permits, ran>>

(* The job panics, or the runtime drops a task that has not started: the   *)
(* registration is dropped on thread t, and the future sees a JoinError.   *)
Unwind(j, t) ==
    /\ Move(j, "queued", "dropping") \/ Move(j, "running", "dropping")
    /\ DropRegistration(t, j)
    /\ UNCHANGED <<caller, permits, ran, answer>>

(* Mutant of Unwound: a task that broke off counts as never started.       *)
UnwoundNotDispatched(j) ==
    /\ Move(j, "dropping", "closing")
    /\ owner_lost[j]
    /\ answer' = [answer EXCEPT ![j] = "NotDispatched"]
    /\ UNCHANGED <<vars, caller, permits, ran>>

(* JoinError, once the registration is abandoned.                          *)
Unwound(j) ==
    /\ Move(j, "dropping", "closing")
    /\ owner_lost[j]
    /\ answer' = [answer EXCEPT ![j] = IF j \in Blocking THEN "OutcomeUnavailable" ELSE "Error"]
    /\ UNCHANGED <<vars, caller, permits, ran>>

(* The closure's frame goes away and with it the permit.                   *)
Close(j) ==
    /\ Move(j, "closing", "done")
    /\ permits' = IF HoldsPermit(j) THEN permits + 1 ELSE permits
    /\ UNCHANGED <<vars, caller, ran, answer>>

-----------------------------------------------------------------------------
WorkInit ==
    /\ Init
    /\ phase = [j \in Job |-> "idle"]
    /\ caller = [j \in Job |-> NoOperation]
    /\ permits = Capacity
    /\ ran = {}
    /\ answer = [j \in Job |-> "none"]

JobNext(j) ==
    \/ \E p \in Operation : Submit(j, p)
    \/ Acquire(j) \/ Spawn(j) \/ Refuse(j)
    \/ Start(j) \/ Dispatch(j) \/ Run(j) \/ Finish(j)
    \/ \E t \in Thread : Unwind(j, t)
    \/ Unwound(j) \/ Close(j)

(* The owners of the scopes and of the callers' operations.                *)
OwnerNext ==
    /\ \/ ScopeNext
       \/ \E o \in Operation \ Job : OperationNext(o)
       \/ \E t \in Thread : ThreadNext(t)
    /\ UNCHANGED workVars

WorkNext == OwnerNext \/ \E j \in Job : JobNext(j)

WorkSpec == WorkInit /\ [][WorkNext]_allVars

-----------------------------------------------------------------------------
(* Properties *)

WorkTypeOK ==
    /\ phase \in [Job -> Phase]
    /\ caller \in [Job -> Operation \cup {NoOperation}]
    /\ permits \in 0 .. Capacity
    /\ ran \subseteq Job
    /\ answer \in [Job -> Answer]

(* DispatchError::NotDispatched is a certainty: whoever receives it may    *)
(* repeat the request, because the job was not entered and never will be.  *)
NotDispatchedIsCertain ==
    /\ WorkTypeOK
    /\ \A j \in Job : answer[j] = "NotDispatched" =>
           /\ j \notin ran
           /\ phase[j] \in {"closing", "done"}
           /\ Registered(j) => outcome[j].kind = "NotDispatched"

(* The operation of a dispatched caller that went away is reported only    *)
(* when the work it had handed over has ended.  (A caller that hands over  *)
(* work before its own begin_dispatch is reported NotDispatched at once:   *)
(* the registry does not ask for the order, its users keep it.)            *)
LostCallerWaits ==
    \A j \in Job :
        /\ phase[j] \in {"dispatched", "running"}
        /\ owner_lost[caller[j]] /\ dispatched[caller[j]]
        => outcome[caller[j]] = Pending

=============================================================================
