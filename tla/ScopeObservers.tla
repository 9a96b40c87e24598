---------------------------- MODULE ScopeObservers ----------------------------
(***************************************************************************)
(* Waiting for a scope: ExecutionScope::join and wait_stopped              *)
(* (execution/shutdown/wait.rs) and CancelSignal::release_requested        *)
(* (execution/cancellation/source.rs).                                     *)
(*                                                                         *)
(* The registry changes under its lock and bumps the version of a watch    *)
(* channel after it has unlocked, request_stop only after it has cancelled *)
(* its tokens.  An observer subscribes, looks under the lock, and sleeps   *)
(* until the version moves.                                                *)
(***************************************************************************)
EXTENDS ExecutionScope

CONSTANTS
    Watched,    \* the scope whose handle the observers hold
    Waiter,     \* callers of wait_stopped, and of join, which has no deadline
    Releaser,   \* callers of release_requested
    MaxOwed     \* bound on the sections whose notify is outstanding

ASSUME ObserverAssumption == Watched \in Scope /\ MaxOwed \in Nat

Observer == Waiter \cup Releaser

VARIABLES
    owed,       \* sections that have unlocked and not notified yet
    step,       \* where each observer stands
    unseen,     \* observers whose receiver has not seen the last version
    listed      \* the pending work a timed-out waiter answers with

observerVars == <<owed, step, unseen, listed>>

Step == {"off", "look", "parking", "asleep", "expired", "listing", "Reported", "TimedOut"}
Goto(w, from, to) == step[w] = from /\ step' = [step EXCEPT ![w] = to]

(* Mutant of Satisfied: a release is asked for only by stopping the scope. *)
SatisfiedWhenStopping(w) ==
    IF w \in Releaser THEN state[Watched] = "Stopping" ELSE terminal[Watched] # NoReport

(* What an observer looks for under the lock.                              *)
Satisfied(w) ==
    IF w \in Releaser THEN state[Watched] # "Running" ELSE terminal[Watched] # NoReport

-----------------------------------------------------------------------------
(* The registry and its channel *)

(* The calls that end in notify: all but claim_body and begin_dispatch.    *)
(* request_stop comes to it when its last token is cancelled.              *)
Notifies ==
    \/ \E t \in Thread : call[t].tokens # {} /\ call'[t].tokens = {}
    \/ created' # created \/ body_done' # body_done
    \/ op_scope' # op_scope \/ outcome' # outcome \/ owner_lost' # owner_lost
    \/ completed_units' # completed_units \/ cleanup_errors' # cleanup_errors

Unlock(A) ==
    /\ A
    /\ owed' = IF Notifies THEN owed + 1 ELSE owed
    /\ owed' <= MaxOwed
    /\ UNCHANGED <<step, unseen, listed>>

RegistryStep == Unlock(Next)

Notify ==
    /\ owed > 0
    /\ owed' = owed - 1
    /\ unseen' = {w \in Observer : step[w] # "off"}
    /\ UNCHANGED <<vars, step, listed>>

-----------------------------------------------------------------------------
(* An observer *)

(* A new receiver has seen the version of the moment.                      *)
Subscribe(w) ==
    /\ Goto(w, "off", "look")
    /\ unseen' = unseen \ {w}
    /\ UNCHANGED <<vars, owed, listed>>

(* The condition is read under the lock, and the lock is released.         *)
Look(w) ==
    /\ Goto(w, "look", IF Satisfied(w) THEN "Reported" ELSE "parking")
    /\ UNCHANGED <<vars, owed, unseen, listed>>

(* Mutant of Park: the receiver is created here, after the look.           *)
ParkSubscribes(w) ==
    /\ Goto(w, "parking", "asleep")
    /\ unseen' = unseen \ {w}
    /\ UNCHANGED <<vars, owed, listed>>

(* changed().await: the receiver still knows which version it has seen.    *)
Park(w) ==
    /\ Goto(w, "parking", "asleep")
    /\ UNCHANGED <<vars, owed, unseen, listed>>

Changed(w) ==
    /\ Goto(w, "asleep", "look")
    /\ w \in unseen
    /\ unseen' = unseen \ {w}
    /\ UNCHANGED <<vars, owed, listed>>

(* timeout_at polls the join first: it gives up on a sleeping one.         *)
Expire(w) ==
    /\ w \in Waiter
    /\ Goto(w, "asleep", "expired")
    /\ w \notin unseen
    /\ UNCHANGED <<vars, owed, unseen, listed>>

(* termination(), and when there is none, pending() in a section of its    *)
(* own.                                                                    *)
Query(w) ==
    /\ Goto(w, "expired", IF Satisfied(w) THEN "Reported" ELSE "listing")
    /\ UNCHANGED <<vars, owed, unseen, listed>>

PendingWork ==
    {s \in Subtree(Watched) : state[s] # "Terminated"}
        \cup {o \in Operation : /\ op_scope[o] \in Subtree(Watched)
                                /\ outcome[o] = Pending}

List(w) ==
    /\ Goto(w, "listing", "TimedOut")
    /\ listed' = [listed EXCEPT ![w] = PendingWork]
    /\ UNCHANGED <<vars, owed, unseen>>

-----------------------------------------------------------------------------
ObserverInit ==
    /\ Init
    /\ owed = 0
    /\ step = [w \in Observer |-> "off"]
    /\ unseen = {}
    /\ listed = [w \in Observer |-> {}]

Runs(w) == Look(w) \/ Park(w) \/ Changed(w) \/ Query(w) \/ List(w)

ObserverNext == \E w \in Observer : Subscribe(w) \/ Runs(w) \/ Expire(w)

WatchNext == RegistryStep \/ Notify \/ ObserverNext

WatchSpec == ObserverInit /\ [][WatchNext]_<<vars, observerVars>>

-----------------------------------------------------------------------------
(* Properties *)

ObserverTypeOK ==
    /\ owed \in 0 .. MaxOwed
    /\ step \in [Observer -> Step]
    /\ unseen \subseteq Observer
    /\ listed \in [Observer -> SUBSET (Scope \cup Operation)]

(* No observer sleeps on news: once every section has notified, one whose  *)
(* condition holds has been woken.  The look and the sleep of join and of  *)
(* release_requested are not atomic, and the notify comes after the unlock.*)
NoLostWakeup ==
    /\ ObserverTypeOK
    /\ \A w \in Observer :
           /\ step[w] = "asleep" /\ w \notin unseen
           /\ owed = 0 /\ \A t \in Thread : call[t].tokens = {}
           => ~Satisfied(w)

(* join returns once the scope has terminated, release_requested once it   *)
(* has left Running, and wait_stopped then or with the answer that its     *)
(* deadline has passed: nobody is kept for good who has what it waits for. *)
ObserversReturn ==
    []<>\A w \in Observer :
        /\ step[w] # "off"
        /\ state[Watched] # "Running" /\ (w \in Waiter => terminal[Watched] # NoReport)
        => step[w] \in {"Reported", "TimedOut"}

(* wait.rs says it queries "under the registry lock to settle a            *)
(* timeout/completion race".  Settled, a TimedOut would name the work that *)
(* is still pending.                                                       *)
TimedOutNamesWork == \A w \in Observer : step[w] = "TimedOut" => listed[w] # {}

=============================================================================
