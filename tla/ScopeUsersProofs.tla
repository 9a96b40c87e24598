--------------------------- MODULE ScopeUsersProofs ---------------------------
(***************************************************************************)
(* The two protocols on top of the scope registry keep their promises, for *)
(* any number of scopes, operations, threads, observers and jobs: those    *)
(* who wait for a scope are woken, and those who hand work over can rely   *)
(* on what they are told about it.                                         *)
(***************************************************************************)
EXTENDS ExecutionScopeProofs, ScopeObservers, ManagedWork, FiniteSetTheorems

USE Zenon

-----------------------------------------------------------------------------
(* Observers *)

(* News is on its way: a section has not notified yet, or a request_stop   *)
(* still cancels tokens and notifies after that.                           *)
NewsComing == owed > 0 \/ \E t \in Thread : call[t].tokens # {}

Watching ==
    \A w \in Observer : step[w] \in {"parking", "asleep"} /\ w \notin unseen /\ Satisfied(w)
                        => NewsComing

WatchInv == SafetyInv /\ ObserverTypeOK /\ Watching

(* A request_stop that marks a scope has tokens to cancel.                 *)
LEMMA RequestStopHasTokens ==
    ASSUME SafetyInv, NEW t \in Thread, NEW kind, NEW s \in created, NEW o, NEW reason,
           RequestStop(t, kind, s, o, reason), state' # state
    PROVE  call'[t].tokens # {}
<1>1. PICK x : x \in Stoppable(s)
  <2>1. SUFFICES ASSUME \A x : x \notin Stoppable(s) PROVE FALSE
    OBVIOUS
  <2>2. state' = [x \in Scope |-> state[x]]
    BY <2>1 DEF RequestStop
  <2>3. state = [x \in Scope |-> state[x]]
    BY DEF SafetyInv, TypeOK
  <2>4. QED
    BY <2>2, <2>3
<1>2. /\ x \in created /\ s \in path[x]
      /\ \A u \in path[x] : s \in path[u] => state[u] # "Terminated"
  BY <1>1 DEF Stoppable, Subtree
<1>3. path[s] \subseteq path[x] /\ s \in path[s]
  BY <1>2 DEF SafetyInv, TreeInv
<1>4. s \in Subtree(s) /\ s \in Stoppable(s)
  BY <1>2, <1>3 DEF Stoppable, Subtree
<1>5. PICK T : T = Subtree(s) /\ s \in T
  BY <1>4
<1>6. call' = [call EXCEPT ![t] = [kind |-> kind, scope |-> s, operation |-> o, tokens |-> T]]
  <2>1. T # {}
    BY <1>5
  <2>2. QED
    BY <1>4, <1>5, <2>1 DEF RequestStop
<1>7. call'[t].tokens = T
  BY <1>6, SMT DEF SafetyInv, TypeOK
<1>8. QED
  BY <1>5, <1>7

(* Ending a body is a change that is notified.                             *)
LEMMA BodyDoneNotifies ==
    ASSUME SafetyInv, NEW s \in created, BodyDone(s), state' # state \/ terminal' # terminal
    PROVE  body_done' # body_done
<1>1. ~body_done[s] /\ body_done' = [body_done EXCEPT ![s] = TRUE]
  BY DEF BodyDone
<1>2. s \in Scope /\ body_done \in [Scope -> BOOLEAN]
  BY DEF SafetyInv, TypeOK
<1>3. body_done'[s]
  BY <1>1, <1>2
<1>4. QED
  BY <1>1, <1>3

(* What the observers look for changes in a section that notifies.         *)
LEMMA ChangesAreTold ==
    ASSUME SafetyInv, Next, state' # state \/ terminal' # terminal
    PROVE  Notifies \/ \E t \in Thread : call'[t].tokens # {}
<1>1. TypeOK'
  BY TypeStep DEF SafetyInv
<1>2. ASSUME NEW t \in Thread, NEW kind, NEW s \in created, NEW o, NEW r,
             RequestStop(t, kind, s, o, r)
      PROVE  call'[t].tokens # {}
  <2>1. terminal' = terminal
    BY <1>2 DEF RequestStop
  <2>2. QED
    BY <1>2, <2>1, RequestStopHasTokens
<1>3. ASSUME NEW s \in Scope, FinishBody(s) PROVE Notifies
  BY <1>3, BodyDoneNotifies DEF FinishBody, Notifies
<1>4. ASSUME NEW t \in Thread, FailBodyDone(t) PROVE Notifies
  <2>1. PICK s \in created : s = call[t].scope
    BY <1>4 DEF FailBodyDone, SafetyInv, CallInv
  <2>2. BodyDone(s)
    BY <1>4, <2>1 DEF FailBodyDone
  <2>3. QED
    BY <2>2, BodyDoneNotifies DEF Notifies
<1>5. ASSUME NEW o \in Operation, NEW k \in {"NotDispatched", "Confirmed", "Unknown"},
             NEW e \in BOOLEAN, CompleteOperation(o, k, e)
      PROVE  Notifies
  <2>1. outcome'[o] # Pending
    <3>1. PICK v : v = IF k = "Unknown" THEN Uncertain(o) ELSE Plain(k)
      OBVIOUS
    <3>2. v # Pending
      <4>1. PICK u : u = completed_units[o]
        OBVIOUS
      <4>2. \/ v = Plain("NotDispatched") \/ v = Plain("Confirmed") \/ v = Plain("Unknown")
            \/ v = [kind |-> "Partial", units |-> u]
        BY <3>1, <4>1 DEF Uncertain
      <4>3. QED
        BY ONLY <4>2, SMT DEF Plain, Pending
    <3>3. PICK f : f = [outcome EXCEPT ![o] = v]
      OBVIOUS
    <3>4. Settle(op_scope[o], state, body_done, f, owner_lost)
      BY <1>5, <3>1, <3>3 DEF CompleteOperation
    <3>5. PICK D : outcome' = [p \in Operation |-> IF p \in D THEN Uncertain(p) ELSE f[p]]
      BY <3>4 DEF Settle
    <3>6. f[o] = v
      BY <3>3 DEF SafetyInv, TypeOK
    <3>7. Uncertain(o) # Pending
      BY SMT DEF Uncertain, Plain, Pending
    <3>8. QED
      BY <3>2, <3>5, <3>6, <3>7
  <2>2. outcome[o] = Pending
    BY <1>5 DEF CompleteOperation, Owned, Active
  <2>3. outcome' # outcome
    BY <2>1, <2>2
  <2>4. QED
    BY <2>3 DEF Notifies
<1>6. ASSUME NEW t \in Thread, AbandonOperation(t) PROVE Notifies
  <2>1. PICK o \in Operation : o = call[t].operation
    BY <1>6 DEF AbandonOperation, SafetyInv, CallInv
  <2>2. ~owner_lost[o] /\ owner_lost' = [owner_lost EXCEPT ![o] = TRUE]
    BY <1>6, <2>1 DEF AbandonOperation, SafetyInv, CallInv, Active
  <2>3. owner_lost'[o]
    BY <2>2 DEF SafetyInv, TypeOK
  <2>4. owner_lost' # owner_lost
    BY <2>2, <2>3
  <2>5. QED
    BY <2>4 DEF Notifies
<1>7. ASSUME NEW o \in Operation, NEW t \in Thread, DropRegistration(t, o)
      PROVE  call'[t].tokens # {}
  <2>1. PICK s \in created : s = op_scope[o]
    BY <1>7 DEF DropRegistration, Owned, Active, SafetyInv, OperationInv
  <2>2. RequestStop(t, "drop", s, o, "OwnerDropped")
    BY <1>7, <2>1 DEF DropRegistration
  <2>3. QED
    BY <1>2, <2>2
<1>8. ASSUME NEW s \in Scope, ClaimBody(s) \/ (\E c \in Scope : Child(s, c)) PROVE FALSE
  BY <1>8 DEF ClaimBody, Child
<1>9. ASSUME NEW o \in Operation,
             \/ \E s \in Scope, p \in Operation \cup {NoOperation} : Register(s, p, o)
             \/ BeginDispatch(o) \/ RecordCleanupError(o)
             \/ \E u \in Units : RecordProgress(o, u)
      PROVE  FALSE
  BY <1>9 DEF Register, BeginDispatch, RecordCleanupError, RecordProgress
<1>10. ASSUME NEW t \in Thread, NEW x \in Scope, CancelToken(t, x) PROVE FALSE
  BY <1>10 DEF CancelToken
<1>11. ASSUME ScopeNext PROVE Notifies \/ \E t \in Thread : call'[t].tokens # {}
  BY <1>2, <1>3, <1>8, <1>11 DEF ScopeNext, FailBody, Stop
<1>12. ASSUME NEW o \in Operation, OperationNext(o)
       PROVE  Notifies \/ \E t \in Thread : call'[t].tokens # {}
  BY <1>5, <1>7, <1>9, <1>12 DEF OperationNext
<1>13. ASSUME NEW t \in Thread, ThreadNext(t) PROVE Notifies
  BY <1>4, <1>6, <1>10, <1>13 DEF ThreadNext
<1>14. QED
  BY <1>11, <1>12, <1>13 DEF Next

(* Tokens stay to be cancelled until the last one is, and that notifies.   *)
LEMMA TokensAreTold ==
    ASSUME SafetyInv, Next, NEW t \in Thread, call[t].tokens # {}
    PROVE  Notifies \/ call'[t].tokens # {}
<1>1. CASE call'[t] = call[t]
  BY <1>1
<1>2. CASE call'[t] # call[t]
  <2>1. SUFFICES ASSUME call'[t].tokens = {} PROVE Notifies
    OBVIOUS
  <2>2. QED
    BY <2>1 DEF Notifies
<1>3. QED
  BY <1>1, <1>2

LEMMA NewsStays ==
    ASSUME WatchInv, RegistryStep, NEW w \in Observer,
           NewsComing \/ (~Satisfied(w) /\ Satisfied(w)')
    PROVE  NewsComing'
<1>1. SafetyInv /\ Next /\ owed \in Nat
  <2>1. owed \in Nat
    BY ObserverAssumption, SMT DEF WatchInv, ObserverTypeOK
  <2>2. QED
    BY <2>1 DEF WatchInv, RegistryStep, Unlock
<1>2. owed' = IF Notifies THEN owed + 1 ELSE owed
  BY DEF RegistryStep, Unlock
<1>3. ASSUME Notifies PROVE owed' > 0
  BY <1>1, <1>2, <1>3, SMT
<1>4. ASSUME owed > 0 PROVE owed' > 0
  BY <1>1, <1>2, <1>4, SMT
<1>5. ASSUME ~Satisfied(w), Satisfied(w)' PROVE state' # state \/ terminal' # terminal
  BY <1>5 DEF Satisfied
<1>6. ASSUME NEW t \in Thread, call[t].tokens # {} PROVE NewsComing'
  BY <1>1, <1>3, <1>6, TokensAreTold DEF NewsComing
<1>7. ASSUME state' # state \/ terminal' # terminal PROVE NewsComing'
  BY <1>1, <1>3, <1>7, ChangesAreTold DEF NewsComing
<1>8. QED
  BY <1>4, <1>5, <1>6, <1>7 DEF NewsComing

LEMMA WatchTypes ==
    ASSUME WatchInv, WatchNext PROVE ObserverTypeOK'
<1>1. /\ owed \in 0 .. MaxOwed /\ step \in [Observer -> Step] /\ unseen \subseteq Observer
      /\ listed \in [Observer -> SUBSET (Scope \cup Operation)] /\ MaxOwed \in Nat
  BY ObserverAssumption DEF WatchInv, ObserverTypeOK
<1>2. CASE RegistryStep
  <2>1. owed' \in 0 .. MaxOwed
    <3>1. (owed' = owed \/ owed' = owed + 1) /\ owed' <= MaxOwed
      BY <1>2 DEF RegistryStep, Unlock
    <3>2. QED
      BY <1>1, <3>1, SMT
  <2>2. UNCHANGED <<step, unseen, listed>>
    BY <1>2 DEF RegistryStep, Unlock
  <2>3. QED
    BY <1>1, <2>1, <2>2 DEF ObserverTypeOK
<1>3. CASE Notify
  <2>1. owed' \in 0 .. MaxOwed
    <3>1. owed > 0 /\ owed' = owed - 1
      BY <1>3 DEF Notify
    <3>2. QED
      BY <1>1, <3>1, SMT
  <2>2. unseen' \subseteq Observer /\ UNCHANGED <<step, listed>>
    BY <1>3 DEF Notify
  <2>3. QED
    BY <1>1, <2>1, <2>2 DEF ObserverTypeOK
<1>4. ASSUME NEW w \in Observer, Subscribe(w) \/ Runs(w) \/ Expire(w) PROVE ObserverTypeOK'
  <2>1. owed' = owed /\ unseen' \subseteq unseen
    BY <1>4 DEF Subscribe, Runs, Expire, Look, Park, Changed, Query, List
  <2>2. PICK x \in Step : step' = [step EXCEPT ![w] = x]
    BY <1>4 DEF Subscribe, Runs, Expire, Look, Park, Changed, Query, List, Goto, Step
  <2>3. step' \in [Observer -> Step]
    BY <1>1, <2>2
  <2>4. listed' = listed \/ listed' = [listed EXCEPT ![w] = PendingWork]
    BY <1>4 DEF Subscribe, Runs, Expire, Look, Park, Changed, Query, List
  <2>5. PendingWork \subseteq Scope \cup Operation
    BY DEF PendingWork, Subtree, WatchInv, SafetyInv, TypeOK
  <2>6. listed' \in [Observer -> SUBSET (Scope \cup Operation)]
    BY <1>1, <2>4, <2>5
  <2>7. QED
    BY <1>1, <2>1, <2>3, <2>6 DEF ObserverTypeOK
<1>5. QED
  BY <1>2, <1>3, <1>4 DEF WatchNext, ObserverNext

LEMMA WatchStep ==
    ASSUME WatchInv, [WatchNext]_<<vars, observerVars>> PROVE WatchInv'
<1>1. [Next]_vars
  BY DEF WatchNext, RegistryStep, Unlock, Notify, ObserverNext, Subscribe, Runs, Expire, Look,
         Park, Changed, Query, List
<1>2. SafetyInv'
  BY <1>1, SafetyStep DEF WatchInv
<1>3. ObserverTypeOK'
  <2>1. CASE UNCHANGED <<vars, observerVars>>
    BY <2>1 DEF WatchInv, ObserverTypeOK, observerVars
  <2>2. QED
    BY <2>1, WatchTypes
<1>4. ASSUME NEW w \in Observer, step'[w] \in {"parking", "asleep"}, w \notin unseen',
             Satisfied(w)'
      PROVE  NewsComing'
  <2>0. step \in [Observer -> Step]
    BY DEF WatchInv, ObserverTypeOK
  <2>1. CASE RegistryStep
    <3>1. step'[w] = step[w] /\ unseen' = unseen
      BY <2>1 DEF RegistryStep, Unlock
    <3>2. Satisfied(w) => NewsComing
      BY <1>4, <3>1 DEF WatchInv, Watching
    <3>3. QED
      BY <1>4, <2>1, <3>2, NewsStays
  <2>2. CASE Notify
    <3>1. step[w] # "off" /\ w \in unseen'
      BY <1>4, <2>2 DEF Notify
    <3>2. QED
      BY <1>4, <3>1
  <2>3. CASE UNCHANGED vars /\ UNCHANGED <<owed, unseen>> /\ step'[w] \in {step[w], "asleep"}
             /\ (step'[w] # step[w] => step[w] = "parking")
    <3>1. step[w] \in {"parking", "asleep"} /\ w \notin unseen /\ Satisfied(w)
      <4>1. UNCHANGED <<state, terminal>>
        BY <2>3 DEF vars
      <4>2. QED
        BY <1>4, <2>3, <4>1 DEF Satisfied
    <3>2. NewsComing
      BY <3>1 DEF WatchInv, Watching
    <3>3. UNCHANGED <<owed, call>>
      BY <2>3 DEF vars
    <3>4. QED
      BY <3>2, <3>3 DEF NewsComing
  <2>4. CASE UNCHANGED vars /\ ~Satisfied(w)
    BY <1>4, <2>4 DEF vars, Satisfied
  <2>5. ASSUME NEW v \in Observer, Subscribe(v) \/ Runs(v) \/ Expire(v) PROVE NewsComing'
    <3>1. CASE v = w
      <4>1. CASE Subscribe(w) \/ Changed(w) \/ Expire(w) \/ Query(w) \/ List(w)
        <5>1. step'[w] \notin {"parking", "asleep"}
          BY <2>0, <4>1 DEF Subscribe, Changed, Expire, Query, List, Goto
        <5>2. QED
          BY <1>4, <5>1
      <4>2. CASE Look(w)
        <5>1. CASE Satisfied(w)
          <6>1. step'[w] = "Reported"
            BY <2>0, <4>2, <5>1 DEF Look, Goto
          <6>2. QED
            BY <1>4, <6>1
        <5>2. CASE ~Satisfied(w)
          BY <2>4, <4>2, <5>2 DEF Look
        <5>3. QED
          BY <5>1, <5>2
      <4>3. CASE Park(w)
        BY <2>0, <2>3, <4>3 DEF Park, Goto
      <4>4. QED
        BY <2>5, <3>1, <4>1, <4>2, <4>3 DEF Runs
    <3>2. CASE v # w
      <4>1. step'[w] = step[w]
        <5>1. PICK x : step' = [step EXCEPT ![v] = x]
          BY <2>5 DEF Subscribe, Runs, Expire, Look, Park, Changed, Query, List, Goto
        <5>2. QED
          BY <2>0, <3>2, <5>1
      <4>2. UNCHANGED <<vars, owed>> /\ (unseen' = unseen \/ unseen' = unseen \ {v})
        BY <2>5 DEF Subscribe, Runs, Expire, Look, Park, Changed, Query, List
      <4>3. w \notin unseen /\ step[w] \in {"parking", "asleep"} /\ UNCHANGED <<state, terminal, call>>
        BY <1>4, <3>2, <4>1, <4>2 DEF vars
      <4>4. Satisfied(w)
        BY <1>4, <4>3 DEF Satisfied
      <4>5. NewsComing
        BY <4>3, <4>4 DEF WatchInv, Watching
      <4>6. QED
        BY <4>2, <4>3, <4>5 DEF NewsComing
    <3>3. QED
      BY <3>1, <3>2
  <2>6. CASE UNCHANGED <<vars, observerVars>>
    BY <2>3, <2>6 DEF observerVars
  <2>7. QED
    BY <2>1, <2>2, <2>5, <2>6 DEF WatchNext, ObserverNext
<1>5. QED
  BY <1>2, <1>3, <1>4 DEF WatchInv, Watching

LEMMA WatchInitially == ObserverInit => WatchInv
<1> SUFFICES ASSUME ObserverInit PROVE WatchInv
  OBVIOUS
<1>1. SafetyInv
  BY SafetyInitially DEF ObserverInit
<1>2. /\ owed = 0 /\ step = [w \in Observer |-> "off"] /\ unseen = {}
      /\ listed = [w \in Observer |-> {}]
  BY DEF ObserverInit
<1>3. owed \in 0 .. MaxOwed
  BY <1>2, ObserverAssumption, SMT
<1>4. ObserverTypeOK
  BY <1>2, <1>3 DEF ObserverTypeOK, Step
<1>5. Watching
  BY <1>2 DEF Watching
<1>6. QED
  BY <1>1, <1>4, <1>5 DEF WatchInv

(* No observer sleeps on news, however the sections of the registry, their *)
(* notifications, the looks and the sleeps interleave: join, wait_stopped  *)
(* and release_requested over notify.                                      *)
THEOREM WakeupsArrive == WatchSpec => []NoLostWakeup
<1>1. WatchInv => NoLostWakeup
  <2> SUFFICES ASSUME WatchInv, NEW w \in Observer, step[w] = "asleep", w \notin unseen,
                      owed = 0, \A t \in Thread : call[t].tokens = {}, Satisfied(w)
               PROVE  FALSE
    BY DEF NoLostWakeup, WatchInv
  <2>1. NewsComing
    BY DEF WatchInv, Watching
  <2>2. ~(owed > 0)
    BY SMT
  <2>3. QED
    BY <2>1, <2>2 DEF NewsComing
<1>2. QED
  BY <1>1, WatchInitially, WatchStep, PTL DEF WatchSpec

-----------------------------------------------------------------------------
(* Jobs: what the steps of others do to an operation *)

(* settle sets the outcome of a lost operation when those of all its       *)
(* supervisors are there.                                                  *)
LEMMA SettleWaits ==
    ASSUME NEW id, NEW st, NEW done, NEW out, NEW lost, Settle(id, st, done, out, lost),
           NEW o \in Operation
    PROVE  \/ outcome'[o] = out[o]
           \/ /\ out[o] = Pending /\ lost[o]
              /\ \A c \in Supervisors(o) : outcome'[c] # Pending
<1>1. PICK D : D = SettledBySupervisors(id, out, lost)
  OBVIOUS
<1>2. outcome' = [p \in Operation |-> IF p \in D THEN Uncertain(p) ELSE out[p]]
  BY <1>1 DEF Settle
<1>3. Delegated(id, out, lost, D) = D
  BY <1>1, SettledFixed
<1>4. \A c : Uncertain(c) # Pending
  BY SMT DEF Uncertain, Plain, Pending
<1>5. CASE o \notin D
  BY <1>2, <1>5
<1>6. CASE o \in D
  <2>1. /\ out[o] = Pending /\ lost[o]
        /\ \A c \in Supervisors(o) : out[c] # Pending \/ c \in D
    <3>1. o \in Delegated(id, out, lost, D)
      BY <1>3, <1>6
    <3>2. QED
      BY ONLY <3>1 DEF Delegated
  <2>2. ASSUME NEW c \in Supervisors(o) PROVE outcome'[c] # Pending
    <3>1. c \in Operation
      BY DEF Supervisors
    <3>2. QED
      BY <1>2, <1>4, <2>1, <3>1
  <2>3. QED
    BY <2>1, <2>2
<1>7. QED
  BY <1>5, <1>6

(* The steps that are not steps of the owner of j.                         *)
Others(j) ==
    \/ ScopeNext
    \/ \E o \in Operation \ {j} : OperationNext(o)
    \/ \E t \in Thread : ThreadNext(t)
    \/ UNCHANGED vars

(* What they leave of j: its place, and its registration if it is owned.   *)
Left(j) ==
    /\ op_scope'[j] = op_scope[j] /\ op_parent'[j] = op_parent[j]
    /\ Owned(j) => Owned(j)'

LEMMA LeftFrame ==
    ASSUME NEW j \in Operation, op_scope'[j] = op_scope[j], op_parent'[j] = op_parent[j],
           Owned(j) => outcome'[j] = outcome[j] /\ owner_lost'[j] = owner_lost[j],
           \A t \in Thread : call'[t].kind = "drop" /\ call'[t].operation = j =>
               call[t].kind = "drop" /\ call[t].operation = j
    PROVE  Left(j)
BY DEF Left, Owned, Active, Registered

LEMMA RequestStopLeaves ==
    ASSUME SafetyInv, NEW j \in Operation, NEW t \in Thread, NEW kind, NEW s, NEW o, NEW reason,
           RequestStop(t, kind, s, o, reason), kind = "drop" => o # j
    PROVE  Left(j)
<1>1. UNCHANGED <<op_scope, op_parent, outcome, owner_lost>>
  BY DEF RequestStop, opVars
<1>2. PICK T : \/ call' = [call EXCEPT ![t] = Idle]
               \/ call' = [call EXCEPT ![t] = [kind |-> kind, scope |-> s, operation |-> o,
                                               tokens |-> T]]
  BY DEF RequestStop
<1>3. call \in [Thread -> Call]
  BY DEF SafetyInv, TypeOK
<1>4. ASSUME NEW u \in Thread, call'[u].kind = "drop", call'[u].operation = j
      PROVE  call[u].kind = "drop" /\ call[u].operation = j
  <2>1. CASE u = t
    <3>1. \/ call'[u] = Idle
          \/ call'[u] = [kind |-> kind, scope |-> s, operation |-> o, tokens |-> T]
      BY <1>2, <1>3, <2>1
    <3>2. Idle.kind # "drop"
      BY SMT DEF Idle
    <3>3. kind = "drop" /\ o = j
      BY <1>4, <3>1, <3>2, SMT
    <3>4. QED
      BY <3>3
  <2>2. CASE u # t
    BY <1>2, <1>3, <1>4, <2>2
  <2>3. QED
    BY <2>1, <2>2
<1>5. QED
  BY <1>1, <1>4, LeftFrame

LEMMA OthersLeave ==
    ASSUME SafetyInv, NEW j \in Operation, Others(j) PROVE Left(j)
<1>0. /\ op_scope \in [Operation -> Scope \cup {NoScope}] /\ call \in [Thread -> Call]
      /\ op_parent \in [Operation -> Operation \cup {NoOperation}]
      /\ outcome \in [Operation -> ExternalOutcome] /\ owner_lost \in [Operation -> BOOLEAN]
  BY DEF SafetyInv, TypeOK
<1>1. ASSUME UNCHANGED <<op_scope, op_parent, outcome, owner_lost, call>> PROVE Left(j)
  BY <1>1, LeftFrame
<1>2. ASSUME NEW s \in Scope, ClaimBody(s) \/ (\E c \in Scope : Child(s, c)) PROVE Left(j)
  BY <1>1, <1>2 DEF ClaimBody, Child, opVars
<1>3. ASSUME NEW o \in Operation,
             BeginDispatch(o) \/ RecordCleanupError(o) \/ (\E u \in Units : RecordProgress(o, u))
      PROVE  Left(j)
  BY <1>1, <1>3 DEF BeginDispatch, RecordCleanupError, RecordProgress
<1>4. ASSUME NEW o \in Operation \ {j}, NEW s, NEW p, Register(s, p, o) PROVE Left(j)
  <2>1. op_scope'[j] = op_scope[j] /\ op_parent'[j] = op_parent[j]
    BY <1>0, <1>4 DEF Register
  <2>2. UNCHANGED <<outcome, owner_lost, call>>
    BY <1>4 DEF Register
  <2>3. QED
    BY <2>1, <2>2, LeftFrame
<1>5. ASSUME NEW s, BodyDone(s), UNCHANGED <<op_scope, op_parent, owner_lost>>,
             \A t \in Thread : call'[t] = call[t] \/ call'[t] = Idle
      PROVE  Left(j)
  <2>1. outcome'[j] = outcome[j] \/ owner_lost[j]
    <3>1. CASE outcome' = outcome
      BY <3>1
    <3>2. CASE ~body_done[s]
      <4>1. PICK st, done : Settle(s, st, done, outcome, owner_lost)
        BY <1>5, <3>2 DEF BodyDone
      <4>2. QED
        BY <4>1, SettleWaits
    <3>3. QED
      BY <1>5, <3>1, <3>2 DEF BodyDone
  <2>2. Idle.kind # "drop"
    BY SMT DEF Idle
  <2>3. Owned(j) => outcome'[j] = outcome[j] /\ owner_lost'[j] = owner_lost[j]
    BY <1>5, <2>1 DEF Owned, Active
  <2>4. QED
    BY <1>5, <2>2, <2>3, LeftFrame
<1>6. ASSUME NEW s \in Scope, FinishBody(s) PROVE Left(j)
  BY <1>5, <1>6 DEF FinishBody
<1>7. ASSUME NEW t \in Thread, FailBodyDone(t) PROVE Left(j)
  <2>1. \A u \in Thread : call'[u] = call[u] \/ call'[u] = Idle
    BY <1>0, <1>7 DEF FailBodyDone
  <2>2. QED
    BY <1>5, <1>7, <2>1 DEF FailBodyDone
<1>8. ASSUME NEW o \in Operation \ {j}, NEW k, NEW e, CompleteOperation(o, k, e) PROVE Left(j)
  <2>1. PICK v : Settle(op_scope[o], state, body_done, [outcome EXCEPT ![o] = v], owner_lost)
    BY <1>8 DEF CompleteOperation
  <2>2. PICK f : f = [outcome EXCEPT ![o] = v]
    OBVIOUS
  <2>3. f[j] = outcome[j]
    BY <1>0, <2>2
  <2>4. outcome'[j] = outcome[j] \/ owner_lost[j]
    BY <2>1, <2>2, <2>3, SettleWaits
  <2>5. UNCHANGED <<op_scope, op_parent, owner_lost, call>>
    BY <1>8 DEF CompleteOperation
  <2>6. Owned(j) => outcome'[j] = outcome[j] /\ owner_lost'[j] = owner_lost[j]
    BY <2>4, <2>5 DEF Owned, Active
  <2>7. QED
    BY <2>5, <2>6, LeftFrame
<1>9. ASSUME NEW t \in Thread, AbandonOperation(t) PROVE Left(j)
  <2>1. PICK o, f, g : /\ o = call[t].operation /\ f = [owner_lost EXCEPT ![o] = TRUE]
                       /\ g = IF dispatched[o] THEN outcome
                              ELSE [outcome EXCEPT ![o] = Plain("NotDispatched")]
    OBVIOUS
  <2>2. /\ call[t].kind = "drop" /\ owner_lost' = f /\ call' = [call EXCEPT ![t] = Idle]
        /\ Settle(op_scope[o], state, body_done, g, f) /\ UNCHANGED <<op_scope, op_parent>>
    BY <1>9, <2>1 DEF AbandonOperation
  <2>3. ASSUME Owned(j) PROVE outcome'[j] = outcome[j] /\ owner_lost'[j] = owner_lost[j]
    <3>1. o # j /\ ~owner_lost[j]
      BY <2>1, <2>2, <2>3 DEF Owned, Active
    <3>2. f[j] = owner_lost[j] /\ g[j] = outcome[j]
      BY <1>0, <2>1, <3>1
    <3>3. QED
      BY <2>2, <3>1, <3>2, SettleWaits
  <2>4. Idle.kind # "drop"
    BY SMT DEF Idle
  <2>5. \A u \in Thread : call'[u] = call[u] \/ call'[u] = Idle
    BY <1>0, <2>2
  <2>6. QED
    BY <2>2, <2>3, <2>4, <2>5, LeftFrame
<1>10. ASSUME NEW t \in Thread, NEW x \in Scope, CancelToken(t, x) PROVE Left(j)
  <2>1. UNCHANGED <<op_scope, op_parent, outcome, owner_lost>>
    BY <1>10 DEF CancelToken, opVars
  <2>2. ASSUME NEW u \in Thread
        PROVE  call'[u] = call[u] \/ call'[u] = Idle \/ \E T : call'[u] = [call[u] EXCEPT !.tokens = T]
    BY <1>0, <1>10 DEF CancelToken
  <2>3. ASSUME NEW u \in Thread, call'[u].kind = "drop", call'[u].operation = j
        PROVE  call[u].kind = "drop" /\ call[u].operation = j
    <3>1. PICK c, d : c = call[u] /\ d = call'[u] /\ c \in Call
      BY <1>0
    <3>2. d = c \/ d = Idle \/ \E T : d = [c EXCEPT !.tokens = T]
      BY <2>2, <3>1
    <3>3. Idle.kind # "drop"
      BY SMT DEF Idle
    <3>5. ASSUME NEW T, d = [c EXCEPT !.tokens = T]
          PROVE  d.kind = c.kind /\ d.operation = c.operation
      BY ONLY <3>1, <3>5, SMT DEF Call
    <3>4. QED
      BY <2>3, <3>1, <3>2, <3>3, <3>5
  <2>4. QED
    BY <2>1, <2>3, LeftFrame
<1>11. ASSUME ScopeNext PROVE Left(j)
  <2>1. ASSUME NEW t \in Thread, NEW s \in Scope, NEW r,
               FailBody(t, s) \/ Stop(t, s, r)
        PROVE  Left(j)
    BY <2>1, RequestStopLeaves DEF FailBody, Stop
  <2>2. QED
    BY <1>2, <1>6, <1>11, <2>1 DEF ScopeNext
<1>12. ASSUME NEW o \in Operation \ {j}, OperationNext(o) PROVE Left(j)
  <2>1. ASSUME NEW t \in Thread, DropRegistration(t, o) PROVE Left(j)
    BY <2>1, RequestStopLeaves DEF DropRegistration
  <2>2. QED
    BY <1>3, <1>4, <1>8, <1>12, <2>1 DEF OperationNext
<1>13. QED
  BY <1>1, <1>7, <1>9, <1>10, <1>11, <1>12 DEF Others, ThreadNext, vars, opVars

(* A lost caller that was dispatched keeps waiting in every step that      *)
(* leaves work it handed over pending.                                     *)
LEMMA CallerKept ==
    ASSUME SafetyInv, [Next]_vars, NEW j \in Operation, NEW p \in Operation,
           op_parent[j] = p, outcome'[j] = Pending, owner_lost'[p], dispatched'[p],
           owner_lost[p] /\ dispatched[p] => outcome[p] = Pending
    PROVE  outcome'[p] = Pending
<1>0. /\ dispatched \in [Operation -> BOOLEAN]
      /\ outcome \in [Operation -> ExternalOutcome] /\ owner_lost \in [Operation -> BOOLEAN]
  BY DEF SafetyInv, TypeOK
<1>1. j \in Supervisors(p)
  BY DEF Supervisors
<1>2. ASSUME NEW id, NEW st, NEW done, NEW out, NEW lost, Settle(id, st, done, out, lost),
             out[p] = Pending
      PROVE  outcome'[p] = Pending
  <2>1. \/ outcome'[p] = out[p]
        \/ \A c \in Supervisors(p) : outcome'[c] # Pending
    BY ONLY <1>2, p \in Operation, SettleWaits
  <2>2. QED
    BY <1>1, <1>2, <2>1
<1>3. ASSUME UNCHANGED <<outcome, owner_lost, dispatched>> PROVE outcome'[p] = Pending
  BY <1>3
<1>4. ASSUME NEW s, BodyDone(s), UNCHANGED <<owner_lost, dispatched>>
      PROVE  outcome'[p] = Pending
  <2>1. CASE body_done[s]
    BY <1>4, <2>1 DEF BodyDone
  <2>2. CASE ~body_done[s]
    <3>1. PICK st, done : Settle(s, st, done, outcome, owner_lost)
      BY <1>4, <2>2 DEF BodyDone
    <3>2. QED
      BY <1>2, <1>4, <3>1
  <2>3. QED
    BY <2>1, <2>2
<1>5. ASSUME NEW o \in Operation, NEW k, NEW e, CompleteOperation(o, k, e)
      PROVE  outcome'[p] = Pending
  <2>1. PICK v : Settle(op_scope[o], state, body_done, [outcome EXCEPT ![o] = v], owner_lost)
    BY <1>5 DEF CompleteOperation
  <2>2. PICK f : f = [outcome EXCEPT ![o] = v]
    OBVIOUS
  <2>3. /\ ~owner_lost[o] /\ UNCHANGED <<owner_lost, dispatched>>
    BY <1>5 DEF CompleteOperation, Owned, Active
  <2>4. f[p] = Pending
    BY <1>0, <2>2, <2>3
  <2>5. QED
    BY <1>2, <2>1, <2>2, <2>4
<1>6. ASSUME NEW o \in Operation, BeginDispatch(o) PROVE outcome'[p] = Pending
  <2>1. /\ ~owner_lost[o] /\ UNCHANGED <<outcome, owner_lost>>
        /\ dispatched' = [dispatched EXCEPT ![o] = TRUE]
    BY <1>6 DEF BeginDispatch, Owned, Active
  <2>2. dispatched[p]
    BY <1>0, <2>1
  <2>3. QED
    BY <2>1, <2>2
<1>7. ASSUME NEW t \in Thread, AbandonOperation(t) PROVE outcome'[p] = Pending
  <2>1. PICK o, f, g : /\ o = call[t].operation /\ f = [owner_lost EXCEPT ![o] = TRUE]
                       /\ g = IF dispatched[o] THEN outcome
                              ELSE [outcome EXCEPT ![o] = Plain("NotDispatched")]
    OBVIOUS
  <2>2. /\ call[t].kind = "drop" /\ owner_lost' = f /\ UNCHANGED dispatched
        /\ Settle(op_scope[o], state, body_done, g, f)
    BY <1>7, <2>1 DEF AbandonOperation
  <2>3. o \in Operation /\ outcome[o] = Pending
    BY <2>1, <2>2 DEF SafetyInv, CallInv, Active
  <2>4. outcome[p] = Pending
    <3>1. CASE p = o
      BY <2>3, <3>1
    <3>2. CASE p # o
      BY <1>0, <2>1, <2>2, <3>2
    <3>3. QED
      BY <3>1, <3>2
  <2>5. g[p] = Pending
    BY <1>0, <2>1, <2>2, <2>4
  <2>6. QED
    BY <1>2, <2>2, <2>5
<1>8. ASSUME NEW t, NEW kind, NEW s, NEW o, NEW reason, RequestStop(t, kind, s, o, reason)
      PROVE  outcome'[p] = Pending
  BY <1>3, <1>8 DEF RequestStop, opVars
<1>9. ASSUME ScopeNext PROVE outcome'[p] = Pending
  BY <1>3, <1>4, <1>8, <1>9
  DEF ScopeNext, ClaimBody, Child, FinishBody, FailBody, Stop, opVars
<1>10. ASSUME NEW o \in Operation, OperationNext(o) PROVE outcome'[p] = Pending
  BY <1>3, <1>5, <1>6, <1>8, <1>10
  DEF OperationNext, Register, RecordCleanupError, RecordProgress, DropRegistration
<1>11. ASSUME NEW t \in Thread, ThreadNext(t) PROVE outcome'[p] = Pending
  BY <1>3, <1>4, <1>7, <1>11 DEF ThreadNext, CancelToken, FailBodyDone, opVars
<1>12. QED
  BY <1>3, <1>9, <1>10, <1>11 DEF Next, vars, opVars

-----------------------------------------------------------------------------
(* Jobs: the inductive invariant *)

Holders == {j \in Job : HoldsPermit(j)}

(* The phases in which the task of a job owns its registration.            *)
Owning == {"queued", "started", "refused", "dispatched", "running"}

(* What a caller relies on in each phase of a job; the last conjunct is    *)
(* LostCallerWaits for as long as the registration is owned.               *)
JobInv(j) ==
    /\ phase[j] \in {"idle", "checked", "permitted"} => ~Registered(j)
    /\ phase[j] = "checked" => j \in Blocking
    /\ phase[j] \notin {"idle", "done"} => caller[j] \in Operation
    /\ phase[j] \in Owning => op_parent[j] = caller[j] /\ Owned(j)
    /\ phase[j] \notin {"closing", "done"} => answer[j] = "none"
    /\ j \in ran => phase[j] \in {"running", "dropping", "closing", "done"}
    /\ answer[j] = "NotDispatched" =>
          j \notin ran /\ (Registered(j) => outcome[j].kind = "NotDispatched")
    /\ phase[j] \in Owning /\ owner_lost[caller[j]] /\ dispatched[caller[j]] =>
          outcome[caller[j]] = Pending

(* Every permit is in BLOCKING_CAPACITY or held by one blocking job.       *)
WorkInv ==
    /\ WorkTypeOK /\ SafetyInv
    /\ permits + Cardinality(Holders) = Capacity
    /\ \A j \in Job : JobInv(j)

(* The steps of others keep what is known of a job.                        *)
LEMMA BystanderKept ==
    ASSUME SafetyInv, NEW k \in Job, Others(k), JobInv(k), phase'[k] = phase[k],
           caller'[k] = caller[k], answer'[k] = answer[k], k \in ran' <=> k \in ran
    PROVE  JobInv(k)'
<1>1. k \in Operation
  BY JobAssumption
<1>2. /\ op_scope'[k] = op_scope[k] /\ op_parent'[k] = op_parent[k] /\ (Owned(k) => Owned(k)')
  BY <1>1, OthersLeave DEF Left
<1>3. [Next]_vars
  BY DEF Others, Next
<1>4. outcome[k] # Pending => outcome'[k] = outcome[k]
  BY <1>1, <1>3, PublishedStepHolds DEF PublishedStep
<1>5. /\ phase[k] \in {"idle", "checked", "permitted"} => ~Registered(k)'
      /\ phase[k] \in Owning => op_parent'[k] = caller[k] /\ Owned(k)'
  BY <1>2 DEF JobInv, Registered
<1>6. answer[k] = "NotDispatched" =>
          k \notin ran /\ (Registered(k)' => outcome'[k].kind = "NotDispatched")
  <2>1. Pending.kind # "NotDispatched"
    BY SMT DEF Pending, Plain
  <2>2. QED
    BY <1>2, <1>4, <2>1 DEF JobInv, Registered
<1>7. ASSUME phase[k] \in Owning, owner_lost'[caller[k]], dispatched'[caller[k]]
      PROVE  outcome'[caller[k]] = Pending
  <2>1. caller[k] \in Operation /\ op_parent[k] = caller[k] /\ outcome'[k] = Pending
    <3>1. caller[k] \in Operation
      BY <1>7 DEF JobInv, Owning
    <3>2. op_parent[k] = caller[k] /\ Owned(k)'
      BY <1>5, <1>7 DEF JobInv
    <3>3. QED
      BY <3>1, <3>2 DEF Owned, Active
  <2>2. owner_lost[caller[k]] /\ dispatched[caller[k]] => outcome[caller[k]] = Pending
    BY <1>7 DEF JobInv
  <2>3. PICK p : p = caller[k]
    OBVIOUS
  <2>4. /\ p \in Operation /\ op_parent[k] = p /\ outcome'[k] = Pending /\ owner_lost'[p]
        /\ dispatched'[p] /\ (owner_lost[p] /\ dispatched[p] => outcome[p] = Pending)
    BY <1>7, <2>1, <2>2, <2>3
  <2>5. outcome'[p] = Pending
    BY ONLY SafetyInv, <1>1, <1>3, <2>4, CallerKept
  <2>6. QED
    BY <2>3, <2>5
<1>8. PICK q : q = caller[k]
  OBVIOUS
<1>9. /\ phase[k] = "checked" => k \in Blocking
      /\ phase[k] \notin {"idle", "done"} => q \in Operation
      /\ phase[k] \notin {"closing", "done"} => answer[k] = "none"
      /\ k \in ran => phase[k] \in {"running", "dropping", "closing", "done"}
  BY <1>8 DEF JobInv
<1>10. QED
  BY <1>5, <1>6, <1>7, <1>9, <1>8 DEF JobInv

-----------------------------------------------------------------------------
(* Jobs: every step preserves it *)

(* What a job does in the registry is a step of the owner of its operation.*)
LEMMA JobIsOwner ==
    ASSUME WorkInv, NEW j \in Job, JobNext(j) PROVE OperationNext(j) \/ UNCHANGED vars
<1>1. ASSUME Spawn(j) PROVE OperationNext(j)
  <2>1. PICK p, s : p = caller[j] /\ s = op_scope[p]
    OBVIOUS
  <2>2. Register(s, p, j)
    BY <1>1, <2>1 DEF Spawn
  <2>3. p \in Operation \cup {NoOperation} /\ s \in Scope
    BY <2>1, <2>2 DEF WorkInv, WorkTypeOK, Register, SafetyInv, TypeOK
  <2>4. QED
    BY <2>2, <2>3 DEF OperationNext
<1>2. ASSUME Finish(j) PROVE OperationNext(j)
  BY <1>2 DEF Finish, OperationNext
<1>3. ASSUME NEW t \in Thread, Unwind(j, t) PROVE OperationNext(j)
  BY <1>3 DEF Unwind, OperationNext
<1>4. ASSUME Dispatch(j) PROVE OperationNext(j) \/ UNCHANGED vars
  BY <1>4 DEF Dispatch, OperationNext
<1>5. QED
  BY <1>1, <1>2, <1>3, <1>4 DEF JobNext, Submit, Acquire, Refuse, Start, Run, Unwound, Close

(* A step of one job writes nothing of another.                            *)
LEMMA JobsApart ==
    ASSUME WorkTypeOK, NEW j \in Job, JobNext(j), NEW k \in Job, k # j
    PROVE  /\ phase'[k] = phase[k] /\ caller'[k] = caller[k] /\ answer'[k] = answer[k]
           /\ k \in ran' <=> k \in ran
<1>1. /\ phase \in [Job -> Phase] /\ caller \in [Job -> Operation \cup {NoOperation}]
      /\ answer \in [Job -> Answer]
  BY DEF WorkTypeOK
<1>2. ASSUME NEW from, NEW to, Move(j, from, to) PROVE phase'[k] = phase[k]
  BY <1>1, <1>2 DEF Move
<1>3. phase'[k] = phase[k]
  BY <1>2 DEF JobNext, Submit, Acquire, Spawn, Refuse, Start, Dispatch, Run, Finish, Unwind,
              Unwound, Close
<1>4. \/ caller' = caller
      \/ \E p : caller' = [caller EXCEPT ![j] = p]
  BY DEF JobNext, Submit, Acquire, Spawn, Refuse, Start, Dispatch, Run, Finish, Unwind,
         Unwound, Close
<1>5. \/ answer' = answer
      \/ \E a : answer' = [answer EXCEPT ![j] = a]
  BY DEF JobNext, Submit, Acquire, Spawn, Refuse, Start, Dispatch, Run, Finish, Unwind,
         Unwound, Close
<1>6. ran' = ran \/ ran' = ran \cup {j}
  BY DEF JobNext, Submit, Acquire, Spawn, Refuse, Start, Dispatch, Run, Finish, Unwind,
         Unwound, Close
<1>7. caller'[k] = caller[k]
  BY <1>1, <1>4
<1>8. answer'[k] = answer[k]
  BY <1>1, <1>5
<1>9. k \in ran' <=> k \in ran
  BY <1>6
<1>10. QED
  BY <1>3, <1>7, <1>8, <1>9

(* Steps of a job before its registration exists, and after it is gone.    *)
LEMMA OutsideKept ==
    ASSUME WorkInv, NEW j \in Job,
           \/ \E p \in Operation : Submit(j, p)
           \/ Acquire(j) \/ Refuse(j) \/ Unwound(j) \/ Close(j)
    PROVE  JobInv(j)'
<1>0. /\ phase \in [Job -> Phase] /\ caller \in [Job -> Operation \cup {NoOperation}]
      /\ answer \in [Job -> Answer] /\ JobInv(j)
  BY DEF WorkInv, WorkTypeOK
<1>1. UNCHANGED vars
  BY DEF Submit, Acquire, Refuse, Unwound, Close
<1>2. Registered(j)' = Registered(j) /\ outcome'[j] = outcome[j]
  BY <1>1, SMT DEF vars, opVars, Registered
<1>4. ASSUME NEW p \in Operation, Submit(j, p) PROVE JobInv(j)'
  <2>1. /\ phase[j] = "idle" /\ ran' = ran /\ answer' = answer
        /\ caller' = [caller EXCEPT ![j] = p]
        /\ \/ j \in Blocking /\ phase' = [phase EXCEPT ![j] = "checked"]
           \/ phase' = [phase EXCEPT ![j] = "permitted"]
    BY <1>4 DEF Submit, Move
  <2>2. /\ caller'[j] = p /\ j \notin ran /\ ~Registered(j) /\ answer'[j] = "none"
        /\ (phase'[j] = "checked" /\ j \in Blocking) \/ phase'[j] = "permitted"
    BY <1>0, <2>1 DEF JobInv
  <2>3. QED
    BY <1>2, <2>1, <2>2 DEF JobInv, Owning
<1>5. ASSUME Acquire(j) PROVE JobInv(j)'
  <2>1. /\ phase[j] = "checked" /\ ran' = ran /\ answer' = answer /\ caller' = caller
        /\ phase' = [phase EXCEPT ![j] = "permitted"]
    BY <1>5 DEF Acquire, Move
  <2>2. /\ caller'[j] \in Operation /\ j \notin ran /\ ~Registered(j) /\ answer'[j] = "none"
        /\ phase'[j] = "permitted"
    BY <1>0, <2>1 DEF JobInv
  <2>3. QED
    BY <1>2, <2>1, <2>2 DEF JobInv, Owning
<1>6. ASSUME Refuse(j) PROVE JobInv(j)'
  <2>1. /\ phase[j] \in {"idle", "checked", "permitted"} /\ ran' = ran
        /\ phase' = [phase EXCEPT ![j] = "done"]
    BY <1>6 DEF Refuse, Move
  <2>2. j \notin ran /\ ~Registered(j) /\ phase'[j] = "done"
    BY <1>0, <2>1 DEF JobInv
  <2>3. QED
    BY <1>2, <2>1, <2>2 DEF JobInv, Owning
<1>7. ASSUME Unwound(j) PROVE JobInv(j)'
  <2>1. /\ phase[j] = "dropping" /\ ran' = ran /\ caller' = caller
        /\ phase' = [phase EXCEPT ![j] = "closing"]
        /\ answer' = [answer EXCEPT ![j] = IF j \in Blocking THEN "OutcomeUnavailable" ELSE "Error"]
    BY <1>7 DEF Unwound, Move
  <2>2. caller'[j] \in Operation /\ answer'[j] # "NotDispatched" /\ phase'[j] = "closing"
    BY <1>0, <2>1 DEF JobInv
  <2>3. QED
    BY <1>2, <2>1, <2>2 DEF JobInv, Owning
<1>8. ASSUME Close(j) PROVE JobInv(j)'
  <2>1. /\ phase[j] = "closing" /\ ran' = ran /\ answer' = answer
        /\ phase' = [phase EXCEPT ![j] = "done"]
    BY <1>8 DEF Close, Move
  <2>2. phase'[j] = "done"
    BY <1>0, <2>1
  <2>3. answer'[j] = "NotDispatched" =>
            j \notin ran' /\ (Registered(j)' => outcome'[j].kind = "NotDispatched")
    BY <1>0, <1>2, <2>1 DEF JobInv
  <2>4. QED
    BY <2>2, <2>3 DEF JobInv, Owning
<1>9. QED
  BY <1>4, <1>5, <1>6, <1>7, <1>8

(* Steps of a job around its registration.                                 *)
LEMMA InsideKept ==
    ASSUME WorkInv, NEW j \in Job,
           \/ Spawn(j) \/ Start(j) \/ Dispatch(j) \/ Run(j) \/ Finish(j)
           \/ \E t \in Thread : Unwind(j, t)
    PROVE  JobInv(j)'
<1>0. /\ phase \in [Job -> Phase] /\ caller \in [Job -> Operation \cup {NoOperation}]
      /\ answer \in [Job -> Answer] /\ JobInv(j) /\ SafetyInv
  BY DEF WorkInv, WorkTypeOK
<1>1. j \in Operation
  BY JobAssumption
<1>2. /\ op_scope \in [Operation -> Scope \cup {NoScope}]
      /\ op_parent \in [Operation -> Operation \cup {NoOperation}]
      /\ outcome \in [Operation -> ExternalOutcome] /\ owner_lost \in [Operation -> BOOLEAN]
      /\ dispatched \in [Operation -> BOOLEAN]
  BY <1>0 DEF SafetyInv, TypeOK
<1>3. ASSUME Spawn(j) PROVE JobInv(j)'
  <2>1. PICK p, s : p = caller[j] /\ s = op_scope[p]
    OBVIOUS
  <2>2. /\ phase[j] = "permitted" /\ phase' = [phase EXCEPT ![j] = "queued"]
        /\ Register(s, p, j) /\ caller' = caller /\ answer' = answer /\ ran' = ran
    BY <1>3, <2>1 DEF Spawn, Move
  <2>3. /\ phase'[j] = "queued" /\ p \in Operation /\ caller'[j] = p /\ answer'[j] = "none"
        /\ j \notin ran' /\ ~Registered(j)
    BY <1>0, <2>1, <2>2 DEF JobInv
  <2>4. p # NoOperation
    BY <2>3, OperationAssumption
  <2>5. ~owner_lost'[p]
    BY <2>2, <2>4 DEF Register, Active
  <2>6. /\ op_scope' = [op_scope EXCEPT ![j] = s] /\ op_parent' = [op_parent EXCEPT ![j] = p]
        /\ s \in created /\ UNCHANGED <<outcome, owner_lost, call>>
    BY <2>2 DEF Register
  <2>7. s # NoScope
    BY <1>0, <2>6, ScopeAssumption DEF SafetyInv, TypeOK
  <2>8. op_parent'[j] = p /\ Registered(j)'
    BY <1>1, <1>2, <2>6, <2>7 DEF Registered
  <2>9. outcome[j] = Pending /\ ~owner_lost[j]
    BY <1>0, <1>1, <2>3 DEF SafetyInv, OperationInv
  <2>10. \A t \in Thread : ~(call[t].kind = "drop" /\ call[t].operation = j)
    BY <1>0, <2>3 DEF SafetyInv, CallInv, Active
  <2>11. Owned(j)'
    BY <2>6, <2>8, <2>9, <2>10 DEF Owned, Active
  <2>12. QED
    BY <2>3, <2>5, <2>8, <2>11 DEF JobInv, Owning
<1>4. ASSUME Start(j) \/ Run(j) \/ (Dispatch(j) /\ UNCHANGED vars) PROVE JobInv(j)'
  <2>1. UNCHANGED vars
    BY <1>4 DEF Start, Run
  <2>2. UNCHANGED <<op_scope, op_parent, outcome, owner_lost, dispatched, call>>
    BY <2>1, SMT DEF vars, opVars
  <2>3. Owned(j)' = Owned(j)
    BY <2>2, SMT DEF Owned, Active, Registered
  <2>4. /\ phase[j] \in {"queued", "started", "dispatched"} /\ caller' = caller /\ answer' = answer
        /\ \/ phase' = [phase EXCEPT ![j] = "running"] /\ ran' = ran \cup {j}
           \/ \E to \in {"started", "refused", "dispatched"} :
                 phase' = [phase EXCEPT ![j] = to] /\ ran' = ran
    BY <1>4 DEF Start, Run, Dispatch, Move
  <2>5. /\ phase'[j] \in {"started", "refused", "dispatched", "running"}
        /\ j \in ran' => phase'[j] = "running"
    BY <1>0, <2>4 DEF JobInv
  <2>6. phase[j] \in Owning /\ phase[j] \notin {"idle", "closing", "done"}
    BY <2>4 DEF Owning
  <2>7. PICK p : p = caller[j] /\ p = caller'[j]
    BY <2>4
  <2>8. /\ p \in Operation /\ op_parent[j] = p /\ Owned(j) /\ answer[j] = "none"
        /\ owner_lost[p] /\ dispatched[p] => outcome[p] = Pending
    BY <1>0, <2>6, <2>7 DEF JobInv
  <2>9. QED
    BY <2>2, <2>3, <2>4, <2>5, <2>7, <2>8 DEF JobInv
<1>5. ASSUME Dispatch(j), BeginDispatch(j), phase[j] = "started",
             phase' = [phase EXCEPT ![j] = "dispatched"]
      PROVE  JobInv(j)'
  <2>1. /\ caller' = caller /\ answer' = answer /\ ran' = ran
        /\ dispatched' = [dispatched EXCEPT ![j] = TRUE]
        /\ UNCHANGED <<op_scope, op_parent, outcome, owner_lost, call>>
    BY <1>5 DEF Dispatch, BeginDispatch
  <2>2. phase'[j] = "dispatched"
    BY <1>0, <1>5
  <2>3. PICK p : p = caller[j] /\ p = caller'[j]
    BY <2>1
  <2>4. /\ p \in Operation /\ op_parent[j] = p /\ Owned(j) /\ answer[j] = "none" /\ j \notin ran
        /\ owner_lost[p] /\ dispatched[p] => outcome[p] = Pending
    BY <1>0, <1>5, <2>3 DEF JobInv, Owning
  <2>5. Owned(j)'
    BY <2>1, <2>4 DEF Owned, Active, Registered
  <2>6. owner_lost'[p] /\ dispatched'[p] => outcome'[p] = Pending
    BY <1>2, <2>1, <2>4 DEF Owned, Active
  <2>7. QED
    BY <2>1, <2>2, <2>3, <2>4, <2>5, <2>6 DEF JobInv
<1>6. ASSUME Finish(j) PROVE JobInv(j)'
  <2>1. /\ phase[j] \in {"refused", "running"} /\ phase' = [phase EXCEPT ![j] = "closing"]
        /\ caller' = caller /\ ran' = ran
    BY <1>6 DEF Finish, Move
  <2>2. phase'[j] = "closing" /\ caller'[j] \in Operation
    BY <1>0, <2>1 DEF JobInv
  <2>3. \/ phase[j] = "refused" /\ CompleteOperation(j, "NotDispatched", FALSE)
        \/ answer' = [answer EXCEPT ![j] = "Response"]
        \/ answer' = [answer EXCEPT ![j] = IF j \in Blocking THEN "OutcomeUnavailable" ELSE "Error"]
    BY <1>6 DEF Finish, Move
  <2>4. ASSUME phase[j] = "refused", CompleteOperation(j, "NotDispatched", FALSE)
        PROVE  j \notin ran' /\ outcome'[j].kind = "NotDispatched"
    <3>1. PICK v, f : /\ v = Plain("NotDispatched") /\ f = [outcome EXCEPT ![j] = v]
                      /\ Settle(op_scope[j], state, body_done, f, owner_lost)
      BY <2>4 DEF CompleteOperation
    <3>2. f[j] = v
      BY <1>1, <1>2, <3>1
    <3>3. v # Pending /\ v.kind = "NotDispatched"
      BY <3>1, SMT DEF Plain, Pending
    <3>4. outcome'[j] = f[j] \/ f[j] = Pending
      BY ONLY <1>1, <3>1, SettleWaits, Zenon
    <3>5. j \notin ran
      BY <1>0, <2>4 DEF JobInv
    <3>6. QED
      BY <2>1, <3>2, <3>3, <3>4, <3>5
  <2>5. answer'[j] = "NotDispatched" => j \notin ran' /\ outcome'[j].kind = "NotDispatched"
    BY <1>0, <2>3, <2>4
  <2>6. QED
    BY <2>2, <2>5 DEF JobInv, Owning
<1>7. ASSUME NEW t \in Thread, Unwind(j, t) PROVE JobInv(j)'
  <2>1. /\ phase[j] \in {"queued", "running"} /\ phase' = [phase EXCEPT ![j] = "dropping"]
        /\ caller' = caller /\ answer' = answer
    BY <1>7 DEF Unwind, Move
  <2>2. phase'[j] = "dropping" /\ caller'[j] \in Operation /\ answer'[j] = "none"
    BY <1>0, <2>1 DEF JobInv
  <2>3. QED
    BY <2>2 DEF JobInv, Owning
<1>8. QED
  BY <1>3, <1>4, <1>5, <1>6, <1>7 DEF Dispatch, Move

-----------------------------------------------------------------------------
(* Jobs: the permits *)

LEMMA HoldersAfter ==
    ASSUME WorkTypeOK, NEW j \in Job, NEW from, NEW to, Move(j, from, to)
    PROVE  Holders' = IF j \in Blocking /\ to \notin {"idle", "checked", "done"}
                      THEN Holders \cup {j} ELSE Holders \ {j}
<1>1. phase \in [Job -> Phase] /\ phase' = [phase EXCEPT ![j] = to]
  BY DEF WorkTypeOK, Move
<1>2. phase'[j] = to /\ \A k \in Job : k # j => phase'[k] = phase[k]
  BY <1>1
<1>3. QED
  BY <1>2, SMT DEF Holders, HoldsPermit

LEMMA HoldersFinite == IsFiniteSet(Holders)
BY JobAssumption, FS_Subset, SMT DEF Holders

(* A job takes a permit, gives it back or keeps it: none is lost and none  *)
(* made up, on whichever path it leaves.                                   *)
LEMMA PermitsKept ==
    ASSUME WorkInv, NEW j \in Job, JobNext(j)
    PROVE  permits' \in 0 .. Capacity /\ permits' + Cardinality(Holders') = Capacity
<1>0. /\ WorkTypeOK /\ phase \in [Job -> Phase] /\ permits \in 0 .. Capacity /\ Capacity \in Nat
      /\ permits + Cardinality(Holders) = Capacity /\ JobInv(j)
  BY JobAssumption DEF WorkInv, WorkTypeOK
<1>1. IsFiniteSet(Holders) /\ Cardinality(Holders) \in Nat
  BY HoldersFinite, FS_CardinalityType
<1>2. j \in Holders <=> HoldsPermit(j)
  BY DEF Holders
<1>3. ASSUME permits' = permits, Holders' = Holders
      PROVE  permits' \in 0 .. Capacity /\ permits' + Cardinality(Holders') = Capacity
  BY <1>0, <1>3
<1>4. ASSUME NEW from, NEW to, Move(j, from, to), permits' = permits,
             from \in {"idle", "checked", "done"} <=> to \in {"idle", "checked", "done"}
      PROVE  Holders' = Holders
  <2>1. phase[j] = from
    BY <1>4 DEF Move
  <2>2. j \in Holders <=> j \in Blocking /\ to \notin {"idle", "checked", "done"}
    BY <1>2, <1>4, <2>1 DEF HoldsPermit
  <2>3. Holders' = IF j \in Blocking /\ to \notin {"idle", "checked", "done"}
                   THEN Holders \cup {j} ELSE Holders \ {j}
    BY ONLY <1>0, <1>4, j \in Job, HoldersAfter
  <2>4. QED
    BY ONLY <2>2, <2>3, SMT
<1>5. ASSUME NEW p \in Operation, Submit(j, p) PROVE permits' = permits /\ Holders' = Holders
  <2>1. permits' = permits
    BY <1>5 DEF Submit
  <2>2. CASE Move(j, "idle", "checked")
    BY <1>4, <2>1, <2>2
  <2>3. CASE j \notin Blocking /\ Move(j, "idle", "permitted")
    <3>1. Holders' = Holders \ {j}
      BY <1>0, <2>3, HoldersAfter
    <3>2. j \notin Holders
      BY <1>2, <2>3 DEF HoldsPermit
    <3>3. QED
      BY <2>1, <3>1, <3>2, SMT
  <2>4. QED
    BY <1>5, <2>2, <2>3 DEF Submit
<1>6. ASSUME Acquire(j)
      PROVE  permits' \in 0 .. Capacity /\ permits' + Cardinality(Holders') = Capacity
  <2>1. /\ Move(j, "checked", "permitted") /\ phase[j] = "checked" /\ permits > 0
        /\ permits' = permits - 1
    BY <1>6 DEF Acquire, Move
  <2>2. j \in Blocking /\ j \notin Holders
    BY <1>0, <1>2, <2>1 DEF JobInv, HoldsPermit
  <2>3. Holders' = Holders \cup {j}
    <3>1. Holders' = IF j \in Blocking /\ "permitted" \notin {"idle", "checked", "done"}
                     THEN Holders \cup {j} ELSE Holders \ {j}
      BY ONLY <1>0, <2>1, j \in Job, HoldersAfter
    <3>2. QED
      BY ONLY <2>2, <3>1
  <2>4. Cardinality(Holders') = Cardinality(Holders) + 1
    BY <1>1, <2>2, <2>3, FS_AddElement
  <2>5. QED
    BY <1>0, <1>1, <2>1, <2>4, SMT
<1>7. ASSUME NEW from, Move(j, from, "done"),
             permits' = IF HoldsPermit(j) THEN permits + 1 ELSE permits
      PROVE  permits' \in 0 .. Capacity /\ permits' + Cardinality(Holders') = Capacity
  <2>1. Holders' = Holders \ {j}
    BY <1>0, <1>7, HoldersAfter
  <2>2. CASE j \in Holders
    <3>1. /\ Cardinality(Holders') = Cardinality(Holders) - 1 /\ Cardinality(Holders') \in Nat
      <4>1. IsFiniteSet(Holders \ {j}) /\ Cardinality(Holders \ {j}) = Cardinality(Holders) - 1
        BY <1>1, <2>2, FS_RemoveElement
      <4>2. QED
        BY <2>1, <4>1, FS_CardinalityType
    <3>2. permits' = permits + 1
      BY <1>2, <1>7, <2>2
    <3>3. QED
      BY <1>0, <1>1, <3>1, <3>2, SMT
  <2>3. CASE j \notin Holders
    <3>1. Holders' = Holders
      BY <2>1, <2>3, SMT
    <3>2. permits' = permits
      BY <1>2, <1>7, <2>3
    <3>3. QED
      BY <1>3, <3>1, <3>2
  <2>4. QED
    BY <2>2, <2>3
<1>8. ASSUME Spawn(j) \/ Start(j) \/ Dispatch(j) \/ Run(j) \/ Finish(j) \/ Unwound(j)
             \/ \E t \in Thread : Unwind(j, t)
      PROVE  permits' = permits /\ Holders' = Holders
  <2>1. permits' = permits
    BY <1>8 DEF Spawn, Start, Dispatch, Run, Finish, Unwound, Unwind
  <2>2. PICK from \in Phase \ {"idle", "checked", "done"}, to \in Phase \ {"idle", "checked", "done"} :
            Move(j, from, to)
    BY <1>8 DEF Spawn, Start, Dispatch, Run, Finish, Unwound, Unwind, Phase
  <2>3. QED
    BY <1>4, <2>1, <2>2
<1>9. QED
  BY <1>3, <1>5, <1>6, <1>7, <1>8 DEF JobNext, Refuse, Close

LEMMA WorkTypes ==
    ASSUME WorkInv, NEW j \in Job, JobNext(j) PROVE WorkTypeOK'
<1>0. /\ phase \in [Job -> Phase] /\ caller \in [Job -> Operation \cup {NoOperation}]
      /\ answer \in [Job -> Answer] /\ ran \subseteq Job
  BY DEF WorkInv, WorkTypeOK
<1>1. \E to \in Phase : phase' = [phase EXCEPT ![j] = to]
  BY DEF JobNext, Submit, Acquire, Spawn, Refuse, Start, Dispatch, Run, Finish, Unwind,
         Unwound, Close, Move, Phase
<1>2. \/ caller' = caller
      \/ \E p \in Operation : caller' = [caller EXCEPT ![j] = p]
  BY DEF JobNext, Submit, Acquire, Spawn, Refuse, Start, Dispatch, Run, Finish, Unwind,
         Unwound, Close
<1>3. \/ answer' = answer
      \/ \E a \in Answer : answer' = [answer EXCEPT ![j] = a]
  BY DEF JobNext, Submit, Acquire, Spawn, Refuse, Start, Dispatch, Run, Finish, Unwind,
         Unwound, Close, Answer
<1>4. ran' = ran \/ ran' = ran \cup {j}
  BY DEF JobNext, Submit, Acquire, Spawn, Refuse, Start, Dispatch, Run, Finish, Unwind,
         Unwound, Close
<1>5. phase' \in [Job -> Phase]
  BY <1>0, <1>1
<1>6. caller' \in [Job -> Operation \cup {NoOperation}]
  BY <1>0, <1>2
<1>7. answer' \in [Job -> Answer]
  BY <1>0, <1>3
<1>8. ran' \subseteq Job
  BY <1>0, <1>4
<1>9. QED
  BY <1>5, <1>6, <1>7, <1>8, PermitsKept DEF WorkTypeOK

(* Every step of the scopes, the callers and the jobs preserves it.        *)
LEMMA WorkStep == WorkInv /\ [WorkNext]_allVars => WorkInv'
<1> SUFFICES ASSUME WorkInv, [WorkNext]_allVars PROVE WorkInv'
  OBVIOUS
<1>0. SafetyInv /\ WorkTypeOK /\ \A j \in Job : JobInv(j) /\ j \in Operation
  BY JobAssumption DEF WorkInv
<1>1. ASSUME UNCHANGED workVars, \A j \in Job : Others(j), [Next]_vars PROVE WorkInv'
  <2>1. UNCHANGED <<phase, caller, permits, ran, answer>>
    BY <1>1 DEF workVars
  <2>2. WorkTypeOK' /\ SafetyInv' /\ Holders' = Holders
    BY <1>0, <1>1, <2>1, SafetyStep DEF WorkTypeOK, Holders, HoldsPermit
  <2>3. \A j \in Job : JobInv(j)'
    BY <1>0, <1>1, <2>1, BystanderKept
  <2>4. QED
    BY <2>1, <2>2, <2>3 DEF WorkInv
<1>2. ASSUME OwnerNext PROVE WorkInv'
  <2>1. \A j \in Job : Others(j)
    BY <1>2 DEF OwnerNext, Others
  <2>2. [Next]_vars
    BY <1>2 DEF OwnerNext, Next
  <2>3. QED
    BY <1>1, <1>2, <2>1, <2>2 DEF OwnerNext
<1>3. ASSUME UNCHANGED allVars PROVE WorkInv'
  <2>1. UNCHANGED vars /\ UNCHANGED workVars
    BY <1>3 DEF allVars
  <2>2. QED
    BY <1>1, <2>1 DEF Others
<1>4. ASSUME NEW j \in Job, JobNext(j) PROVE WorkInv'
  <2>1. OperationNext(j) \/ UNCHANGED vars
    BY <1>4, JobIsOwner
  <2>2. SafetyInv'
    BY <1>0, <2>1, SafetyStep DEF Next
  <2>3. JobInv(j)'
    BY <1>4, OutsideKept, InsideKept DEF JobNext
  <2>4. ASSUME NEW k \in Job, k # j PROVE JobInv(k)'
    <3>1. Others(k)
      BY <1>0, <2>1, <2>4 DEF Others
    <3>2. /\ phase'[k] = phase[k] /\ caller'[k] = caller[k] /\ answer'[k] = answer[k]
          /\ k \in ran' <=> k \in ran
      BY <1>0, <1>4, <2>4, JobsApart
    <3>3. QED
      BY <1>0, <3>1, <3>2, BystanderKept
  <2>5. WorkTypeOK' /\ permits' + Cardinality(Holders') = Capacity
    BY <1>4, WorkTypes, PermitsKept
  <2>6. QED
    BY <2>2, <2>3, <2>4, <2>5 DEF WorkInv
<1>5. QED
  BY <1>2, <1>3, <1>4 DEF WorkNext

LEMMA WorkInitially == WorkInit => WorkInv
<1> SUFFICES ASSUME WorkInit PROVE WorkInv
  OBVIOUS
<1>1. SafetyInv
  BY SafetyInitially DEF WorkInit
<1>2. Capacity \in Nat /\ Job \subseteq Operation
  BY JobAssumption
<1>3. permits \in 0 .. Capacity
  BY <1>2, SMT DEF WorkInit
<1>4. WorkTypeOK
  BY <1>3 DEF WorkInit, WorkTypeOK, Phase, Answer
<1>5. Holders = {}
  BY DEF WorkInit, Holders, HoldsPermit
<1>6. permits + Cardinality(Holders) = Capacity
  BY <1>2, <1>5, FS_EmptySet, SMT DEF WorkInit
<1>7. ASSUME NEW j \in Job PROVE JobInv(j)
  <2>1. ~Registered(j)
    BY <1>2 DEF WorkInit, Init, Registered
  <2>2. phase[j] = "idle" /\ answer[j] = "none" /\ j \notin ran
    BY DEF WorkInit
  <2>3. QED
    BY <2>1, <2>2 DEF JobInv, Owning
<1>8. QED
  BY <1>1, <1>4, <1>6, <1>7 DEF WorkInv

(* DispatchError::NotDispatched of run_blocking_managed is a certainty for *)
(* any number of scopes, callers, jobs and permits: the job was not        *)
(* entered and the registry says NotDispatched of its operation for good.  *)
THEOREM RefusalsAreCertain == WorkSpec => []NotDispatchedIsCertain
<1>1. WorkInv => NotDispatchedIsCertain
  BY DEF WorkInv, JobInv, NotDispatchedIsCertain
<1>2. QED
  BY <1>1, WorkInitially, WorkStep, PTL DEF WorkSpec

(* The registry reports the operation of a dispatched caller that was      *)
(* dropped only when the work supervise or run_blocking_managed took over  *)
(* for it has ended, however the drop interleaves with the task.           *)
THEOREM CallersWait == WorkSpec => []LostCallerWaits
<1>1. WorkInv => LostCallerWaits
  BY DEF WorkInv, JobInv, LostCallerWaits, Owning
<1>2. QED
  BY <1>1, WorkInitially, WorkStep, PTL DEF WorkSpec

=============================================================================
