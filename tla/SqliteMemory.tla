----------------------------- MODULE SqliteMemory -----------------------------
(***************************************************************************)
(* The SQLite memory store (memory/sqlite) behind its connection owner     *)
(* (storage/sqlite/worker.rs), opened by several processes.                *)
(*                                                                         *)
(* A request is admitted if capacity is left, queues for the thread that   *)
(* owns the process's connection, and runs there as a job.  A keyed        *)
(* mutation checks the window of its operation key, waits for the writer   *)
(* lock, and decides, mutates and writes its receipt in one transaction.   *)
(* Statements, COMMIT and ROLLBACK may fail, the caller may go away, the   *)
(* process may die between any two steps, and the clock goes on.           *)
(*                                                                         *)
(* The lock, the atomicity of a transaction and its durability are         *)
(* SQLite's.  A COMMIT that reports an error may have happened.            *)
(***************************************************************************)
EXTENDS StorageReceipts, Sequences, FiniteSets

CONSTANTS
    Process, Attempt, Request,
    Entry,          \* keys of the store
    Offers,         \* the processes and requests an attempt may be sent to and with
    Impatient,      \* attempts whose caller may drop its future
    Fragile,        \* processes that may die
    Absent, NoRequest, NoAttempt, NoProcess,
    MaxPending,     \* max_pending_jobs
    MaxReceipts,    \* max_receipts
    MaxRevision     \* i64::MAX

ASSUME MemoryAssumption ==
    /\ IsFiniteSet(Attempt) /\ Offers \in [Attempt -> SUBSET (Process \X Request)]
    /\ Impatient \subseteq Attempt /\ Fragile \subseteq Process
    /\ {MaxPending, MaxReceipts, MaxRevision} \subseteq Nat
    /\ NoRequest \notin Request /\ NoAttempt \notin Attempt
    /\ \A r \in Request : r.key \in Key /\ r.entry \in Entry

VARIABLES
    db,         \* the committed tables: entries, revision and receipts
    lock,       \* the attempt whose transaction is open for writing
    tx,         \* what that transaction has staged
    worker,     \* the thread that owns a process's connection
    queue,      \* jobs in its channel
    pending,    \* Admission: jobs that hold capacity
    asked, at,  \* the request of an attempt and the process it was sent to
    phase,      \* how far an attempt has come
    gone,       \* attempts whose caller dropped the future
    answer,     \* the answer of an attempt
    effect      \* history: what an attempt's own transaction committed

vars == <<db, lock, tx, worker, queue, pending, asked, at, phase, gone, answer, effect, now>>

Plain(kind) == [kind |-> kind, version |-> 0]
None == Plain("None")
NoReceipt == [request |-> NoRequest, outcome |-> None]

(* The phases in which a job has the connection.                          *)
InJob == {"validated", "locked", "staged", "aborting", "unsettled", "settled"}
Holding(a) == phase[a] \in InJob \cup {"queued", "answered"}
Busy(p) == \E a \in Attempt : at[a] = p /\ phase[a] \in InJob

(* NotDispatched and OutcomeUnavailable are told apart for a keyed         *)
(* mutation only; every other request gets an error.                       *)
from_dispatch_error(a, kind) == Plain(IF asked[a].kind = "Mutate" THEN kind ELSE "Error")

-----------------------------------------------------------------------------
(* Conditions, versions and receipts *)

is_satisfied_by(cond, e) ==
    \/ cond.kind = "Any"
    \/ cond.kind = "Missing" /\ e = Absent
    \/ cond.kind = "Exists" /\ e # Absent
    \/ cond.kind = "Match" /\ e # Absent /\ cond.version = e.version

(* A store that does not exist yet has revision 0 and no entries.          *)
apply_mutation(d, r) ==
    LET e == d.entries[r.entry]
        n == d.revision + 1
    IN  IF ~is_satisfied_by(r.cond, e) THEN [db |-> d, outcome |-> Plain("Conflict")]
        ELSE IF r.value = Absent /\ e = Absent THEN [db |-> d, outcome |-> Plain("Unchanged")]
        ELSE [db |-> [d EXCEPT !.revision = n, !.entries[r.entry] =
                        IF r.value = Absent THEN Absent ELSE [value |-> r.value, version |-> n]],
              outcome |-> [kind |-> "Committed", version |-> n]]

(* next_revision fails at the end of the revision space.                   *)
Exhausted(d, r) == d.revision = MaxRevision /\ apply_mutation(d, r).db # d

(* The fingerprint covers everything a request asks for.                   *)
Fingerprint(r) == <<r.key, r.entry, r.value, r.cond>>
Matches(receipt, r) == Fingerprint(receipt.request) = Fingerprint(r)

(* Mutant of Evict: receipts make room whether they have expired or not.   *)
EvictAll(receipts) == [k \in Key |-> NoReceipt]

(* DELETE FROM memory_receipts WHERE expires<=now                          *)
Evict(receipts) == [k \in Key |-> IF is_expired(k) THEN NoReceipt ELSE receipts[k]]
Retained(receipts) == {k \in Key : receipts[k] # NoReceipt}

-----------------------------------------------------------------------------
EmptyDb == [entries |-> [e \in Entry |-> Absent], revision |-> 0,
            receipts |-> [k \in Key |-> NoReceipt]]
NoTx == [db |-> EmptyDb, outcome |-> None, fresh |-> FALSE]

Init ==
    /\ db = EmptyDb /\ lock = NoAttempt /\ tx = NoTx
    /\ worker = [p \in Process |-> "up"]
    /\ queue = [p \in Process |-> <<>>]
    /\ pending = [p \in Process |-> 0]
    /\ asked = [a \in Attempt |-> NoRequest]
    /\ at = [a \in Attempt |-> NoProcess]
    /\ phase = [a \in Attempt |-> "idle"]
    /\ gone = {}
    /\ answer = [a \in Attempt |-> None]
    /\ effect = [a \in Attempt |-> None]
    /\ now = 0

storage == <<db, lock, tx, effect>>
calls == <<asked, at, gone>>

-----------------------------------------------------------------------------
(* Dispatch: SqliteWorker::execute *)

Call(a, p, r) ==
    /\ phase[a] = "idle" /\ worker[p] # "down"
    /\ asked' = [asked EXCEPT ![a] = r]
    /\ at' = [at EXCEPT ![a] = p]
    /\ phase' = [phase EXCEPT ![a] = "called"]
    /\ UNCHANGED <<storage, worker, queue, pending, gone, answer, now>>

(* try_reserve, then try_send.  The channel has max_pending_jobs places    *)
(* and each job in it holds one of as many permits, so it is never full.   *)
Admit(a) ==
    /\ phase[a] = "called" /\ worker[at[a]] = "up"
    /\ pending[at[a]] < MaxPending
    /\ pending' = [pending EXCEPT ![at[a]] = @ + 1]
    /\ queue' = [queue EXCEPT ![at[a]] = Append(@, a)]
    /\ phase' = [phase EXCEPT ![a] = "queued"]
    /\ UNCHANGED <<storage, calls, worker, answer, now>>

(* Out of time, cancelled, no capacity left, or no thread to send it to.   *)
Refuse(a) ==
    /\ phase[a] = "called"
    /\ phase' = [phase EXCEPT ![a] = "done"]
    /\ answer' = [answer EXCEPT ![a] = from_dispatch_error(a, "NotCommitted")]
    /\ UNCHANGED <<storage, calls, worker, queue, pending, now>>

(* Mutant of Reply: the answer to a caller that is gone keeps its permit.  *)
ReplyToNobody(a, t) ==
    /\ answer' = [answer EXCEPT ![a] = t]
    /\ phase' = [phase EXCEPT ![a] = IF a \in gone THEN "done" ELSE "answered"]
    /\ UNCHANGED pending

(* registration.complete and sender.send: the permit goes with the answer, *)
(* or is dropped with it when nobody waits.                                *)
Reply(a, t) ==
    /\ answer' = [answer EXCEPT ![a] = t]
    /\ phase' = [phase EXCEPT ![a] = IF a \in gone THEN "done" ELSE "answered"]
    /\ pending' = IF a \in gone THEN [pending EXCEPT ![at[a]] = @ - 1] ELSE pending

Deliver(a) ==
    /\ phase[a] = "answered"
    /\ phase' = [phase EXCEPT ![a] = "done"]
    /\ pending' = [pending EXCEPT ![at[a]] = @ - 1]
    /\ UNCHANGED <<storage, calls, worker, queue, answer, now>>

(* The caller drops its future while the job is queued or running.         *)
DropCaller(a) ==
    /\ a \in Impatient \ gone /\ Holding(a) /\ phase[a] # "answered"
    /\ gone' = gone \cup {a}
    /\ UNCHANGED <<storage, asked, at, worker, queue, pending, phase, answer, now>>

-----------------------------------------------------------------------------
(* Jobs on the thread that owns the connection *)

Take(a) ==
    /\ phase[a] = "queued" /\ worker[at[a]] = "up" /\ ~Busy(at[a])
    /\ Head(queue[at[a]]) = a
    /\ queue' = [queue EXCEPT ![at[a]] = Tail(@)]
    /\ UNCHANGED <<storage, calls, worker, now>>

(* control.check or begin_dispatch fails.                                  *)
Decline(a) ==
    /\ Take(a)
    /\ Reply(a, from_dispatch_error(a, "NotCommitted"))

Get(a) ==
    /\ Take(a) /\ asked[a].kind = "Get"
    /\ \/ Reply(a, [kind |-> "Read", entry |-> db.entries[asked[a].entry]])
       \/ Reply(a, Plain("Error"))

(* The clock is read before the transaction begins.                        *)
Window(a) ==
    /\ Take(a)
    /\ \/ /\ \/ asked[a].kind = "Unkeyed"
             \/ asked[a].kind = "Mutate" /\ validate_window(asked[a].key)
             \/ asked[a].kind = "Reconcile" /\ ~is_expired(asked[a].key)
          /\ phase' = [phase EXCEPT ![a] = "validated"]
          /\ UNCHANGED <<pending, answer>>
       \/ /\ asked[a].kind = "Mutate" /\ ~validate_window(asked[a].key)
          /\ Reply(a, Plain("Error"))
       \/ /\ asked[a].kind = "Reconcile" /\ is_expired(asked[a].key)
          /\ Reply(a, Plain("Expired"))

Job == <<calls, worker, queue, now>>

(* Reconcile: a receipt for another request, or one that cannot be read,   *)
(* is an error.                                                            *)
Reconcile(a) ==
    LET receipt == db.receipts[asked[a].key]
    IN  /\ phase[a] = "validated" /\ asked[a].kind = "Reconcile"
        /\ \/ receipt = NoReceipt /\ Reply(a, Plain("Unresolved"))
           \/ receipt # NoReceipt /\ Matches(receipt, asked[a]) /\ Reply(a, receipt.outcome)
           \/ Reply(a, Plain("Error"))
        /\ UNCHANGED <<storage, Job>>

(* BEGIN IMMEDIATE takes the writer lock, or fails: at the latest after    *)
(* the busy timeout.                                                       *)
Begin(a) ==
    /\ phase[a] = "validated" /\ asked[a].kind \in {"Mutate", "Unkeyed"}
    /\ lock = NoAttempt
    /\ lock' = a
    /\ phase' = [phase EXCEPT ![a] = "locked"]
    /\ UNCHANGED <<db, tx, effect, pending, answer, Job>>

BeginFails(a) ==
    /\ phase[a] = "validated" /\ asked[a].kind \in {"Mutate", "Unkeyed"}
    /\ Reply(a, from_dispatch_error(a, "NotCommitted"))
    /\ UNCHANGED <<storage, Job>>

StageAs(a, d, outcome, fresh) ==
    /\ tx' = [db |-> d, outcome |-> outcome, fresh |-> fresh]
    /\ phase' = [phase EXCEPT ![a] = "staged"]
    /\ UNCHANGED <<db, lock, effect, pending, answer, Job>>

(* legacy_mutate: no key and no receipt.                                   *)
StageUnkeyed(a) ==
    LET result == apply_mutation(db, asked[a])
    IN  /\ phase[a] = "locked" /\ asked[a].kind = "Unkeyed" /\ ~Exhausted(db, asked[a])
        /\ StageAs(a, result.db, result.outcome, TRUE)

(* The key has a receipt for the same request: its outcome again.          *)
Replay(a) ==
    LET receipt == db.receipts[asked[a].key]
    IN  /\ phase[a] = "locked" /\ asked[a].kind = "Mutate"
        /\ receipt # NoReceipt /\ Matches(receipt, asked[a])
        /\ StageAs(a, db, receipt.outcome, FALSE)

(* The receipt could not be read: nothing is staged and nothing claimed.   *)
LookupFails(a) ==
    /\ phase[a] = "locked" /\ asked[a].kind = "Mutate"
    /\ StageAs(a, db, Plain("Unknown"), FALSE)

(* A new operation: expired receipts make room, the mutation is decided    *)
(* and applied, and its receipt is written with it.                        *)
Stage(a) ==
    LET k == asked[a].key
        evicted == [db EXCEPT !.receipts = Evict(@)]
        result == apply_mutation(evicted, asked[a])
    IN  /\ phase[a] = "locked" /\ asked[a].kind = "Mutate" /\ db.receipts[k] = NoReceipt
        /\ Cardinality(Retained(evicted.receipts)) < MaxReceipts
        /\ ~Exhausted(evicted, asked[a])
        /\ StageAs(a, [result.db EXCEPT !.receipts[k] =
                         [request |-> asked[a], outcome |-> result.outcome]],
                   result.outcome, TRUE)

(* Another request under this key, no room for the receipt, the revisions  *)
(* are used up, a statement fails, or the operation is cancelled.          *)
StageFails(a) ==
    /\ phase[a] = "locked"
    /\ phase' = [phase EXCEPT ![a] = "aborting"]
    /\ UNCHANGED <<storage, pending, answer, Job>>

(* The transaction is over; the job has its answer.                        *)
EndTx(a, t) ==
    /\ lock' = NoAttempt /\ tx' = NoTx
    /\ phase' = [phase EXCEPT ![a] = "settled"]
    /\ answer' = [answer EXCEPT ![a] = t]
    /\ UNCHANGED <<pending, Job>>

(* COMMIT or ROLLBACK failed and left the transaction open.                *)
LeaveOpen(a) ==
    /\ tx' = NoTx
    /\ phase' = [phase EXCEPT ![a] = "unsettled"]
    /\ answer' = [answer EXCEPT ![a] = from_dispatch_error(a, "Unknown")]
    /\ UNCHANGED <<db, lock, effect, pending, Job>>

Rollback(a) ==
    /\ phase[a] = "aborting"
    /\ \/ EndTx(a, from_dispatch_error(a, "NotCommitted")) /\ UNCHANGED <<db, effect>>
       \/ EndTx(a, from_dispatch_error(a, "Unknown")) /\ UNCHANGED <<db, effect>>
       \/ LeaveOpen(a)

Land(a) ==
    /\ db' = tx.db
    /\ effect' = IF tx.fresh THEN [effect EXCEPT ![a] = tx.outcome] ELSE effect

(* Mutant of Commit: an error on COMMIT is taken for a rejection.          *)
CommitErrorRejects(a) ==
    /\ phase[a] = "staged"
    /\ \/ EndTx(a, tx.outcome) /\ Land(a)
       \/ EndTx(a, from_dispatch_error(a, "NotCommitted")) /\ Land(a)
       \/ EndTx(a, from_dispatch_error(a, "NotCommitted")) /\ UNCHANGED <<db, effect>>
       \/ LeaveOpen(a)

(* COMMIT succeeds, or reports an error whether it happened or not.        *)
Commit(a) ==
    /\ phase[a] = "staged"
    /\ \/ EndTx(a, tx.outcome) /\ Land(a)
       \/ EndTx(a, from_dispatch_error(a, "Unknown")) /\ Land(a)
       \/ EndTx(a, from_dispatch_error(a, "Unknown")) /\ UNCHANGED <<db, effect>>
       \/ LeaveOpen(a)

(* The owner rolls back a transaction its job left open.                   *)
Settle(a) ==
    /\ phase[a] = "unsettled"
    /\ EndTx(a, answer[a]) /\ UNCHANGED <<db, effect>>

(* Or cannot, and gives up the connection; its queue is dropped with it.   *)
Quarantine(a) ==
    /\ phase[a] = "unsettled"
    /\ lock' = NoAttempt
    /\ worker' = [worker EXCEPT ![at[a]] = "quarantined"]
    /\ Reply(a, answer[a])
    /\ UNCHANGED <<db, tx, effect, calls, queue, now>>

(* Mutant of DropJob: the channel outlives the thread that served it.      *)
ChannelStaysOpen(p) == FALSE

DropJob(p) ==
    /\ worker[p] = "quarantined" /\ queue[p] # <<>>
    /\ LET a == Head(queue[p])
       IN  /\ phase' = [phase EXCEPT ![a] = "done"]
           /\ answer' = [answer EXCEPT ![a] = from_dispatch_error(a, "Unknown")]
    /\ queue' = [queue EXCEPT ![p] = Tail(@)]
    /\ pending' = [pending EXCEPT ![p] = @ - 1]
    /\ UNCHANGED <<storage, calls, worker, now>>

(* The answer goes out; if the scope rejects the report of the outcome,    *)
(* it is withheld.                                                         *)
Finish(a) ==
    /\ phase[a] = "settled"
    /\ Reply(a, answer[a]) \/ Reply(a, from_dispatch_error(a, "Unknown"))
    /\ UNCHANGED <<storage, Job>>

-----------------------------------------------------------------------------
(* The process dies.  What it had handed to COMMIT may have landed.        *)
Crash(p) ==
    /\ p \in Fragile /\ worker[p] # "down"
    /\ worker' = [worker EXCEPT ![p] = "down"]
    /\ queue' = [queue EXCEPT ![p] = <<>>]
    /\ pending' = [pending EXCEPT ![p] = 0]
    /\ phase' = [a \in Attempt |->
            IF at[a] # p \/ phase[a] \in {"idle", "done"} THEN phase[a]
            ELSE IF phase[a] = "answered" THEN "done" ELSE "lost"]
    /\ IF lock # NoAttempt /\ at[lock] = p
       THEN /\ lock' = NoAttempt /\ tx' = NoTx
            /\ \/ phase[lock] = "staged" /\ Land(lock)
               \/ UNCHANGED <<db, effect>>
       ELSE UNCHANGED storage
    /\ UNCHANGED <<calls, answer, now>>

Restart(p) ==
    /\ worker[p] = "down"
    /\ worker' = [worker EXCEPT ![p] = "up"]
    /\ UNCHANGED <<storage, calls, queue, pending, phase, answer, now>>

Tick ==
    /\ now < MaxTime
    /\ now' = now + 1
    /\ UNCHANGED <<storage, calls, worker, queue, pending, phase, answer>>

Step(a) ==
    \/ Admit(a) \/ Refuse(a) \/ Deliver(a)
    \/ Decline(a) \/ Get(a) \/ Window(a)
    \/ Reconcile(a) \/ Begin(a) \/ BeginFails(a)
    \/ StageUnkeyed(a) \/ Replay(a) \/ LookupFails(a) \/ Stage(a) \/ StageFails(a)
    \/ Rollback(a) \/ Commit(a) \/ Settle(a) \/ Quarantine(a) \/ Finish(a)

Next ==
    \/ Tick
    \/ \E p \in Process : DropJob(p) \/ Crash(p) \/ Restart(p)
    \/ \E a \in Attempt : Step(a) \/ DropCaller(a) \/ \E o \in Offers[a] : Call(a, o[1], o[2])

Spec == Init /\ [][Next]_vars

(* The threads that own the connections run their jobs, callers that wait *)
(* are polled, and a thread that ends drops what is left in its channel.   *)
(* An attempt takes finitely many steps, so it is enough that some step    *)
(* that can be taken is.                                                   *)
Fairness == WF_vars((\E a \in Attempt : Step(a)) \/ \E p \in Process : DropJob(p))

FairSpec == Spec /\ Fairness

-----------------------------------------------------------------------------
Outcomes == [kind : {"None", "Committed", "Conflict", "Unchanged", "NotCommitted", "Unknown",
                     "Error", "Unresolved", "Expired"}, version : 0 .. MaxRevision]

(* Every variable has its type; in particular no transaction has given out *)
(* a revision past the last one (next_revision fails instead).             *)
TypeOK ==
    /\ db.revision \in 0 .. MaxRevision /\ tx.db.revision \in 0 .. MaxRevision
    /\ DOMAIN db.entries = Entry /\ DOMAIN db.receipts = Key
    /\ \A k \in Key : db.receipts[k].outcome \in Outcomes
    /\ lock \in Attempt \cup {NoAttempt}
    /\ worker \in [Process -> {"up", "quarantined", "down"}]
    /\ queue \in [Process -> Seq(Attempt)] /\ pending \in [Process -> 0 .. MaxPending]
    /\ asked \in [Attempt -> Request \cup {NoRequest}]
    /\ at \in [Attempt -> Process \cup {NoProcess}]
    /\ phase \in [Attempt -> InJob \cup {"idle", "called", "queued", "answered", "done", "lost"}]
    /\ gone \subseteq Attempt /\ now \in 0 .. MaxTime
    /\ effect \in [Attempt -> Outcomes]
    /\ \A a \in Attempt : answer[a].kind = "Read" \/ answer[a] \in Outcomes

(* An answer counts as given when it has been sent to the caller.          *)
Told == [a \in Attempt |-> IF phase[a] \in {"answered", "done"} THEN answer[a] ELSE None]

(* What the callers see of this module is a VersionedStore.                *)
Promise == INSTANCE VersionedStore WITH
    entries <- db.entries, revision <- db.revision, told <- Told

(* Whatever fails, is dropped or dies on the way, a mutation takes effect  *)
(* in one step or not at all, a key that has not expired takes effect once *)
(* and every answer is true (worker.rs, transaction.rs, receipt.rs).       *)
KeepsPromise == Promise!Spec

Performed(k) == {a \in Attempt : effect[a] # None /\ asked[a].kind = "Mutate" /\ asked[a].key = k}

(* The receipts are the evidence of what happened: each tells the outcome  *)
(* of a mutation that was performed, and the evidence of a performed       *)
(* operation is there until its key expires (persist, and the eviction in  *)
(* execute_write).                                                         *)
ReceiptsAreEvidence ==
    /\ TypeOK
    /\ \A k \in Key :
           /\ db.receipts[k] # NoReceipt =>
               \E a \in Performed(k) : db.receipts[k] = [request |-> asked[a], outcome |-> effect[a]]
           /\ Performed(k) # {} /\ ~is_expired(k) => db.receipts[k] # NoReceipt

(* Capacity is neither lost nor given twice: the permits in use are those  *)
(* of the jobs that wait, run or have an answer nobody took yet, and a job *)
(* with a permit always finds room in the channel (Admission, Reservation).*)
CapacityIsConserved ==
    \A p \in Process :
        /\ pending[p] = Cardinality({a \in Attempt : at[a] = p /\ Holding(a)})
        /\ Len(queue[p]) <= pending[p]

(* Every request is answered, unless its process dies: no failure leaves a *)
(* caller waiting for a job that is never run (worker.rs, new and execute).*)
CallsReturn == \A a \in Attempt : phase[a] = "called" ~> phase[a] \in {"done", "lost"}

=============================================================================
