--------------------------- MODULE DiskArtifactStore ---------------------------
(***************************************************************************)
(* The disk cache of etas_cache (store/disk.rs), opened by several         *)
(* processes at once.  SQLite holds one row per artifact and the edges     *)
(* between artifacts; the payloads are files named after their hash.       *)
(* SQLite statements and transactions are atomic, and so is each file      *)
(* operation, but an operation of the store is a sequence of them, and the *)
(* processes interleave between any two.  A process may die at any point.  *)
(*                                                                         *)
(* An artifact is known by its key, fingerprint, hash and codec (codec and *)
(* compression); its stored bytes are its hash.  Payloads have size one.   *)
(* Temporary files have unique names, are never read, and are only         *)
(* collected when stale: they are left out.                                *)
(***************************************************************************)
EXTENDS Integers, FiniteSets, Functions

CONSTANTS
    Process,        \* processes with the store open
    Deployment,     \* [artifacts, collectors, budget] the store may be used with
    NoHash          \* the payload_hash of a metadata-only row

ASSUME DiskAssumption ==
    \A d \in Deployment :
        /\ IsFiniteSet(d.artifacts)
        /\ \A x \in d.artifacts :
               x.hash # NoHash /\ x.dependencies \subseteq {y.key : y \in d.artifacts}
        /\ d.collectors \subseteq Process
        /\ d.budget \in Nat \ {0}

VARIABLES
    deployment,             \* how the store is used: it does not change
    artifacts,              \* rows: key -> fingerprint and payload_hash
    dependencies,           \* rows <<artifact_key, depends_on_key>>
    reverse_dependencies,   \* rows <<dependency_key, dependent_key>>
    objects,                \* object files: hash -> envelope header
    op,                     \* what each process is doing
    overdue                 \* some eviction that was due has been given up

rows == <<artifacts, dependencies, reverse_dependencies>>
vars == <<rows, objects, op, overdue, deployment>>

Artifact == deployment.artifacts    \* [key, fingerprint, hash, codec, dependencies] that are put
Collector == deployment.collectors  \* processes that call gc_unreachable_objects
Budget == deployment.budget         \* max_project_bytes

Key == {x.key : x \in Artifact}
Hash == {x.hash : x \in Artifact}
Fingerprint == {x.fingerprint : x \in Artifact}
Header(x) == [key |-> x.key, fingerprint |-> x.fingerprint, codec |-> x.codec]
Present == DOMAIN artifacts
Payloads == {k \in Present : artifacts[k].hash # NoHash}

Idle == [at |-> "idle"]
Become(p, state) == op' = [op EXCEPT ![p] = state]

(* History: every invalidation under way notes that key k was written.     *)
Noted(k) ==
    [q \in Process |-> IF op[q].at = "closure"
                       THEN [op[q] EXCEPT !.written = @ \cup {k}]
                       ELSE op[q]]

-----------------------------------------------------------------------------
(* Transactions on the index *)

(* upsert_artifact and replace_dependencies in one transaction             *)
Upsert(k, row, on) ==
    /\ artifacts' = [j \in Present \cup {k} |-> IF j = k THEN row ELSE artifacts[j]]
    /\ dependencies' = {e \in dependencies : e[1] # k} \cup {<<k, d>> : d \in on}
    /\ reverse_dependencies' = {e \in reverse_dependencies : e[2] # k} \cup {<<d, k>> : d \in on}

(* remove_rows deletes the rows of the keys and every edge at either end.  *)
remove_rows(keys) ==
    /\ artifacts' = Restrict(artifacts, Present \ keys)
    /\ dependencies' = {e \in dependencies : e[1] \notin keys /\ e[2] \notin keys}
    /\ reverse_dependencies' =
           {e \in reverse_dependencies : e[1] \notin keys /\ e[2] \notin keys}

-----------------------------------------------------------------------------
(* put_bytes_with_report *)

Put(p, x) ==
    /\ op[p] = Idle
    /\ Become(p, [at |-> "check", put |-> x])
    /\ UNCHANGED <<rows, objects, overdue>>

(* Mutant of Check: the metadata of a new object is committed before the   *)
(* object is written.                                                      *)
CheckCommitsFirst(p) ==
    /\ op[p].at = "check"
    /\ Become(p, [op[p] EXCEPT !.at = IF op[p].put.hash \in DOMAIN objects
                                      THEN "validate"
                                      ELSE "commit"])
    /\ UNCHANGED <<rows, objects, overdue>>

(* write_object: does the object exist?                                    *)
Check(p) ==
    /\ op[p].at = "check"
    /\ Become(p, [op[p] EXCEPT !.at = IF op[p].put.hash \in DOMAIN objects
                                      THEN "validate"
                                      ELSE "link"])
    /\ UNCHANGED <<rows, objects, overdue>>

(* write_object: the synced temporary file is linked to the object path,   *)
(* unless another process was faster.                                      *)
Link(p) ==
    LET x == op[p].put
        exists == x.hash \in DOMAIN objects
    IN  /\ op[p].at = "link"
        /\ objects' = IF exists
                      THEN objects
                      ELSE [h \in DOMAIN objects \cup {x.hash} |->
                               IF h = x.hash THEN Header(x) ELSE objects[h]]
        /\ Become(p, [op[p] EXCEPT !.at = IF exists THEN "validate" ELSE "commit"])
        /\ UNCHANGED <<rows, overdue>>

(* validate_existing_object: the write is skipped when the file is gone    *)
(* again or has another envelope.                                          *)
Validate(p) ==
    LET x == op[p].put
    IN  /\ op[p].at = "validate"
        /\ Become(p, IF x.hash \in DOMAIN objects /\ objects[x.hash] = Header(x)
                     THEN [op[p] EXCEPT !.at = "commit"]
                     ELSE Idle)
        /\ UNCHANGED <<rows, objects, overdue>>

(* The metadata transaction.                                               *)
Commit(p) ==
    LET x == op[p].put
    IN  /\ op[p].at = "commit"
        /\ Upsert(x.key, [fingerprint |-> x.fingerprint, hash |-> x.hash], x.dependencies)
        /\ op' = [Noted(x.key) EXCEPT ![p] = [at |-> "total"]]
        /\ UNCHANGED <<objects, overdue>>

(* put_metadata: a row without a payload, in one transaction.              *)
PutMetadata(p, x) ==
    /\ op[p] = Idle
    /\ Upsert(x.key, [fingerprint |-> x.fingerprint, hash |-> NoHash], x.dependencies)
    /\ op' = Noted(x.key)
    /\ UNCHANGED <<objects, overdue>>

-----------------------------------------------------------------------------
(* enforce_budgets_after_write, evict_to_budget *)

(* Mutant of Total: the budget may be exceeded by one.                     *)
TotalOffByOne(p) ==
    /\ op[p].at = "total"
    /\ Become(p, IF Cardinality(Payloads) <= Budget + 1
                 THEN Idle
                 ELSE [at |-> "victims", excess |-> Cardinality(Payloads) - Budget])
    /\ UNCHANGED <<rows, objects, overdue>>

(* total_payload_size                                                      *)
Total(p) ==
    /\ op[p].at = "total"
    /\ Become(p, IF Cardinality(Payloads) <= Budget
                 THEN Idle
                 ELSE [at |-> "victims", excess |-> Cardinality(Payloads) - Budget])
    /\ UNCHANGED <<rows, objects, overdue>>

(* eviction_candidates: enough of them to make up for the excess, or all.  *)
(* Their order by priority, last use and key is left open.                 *)
Victims(p) ==
    /\ op[p].at = "victims"
    /\ \E keys \in SUBSET Payloads :
           /\ Cardinality(keys) = IF op[p].excess < Cardinality(Payloads)
                                  THEN op[p].excess
                                  ELSE Cardinality(Payloads)
           /\ Become(p, IF keys = {} THEN Idle ELSE [at |-> "evict", keys |-> keys])
    /\ UNCHANGED <<rows, objects, overdue>>

Evict(p) ==
    /\ op[p].at = "evict"
    /\ remove_rows(op[p].keys)
    /\ Become(p, [at |-> "collect"])
    /\ UNCHANGED <<objects, overdue>>

-----------------------------------------------------------------------------
(* gc_unreachable_objects *)

Collect(p) ==
    /\ op[p] = Idle /\ p \in Collector
    /\ Become(p, [at |-> "collect"])
    /\ UNCHANGED <<rows, objects, overdue>>

(* The reachable hashes are read once, then the directories are scanned.   *)
Reachable(p) ==
    LET hashes == {artifacts[k].hash : k \in Payloads}
    IN  /\ op[p].at = "collect"
        /\ Become(p, [at |-> "scan", reachable |-> hashes, left |-> DOMAIN objects \ hashes])
        /\ UNCHANGED <<rows, objects, overdue>>

(* A file that appears during the scan may be listed or not.               *)
Delete(p, h) ==
    /\ op[p].at = "scan"
    /\ h \in (op[p].left \cup DOMAIN objects) \ op[p].reachable
    /\ objects' = Restrict(objects, DOMAIN objects \ {h})
    /\ Become(p, [op[p] EXCEPT !.left = @ \ {h}])
    /\ UNCHANGED <<rows, overdue>>

Collected(p) ==
    /\ op[p].at = "scan" /\ op[p].left = {}
    /\ Become(p, Idle)
    /\ UNCHANGED <<rows, objects, overdue>>

-----------------------------------------------------------------------------
(* get_bytes *)

(* meta and validate_read_meta: a missing row and a row without payload    *)
(* are misses, another fingerprint is an error.                            *)
Get(p, k, f) ==
    /\ op[p] = Idle
    /\ k \in Payloads /\ artifacts[k].fingerprint = f
    /\ Become(p, [at |-> "read", key |-> k, row |-> artifacts[k]])
    /\ UNCHANGED <<rows, objects, overdue>>

(* Mutant of ReadObject: the envelope is not compared with the request.    *)
ReadObjectUnvalidated(p) ==
    LET k == op[p].key
        row == op[p].row
    IN  /\ op[p].at = "read"
        /\ Become(p, IF row.hash \in DOMAIN objects
                     THEN [at |-> "hit", key |-> k, row |-> row, codec |-> objects[row.hash].codec]
                     ELSE [at |-> "heal", key |-> k])
        /\ UNCHANGED <<rows, objects, overdue>>

(* read_object and validate_stored_object; the codec is the envelope's.    *)
ReadObject(p) ==
    LET k == op[p].key
        row == op[p].row
        valid == /\ row.hash \in DOMAIN objects
                 /\ objects[row.hash].key = k
                 /\ objects[row.hash].fingerprint = row.fingerprint
    IN  /\ op[p].at = "read"
        /\ Become(p, IF valid
                     THEN [at |-> "hit", key |-> k, row |-> row, codec |-> objects[row.hash].codec]
                     ELSE [at |-> "heal", key |-> k])
        /\ UNCHANGED <<rows, objects, overdue>>

(* touch, and the hit is returned.                                         *)
Touch(p) ==
    /\ op[p].at = "hit"
    /\ Become(p, Idle)
    /\ UNCHANGED <<rows, objects, overdue>>

(* remove_corrupt_metadata: the row is not read again before it goes.      *)
Heal(p) ==
    /\ op[p].at = "heal"
    /\ remove_rows({op[p].key})
    /\ Become(p, Idle)
    /\ UNCHANGED <<objects, overdue>>

-----------------------------------------------------------------------------
(* remove, invalidate *)

Remove(p, k) ==
    /\ op[p] = Idle
    /\ remove_rows({k})
    /\ UNCHANGED <<objects, op, overdue>>

(* roots_for: any set of keys.  Field "written" is history: the keys that  *)
(* were put since.                                                         *)
Invalidate(p, roots) ==
    /\ op[p] = Idle
    /\ Become(p, [at |-> "closure", queue |-> roots, seen |-> {}, written |-> {}])
    /\ UNCHANGED <<rows, objects, overdue>>

(* Mutant of Closure: only the first key's dependents are followed.        *)
ClosureOneLevel(p, k) ==
    LET s == op[p]
        dependents == {e[2] : e \in {e \in reverse_dependencies : e[1] = k}}
    IN  /\ s.at = "closure" /\ k \in s.queue
        /\ Become(p, [s EXCEPT !.queue = (@ \ {k}) \cup IF s.seen = {} THEN dependents ELSE {},
                               !.seen = @ \cup {k}])
        /\ UNCHANGED <<rows, objects, overdue>>

(* invalidation_closure: one query per key.                                *)
Closure(p, k) ==
    LET s == op[p]
        dependents == {e[2] : e \in {e \in reverse_dependencies : e[1] = k}}
    IN  /\ s.at = "closure" /\ k \in s.queue
        /\ Become(p, [s EXCEPT !.queue = (@ \cup dependents) \ (s.seen \cup {k}),
                               !.seen = @ \cup {k}])
        /\ UNCHANGED <<rows, objects, overdue>>

Invalidated(p) ==
    /\ op[p].at = "closure" /\ op[p].queue = {}
    /\ remove_rows(op[p].seen)
    /\ Become(p, Idle)
    /\ UNCHANGED <<objects, overdue>>

-----------------------------------------------------------------------------
(* SQLite's lock was not obtained in time, an object could not be read, or *)
(* the process died and was started again: whatever was under way is given *)
(* up between two steps.                                                   *)
GiveUp(p) ==
    /\ op[p] # Idle
    /\ overdue' = (overdue \/ /\ op[p].at \in {"total", "victims", "evict"}
                               /\ Cardinality(Payloads) > Budget)
    /\ Become(p, Idle)
    /\ UNCHANGED <<rows, objects>>

Init ==
    /\ artifacts = <<>> /\ dependencies = {} /\ reverse_dependencies = {}
    /\ objects = <<>>
    /\ op = [p \in Process |-> Idle]
    /\ overdue = FALSE
    /\ deployment \in Deployment

WriterNext(p) ==
    \/ \E x \in Artifact : Put(p, x) \/ PutMetadata(p, x)
    \/ Check(p) \/ Link(p) \/ Validate(p) \/ Commit(p)
    \/ Total(p) \/ Victims(p) \/ Evict(p)

CollectorNext(p) ==
    \/ Collect(p) \/ Reachable(p) \/ Collected(p)
    \/ \E h \in Hash : Delete(p, h)

ReaderNext(p) ==
    \/ \E k \in Key, f \in Fingerprint : Get(p, k, f)
    \/ ReadObject(p) \/ Touch(p) \/ Heal(p)

RemoverNext(p) ==
    \/ \E k \in Key : Remove(p, k) \/ Closure(p, k)
    \/ \E roots \in SUBSET Key : Invalidate(p, roots)
    \/ Invalidated(p)

Next ==
    /\ \E p \in Process :
           WriterNext(p) \/ CollectorNext(p) \/ ReaderNext(p) \/ RemoverNext(p) \/ GiveUp(p)
    /\ UNCHANGED deployment

Spec == Init /\ [][Next]_vars

-----------------------------------------------------------------------------
(* Properties *)

Row == [fingerprint : Fingerprint, hash : Hash \cup {NoHash}]
Codec == {x.codec : x \in Artifact}
Op ==
    [at : {"idle", "total", "collect"}]
        \cup [at : {"check", "link", "validate", "commit"}, put : Artifact]
        \cup [at : {"victims"}, excess : 1 .. Cardinality(Key)]
        \cup [at : {"evict"}, keys : (SUBSET Key) \ {{}}]
        \cup [at : {"scan"}, reachable : SUBSET Hash, left : SUBSET Hash]
        \cup [at : {"read"}, key : Key, row : Row]
        \cup [at : {"hit"}, key : Key, row : Row, codec : Codec]
        \cup [at : {"heal"}, key : Key]
        \cup [at : {"closure"}, queue : SUBSET Key, seen : SUBSET Key, written : SUBSET Key]

TypeOK ==
    /\ Present \subseteq Key /\ \A k \in Present : artifacts[k] \in Row
    /\ dependencies \subseteq Present \X Key
    /\ reverse_dependencies = {<<e[2], e[1]>> : e \in dependencies}
    /\ DOMAIN objects \subseteq Hash
    /\ \A h \in DOMAIN objects : \E x \in Artifact : x.hash = h /\ objects[h] = Header(x)
    /\ op \in [Process -> Op]
    /\ overdue \in BOOLEAN

(* get_bytes never returns a mixture: key, fingerprint, payload and codec  *)
(* of a hit are those of one artifact that was put, although the row and   *)
(* the object are read at different times and the object may have been     *)
(* collected and written again for another key in between.                 *)
HitIsAsPublished ==
    \A p \in Process :
        op[p].at = "hit" =>
            \E x \in Artifact :
                /\ x.key = op[p].key /\ x.codec = op[p].codec
                /\ x.fingerprint = op[p].row.fingerprint /\ x.hash = op[p].row.hash

(* An invalidation, which reads the graph one key at a time outside the    *)
(* transaction that removes the rows, misses no dependent of a key it has  *)
(* visited, unless that dependent was written after it started.            *)
InvalidationIsComplete ==
    \A p \in Process :
        op[p].at = "closure" =>
            \A e \in dependencies :
                e[2] \in op[p].seen => e[1] \in op[p].seen \cup op[p].queue \cup op[p].written

(* Once no write has its eviction still ahead, the payloads fit the        *)
(* budget, unless an eviction was given up because of a lock or a crash:   *)
(* evictions that overlap may remove too much, never too little.           *)
BudgetHolds ==
    \/ overdue
    \/ \E p \in Process : op[p].at \in {"total", "victims", "evict"}
    \/ Cardinality(Payloads) <= Budget

(* "This ordering guarantees that committed metadata does not point at a   *)
(* partially written object": where no process collects garbage, because   *)
(* it is told to or because an eviction is due, every row with a payload   *)
(* has its object, at every step of every writer and after every crash.    *)
CommittedObjectExists ==
    /\ TypeOK
    /\ Collector = {} /\ Budget >= Cardinality(Key) =>
           \A k \in Payloads : artifacts[k].hash \in DOMAIN objects

(* "GC must only delete final objects/xx/<hash>.bin files that are         *)
(* unreachable from committed SQLite metadata".  The code decides with     *)
(* hashes read before the scan.                                            *)
CollectsOnlyUnreachable ==
    [][\A h \in DOMAIN objects \ DOMAIN objects' :
           h \notin {artifacts[k].hash : k \in Payloads}]_vars

=============================================================================
