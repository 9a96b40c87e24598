---------------------------- MODULE VersionedStore ----------------------------
(***************************************************************************)
(* What a memory store promises its callers, whatever backend keeps it     *)
(* (etas-storage-design.md, sections 2 and 3): a mutation takes effect in  *)
(* one step or not at all, an operation key takes effect once as long as   *)
(* it has not expired, and no attempt is told more than is true.           *)
(*                                                                         *)
(* This module only states the promise; SqliteMemory is shown to keep it.  *)
(***************************************************************************)
EXTENDS Naturals

CONSTANTS
    Attempt,    \* requests that callers send, each of them once
    Key,        \* operation keys (StorageOperationKey)
    Entry,      \* keys of the store
    Request,    \* [kind, key, entry, value, cond]
    Absent,     \* no entry; also the value that a delete asks for
    NoRequest,  \* of an attempt that has not been sent
    Expiry      \* when each operation key expires

VARIABLES
    entries,    \* Absent, or [value, version] of each entry
    revision,   \* the last version given out
    asked,      \* the request of each attempt
    effect,     \* what an attempt did itself: an outcome, or None
    told,       \* what an attempt was told, or None
    now         \* the clock of the receipts

storeVars == <<entries, revision, asked, effect, told, now>>

Plain(kind) == [kind |-> kind, version |-> 0]
None == Plain("None")

(* What the attempts with the operation key k have done.                   *)
Done(k) == {effect[b] : b \in {b \in Attempt :
                asked[b] # NoRequest /\ asked[b].kind = "Mutate" /\ asked[b].key = k}} \ {None}

Holds(cond, e) ==
    \/ cond.kind = "Any"
    \/ cond.kind = "Missing" /\ e = Absent
    \/ cond.kind = "Exists" /\ e # Absent
    \/ cond.kind = "Match" /\ e # Absent /\ cond.version = e.version

Changes(r) ==
    /\ Holds(r.cond, entries[r.entry])
    /\ r.value # Absent \/ entries[r.entry] # Absent

(* What an attempt may be told: an outcome, if it is its own or that of    *)
(* its key; NotCommitted, if it has none; or an answer without a claim.    *)
Sayable(a) ==
    {Plain(t) : t \in {"Unknown", "Error", "Unresolved", "Expired"}}
        \cup ({effect[a]} \ {None})
        \cup (IF asked[a].kind \in {"Mutate", "Reconcile"} THEN Done(asked[a].key) ELSE {})
        \cup (IF effect[a] = None THEN {Plain("NotCommitted")} ELSE {})

-----------------------------------------------------------------------------
Init ==
    /\ entries = [e \in Entry |-> Absent]
    /\ revision = 0
    /\ asked = [a \in Attempt |-> NoRequest]
    /\ effect = [a \in Attempt |-> None]
    /\ told = [a \in Attempt |-> None]
    /\ now = 0

Ask(a, r) ==
    /\ asked[a] = NoRequest
    /\ asked' = [asked EXCEPT ![a] = r]
    /\ UNCHANGED <<entries, revision, effect, told, now>>

(* The one step in which a mutation takes effect.                          *)
Perform(a) ==
    LET r == asked[a]
        n == revision + 1
    IN  /\ r # NoRequest /\ r.kind \in {"Mutate", "Unkeyed"}
        /\ effect[a] = None /\ told[a] = None
        /\ r.kind = "Mutate" => Done(r.key) = {} \/ Expiry[r.key] <= now
        /\ \/ /\ Changes(r)
              /\ revision' = n
              /\ entries' = [entries EXCEPT ![r.entry] =
                    IF r.value = Absent THEN Absent ELSE [value |-> r.value, version |-> n]]
              /\ effect' = [effect EXCEPT ![a] = [kind |-> "Committed", version |-> n]]
           \/ /\ ~Changes(r)
              /\ effect' = [effect EXCEPT ![a] =
                    [kind |-> IF Holds(r.cond, entries[r.entry]) THEN "Unchanged" ELSE "Conflict",
                     version |-> 0]]
              /\ UNCHANGED <<entries, revision>>
        /\ UNCHANGED <<asked, told, now>>

Tell(a) ==
    /\ asked[a] # NoRequest /\ told[a] = None
    /\ \E t \in Sayable(a) : told' = [told EXCEPT ![a] = t]
    /\ UNCHANGED <<entries, revision, asked, effect, now>>

(* A read reports an entry as it is.                                       *)
Read(a) ==
    /\ asked[a] # NoRequest /\ asked[a].kind = "Get" /\ told[a] = None
    /\ told' = [told EXCEPT ![a] = [kind |-> "Read", entry |-> entries[asked[a].entry]]]
    /\ UNCHANGED <<entries, revision, asked, effect, now>>

Tick ==
    /\ now' = now + 1
    /\ UNCHANGED <<entries, revision, asked, effect, told>>

Next ==
    \/ Tick
    \/ \E a \in Attempt : Perform(a) \/ Tell(a) \/ Read(a) \/ \E r \in Request : Ask(a, r)

Spec == Init /\ [][Next]_storeVars

=============================================================================
