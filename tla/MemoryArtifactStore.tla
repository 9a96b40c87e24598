------------------------- MODULE MemoryArtifactStore -------------------------
(***************************************************************************)
(* The artifact cache in memory (etas_cache/src/store/memory).  Entries    *)
(* share allocations: a ledger counts for every allocation the entries     *)
(* that reach it and charges it once, with the largest size that one of    *)
(* them reported.  When the estimate exceeds the budget the least recently *)
(* used entry goes, and with it every entry that depends on it.            *)
(*                                                                         *)
(* A call is one step.  The clock of accesses is abstracted to the order   *)
(* of the entries by last access, keys and payloads to small values; the   *)
(* counters of evictions and rejections are left out.                      *)
(***************************************************************************)
EXTENDS Naturals, FiniteSets, FiniteSetsExt, SequencesExt, Functions

CONSTANTS
    ArtifactKey,    \* keys
    Artifact,       \* what may be put: [key, dependencies, footprint, bookkeeping]
    CacheBudget,    \* values of the byte budget
    SlotBytes       \* bytes of one slot of a table

VARIABLES
    cache,          \* artifacts, recency, charges, the sums and the capacities
    budget_bytes,
    dropped         \* history: what the last call evicted or invalidated

cacheVars == <<cache, budget_bytes, dropped>>

EmptyCache ==
    [artifacts |-> <<>>, recency |-> <<>>, charges |-> <<>>, payload_bytes |-> 0,
     entry_bytes |-> 0, table |-> 0, charge_table |-> 0, consistent |-> TRUE]

Retained(c) == DOMAIN c.artifacts
Without(f, x) == Restrict(f, DOMAIN f \ {x})
With(f, x, v) == [y \in DOMAIN f \cup {x} |-> IF y = x THEN v ELSE f[y]]

-----------------------------------------------------------------------------
(* The standard library's tables: the capacity that so many elements need. *)
Fit(n) == CASE n = 0 -> 0 [] n \in 1..3 -> 3 [] n \in 4..7 -> 7 [] OTHER -> 2 * n
Grown(capacity, n) == IF capacity >= n THEN capacity ELSE Fit(n)
Shrunk(capacity, n) == IF capacity > 4 * n THEN Fit(n) ELSE capacity

estimated_bytes(c) ==
    c.payload_bytes + c.entry_bytes + SlotBytes * (c.table + c.charge_table)

(* Accounting::add for one allocation of a footprint.                      *)
Charge(c, id, bytes) ==
    LET old == IF id \in DOMAIN c.charges THEN c.charges[id] ELSE [bytes |-> 0, references |-> 0]
        top == Max({old.bytes, bytes})
    IN  [c EXCEPT !.charges = With(@, id, [bytes |-> top, references |-> old.references + 1]),
                  !.payload_bytes = @ + (top - old.bytes),
                  !.charge_table = Grown(@, Cardinality(DOMAIN c.charges \cup {id}))]

Add(c, artifact) ==
    FoldSet(LAMBDA id, acc : Charge(acc, id, artifact.footprint[id]),
            [c EXCEPT !.entry_bytes = @ + artifact.bookkeeping], DOMAIN artifact.footprint)

(* The charge leaves the sum with the first entry that refers to it.       *)
DischargeEarly(c, id) ==
    IF c.charges[id].references > 1
    THEN [c EXCEPT !.charges[id].references = @ - 1, !.charges[id].bytes = 0,
                   !.payload_bytes = @ - c.charges[id].bytes]
    ELSE [c EXCEPT !.charges = Without(@, id), !.payload_bytes = @ - c.charges[id].bytes]

(* Accounting::remove for one allocation of a footprint.                   *)
Discharge(c, id) ==
    IF c.charges[id].references > 1
    THEN [c EXCEPT !.charges[id].references = @ - 1]
    ELSE [c EXCEPT !.charges = Without(@, id), !.payload_bytes = @ - c.charges[id].bytes]

Unaccount(c, artifact) ==
    LET ids == DOMAIN artifact.footprint
        rest == FoldSet(LAMBDA id, acc : Discharge(acc, id),
                        [c EXCEPT !.entry_bytes = @ - artifact.bookkeeping], ids)
    IN  IF c.entry_bytes < artifact.bookkeeping \/ ~(ids \subseteq DOMAIN c.charges)
        THEN [c EXCEPT !.consistent = FALSE]
        ELSE [rest EXCEPT !.charge_table = Shrunk(@, Cardinality(DOMAIN rest.charges))]

(* The entry leaves the map before the ledger is told.                     *)
remove_entry(c, key) ==
    LET gone == [c EXCEPT !.artifacts = Without(@, key),
                          !.recency = SelectSeq(@, LAMBDA k : k # key)]
        told == IF key \in Retained(c) THEN Unaccount(gone, c.artifacts[key]) ELSE c
    IN  [told EXCEPT !.table = Shrunk(@, Cardinality(Retained(told)))]

RemoveAll(c, keys) == FoldSet(LAMBDA k, acc : remove_entry(acc, k), c, keys)

(* The keys and, along the dependencies of the retained entries, every     *)
(* entry that depends on one of them.                                      *)
RECURSIVE invalidate_from(_, _)
invalidate_from(c, keys) ==
    LET more == {k \in Retained(c) : c.artifacts[k].dependencies \cap keys # {}}
    IN  IF more \subseteq keys THEN keys ELSE invalidate_from(c, keys \cup more)

RECURSIVE enforce_budget(_, _)
enforce_budget(c, budget) ==
    IF estimated_bytes(c) <= budget \/ c.recency = <<>> \/ ~c.consistent THEN c
    ELSE enforce_budget(RemoveAll(c, invalidate_from(c, {Head(c.recency)})), budget)

-----------------------------------------------------------------------------
CacheInit ==
    /\ cache = EmptyCache
    /\ budget_bytes \in CacheBudget
    /\ dropped = {}

Insert(c, artifact) ==
    LET all == With(c.artifacts, artifact.key, artifact)
    IN  [Add(c, artifact) EXCEPT !.artifacts = all,
                                 !.recency = Append(@, artifact.key),
                                 !.table = Grown(@, Cardinality(DOMAIN all))]

(* The size of a footprint that is not in the ledger yet.                  *)
OwnBytes(artifact) ==
    MapThenSumSet(LAMBDA id : artifact.footprint[id], DOMAIN artifact.footprint)
        + artifact.bookkeeping

(* put takes out what the key held, rejects what could never fit, and      *)
(* evicts last, perhaps what it has just put.                              *)
put(artifact) ==
    LET vacated == remove_entry(cache, artifact.key)
        fits == budget_bytes # 0 /\ OwnBytes(artifact) <= budget_bytes
        inserted == IF fits THEN Insert(vacated, artifact) ELSE vacated
        after == IF fits THEN enforce_budget(inserted, budget_bytes) ELSE vacated
    IN  /\ cache' = after
        /\ dropped' = Retained(inserted) \ Retained(after)
        /\ UNCHANGED budget_bytes

(* get and meta of a retained entry make it the most recent one; a value   *)
(* of another type than the caller's is not found and not touched.         *)
get(key) ==
    /\ key \in Retained(cache)
    /\ cache' = [cache EXCEPT !.recency = Append(SelectSeq(@, LAMBDA k : k # key), key)]
    /\ dropped' = {}
    /\ UNCHANGED budget_bytes

(* Every selector comes down to a list of root keys, cached or not.        *)
invalidate(roots) ==
    LET after == RemoveAll(cache, invalidate_from(cache, roots))
    IN  /\ cache' = after
        /\ dropped' = roots \cup (Retained(cache) \ Retained(after))
        /\ UNCHANGED budget_bytes

set_byte_budget(bytes) ==
    LET after == enforce_budget(cache, bytes)
    IN  /\ budget_bytes' = bytes
        /\ cache' = after
        /\ dropped' = Retained(cache) \ Retained(after)

CacheNext ==
    \/ \E artifact \in Artifact : put(artifact)
    \/ \E key \in ArtifactKey : get(key)
    \/ \E roots \in SUBSET ArtifactKey : invalidate(roots)
    \/ \E bytes \in CacheBudget : set_byte_budget(bytes)

CacheSpec == CacheInit /\ [][CacheNext]_cacheVars

-----------------------------------------------------------------------------
CacheTypeOK ==
    /\ budget_bytes \in CacheBudget
    /\ Retained(cache) \subseteq ArtifactKey /\ ToSet(cache.recency) = Retained(cache)
    /\ Len(cache.recency) = Cardinality(Retained(cache))
    /\ \A k \in Retained(cache) : cache.artifacts[k] \in Artifact

Referring(id) == {k \in Retained(cache) : id \in DOMAIN cache.artifacts[k].footprint}

(* After every call of the cache, however puts, replacements, reads,        *)
(* invalidations and changes of the budget follow each other: the ledger    *)
(* lists exactly the allocations that the entries reach, with the number    *)
(* of entries and at least the size each of them reported, and its sums     *)
(* add up, so that remove never finds it inconsistent; the estimate is      *)
(* within the budget; and no entry outlives one it depends on that the call *)
(* evicted or invalidated.                                                  *)
CacheIsSound ==
    /\ CacheTypeOK
    /\ cache.consistent
    /\ \A id \in DOMAIN cache.charges :
         /\ cache.charges[id].references = Cardinality(Referring(id))
         /\ \A k \in Referring(id) :
              cache.artifacts[k].footprint[id] <= cache.charges[id].bytes
    /\ \A k \in Retained(cache) :
         DOMAIN cache.artifacts[k].footprint \subseteq DOMAIN cache.charges
    /\ cache.payload_bytes = MapThenSumSet(LAMBDA id : cache.charges[id].bytes, DOMAIN cache.charges)
    /\ cache.entry_bytes = MapThenSumSet(LAMBDA k : cache.artifacts[k].bookkeeping, Retained(cache))
    /\ estimated_bytes(cache) <= budget_bytes
    /\ \A k \in Retained(cache) : cache.artifacts[k].dependencies \cap dropped = {}
=============================================================================
