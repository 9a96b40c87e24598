---------------------------- MODULE ServicesProofs ----------------------------
(***************************************************************************)
(* The keys of checkpoints, the budget ledger and the pass manager, each   *)
(* proved for any threads, keys, accounts, pipelines and bounds.           *)
(*                                                                         *)
(* A key that retain has stored stays recoverable.  The strengthening      *)
(* follows the system calls of retain: what a thread has done to its file  *)
(* by the time it makes the next call, and that the file of a stored key   *)
(* has its bytes and its name on the disk, so that a loss of power cannot  *)
(* touch it.                                                               *)
(***************************************************************************)
EXTENDS BudgetLedger, ReplayKeys, PassPipeline, FiniteSetTheorems, SequenceTheorems, TLAPS

Durable(k) == file[k] = "whole" /\ k \in synced /\ k \in linked

KeyInv ==
    /\ KeyTypeOK
    /\ provider = "memory" => kept \subseteq keys /\ \A t \in KeyThread : call[t] = Idle
    /\ provider = "directory" => \A k \in kept : Durable(k)
    /\ \A t \in KeyThread :
         /\ call[t].at \in {"sync", "link"} => file[call[t].key] = "whole"
         /\ call[t].at = "link" => call[t].key \in synced

USE Zenon

(* Initially nothing is stored and no thread is in a call.                 *)
LEMMA KeyInitially == KeyInit => KeyInv
<1> SUFFICES ASSUME KeyInit PROVE KeyInv
  OBVIOUS
<1>1. IsFiniteSet(keys) /\ Cardinality(keys) = 0
  BY FS_EmptySet DEF KeyInit
<1>2. Cardinality(keys) <= KeyCapacity
  BY <1>1, KeyAssumption, SMT
<1> QED
  BY <1>1, <1>2, SMT DEF KeyInit, KeyInv, KeyTypeOK, FileContent, Idle

(* The memory provider's calls: the map grows only below its capacity.     *)
LEMMA MemoryCalls ==
    ASSUME KeyInv, NEW t \in KeyThread,
           Generate(t) \/ MemoryRetain(t) \/ MemoryResolve(t) \/ MemoryRemove(t)
    PROVE  KeyInv'
<1>1. CASE Generate(t)
  BY <1>1, SMT DEF Generate, KeyInv, KeyTypeOK, Durable
<1>2. CASE MemoryRetain(t)
  <2>1. PICK k \in owned :
          /\ k \in keys \/ Cardinality(keys) < KeyCapacity
          /\ keys' = keys \cup {k}
          /\ kept' = kept \cup {k} /\ promised' = promised \cup {k}
    BY <1>2 DEF MemoryRetain
  <2>2. /\ IsFiniteSet(keys')
        /\ Cardinality(keys') = IF k \in keys THEN Cardinality(keys) ELSE Cardinality(keys) + 1
    BY <2>1, FS_AddElement DEF KeyInv, KeyTypeOK
  <2>3. Cardinality(keys) \in Nat
    BY FS_CardinalityType DEF KeyInv, KeyTypeOK
  <2>4. Cardinality(keys') <= KeyCapacity
    BY <2>1, <2>2, <2>3, KeyAssumption, SMT DEF KeyInv, KeyTypeOK
  <2> QED
    BY <1>2, <2>1, <2>2, <2>4, SMT DEF MemoryRetain, KeyInv, KeyTypeOK
<1>3. CASE MemoryResolve(t)
  BY <1>3, SMT DEF MemoryResolve, KeyInv, KeyTypeOK
<1>4. CASE MemoryRemove(t)
  <2>1. PICK k \in keys :
          keys' = keys \ {k} /\ kept' = kept \ {k} /\ promised' = promised \ {k}
    BY <1>4 DEF MemoryRemove
  <2>2. IsFiniteSet(keys') /\ Cardinality(keys') = Cardinality(keys) - 1
    BY <2>1, FS_RemoveElement DEF KeyInv, KeyTypeOK
  <2>3. Cardinality(keys) \in Nat
    BY FS_CardinalityType DEF KeyInv, KeyTypeOK
  <2>4. Cardinality(keys') <= KeyCapacity
    BY <2>2, <2>3, KeyAssumption, SMT DEF KeyInv, KeyTypeOK
  <2> QED
    BY <1>4, <2>1, <2>2, <2>4, SMT DEF MemoryRemove, KeyInv, KeyTypeOK
<1> QED
  BY <1>1, <1>2, <1>3, <1>4

(* resolve and the look of retain change no file.                          *)
LEMMA Looks ==
    ASSUME KeyInv, NEW t \in KeyThread,
           resolve_key(t) \/ RetainFinds(t) \/ RetainMisses(t) \/ RetainFails(t)
    PROVE  KeyInv'
<1>1. CASE resolve_key(t)
  BY <1>1, SMT DEF resolve_key, KeyInv, KeyTypeOK, Durable
<1>2. CASE RetainFinds(t)
  BY <1>2, SMT DEF RetainFinds, KeyInv, KeyTypeOK, Durable
<1>3. CASE RetainMisses(t)
  BY <1>3, SMT DEF RetainMisses, Goes, KeyInv, KeyTypeOK, Durable, Idle
<1>4. CASE RetainFails(t)
  BY <1>4, SMT DEF RetainFails, Returns, KeyInv, KeyTypeOK, Durable, Idle
<1> QED
  BY <1>1, <1>2, <1>3, <1>4

(* O_EXCL leaves a file that exists alone, and write_all never takes bytes *)
(* from a file that has them all: a stored key keeps its file.             *)
LEMMA Writes ==
    ASSUME KeyInv, NEW t \in KeyThread,
           open_key(t) \/ write_all(t) \/ sync_all(t) \/ sync_directory(t)
    PROVE  KeyInv'
<1> DEFINE k == call[t].key
<1>0. call[t].at # "idle" => k \in ReplayKey
  BY SMT DEF KeyInv, KeyTypeOK, Idle
<1>1. CASE open_key(t)
  <2>1. CASE file[k] = "absent" /\ file' = [file EXCEPT ![k] = "empty"] /\ Goes(t, "write", k)
    BY <1>0, <1>1, <2>1, SMT DEF open_key, Goes, KeyInv, KeyTypeOK, Durable, FileContent, Idle
  <2>2. CASE file[k] # "absent" /\ Returns(t) /\ UNCHANGED file
    BY <1>1, <2>2, SMT DEF open_key, Returns, KeyInv, KeyTypeOK, Durable, Idle
  <2> QED
    BY <1>1, <2>1, <2>2 DEF open_key
<1>2. CASE write_all(t)
  <2>1. CASE file[k] = "empty" /\ file' = [file EXCEPT ![k] = "part"] /\ UNCHANGED call
    BY <1>0, <1>2, <2>1, SMT DEF write_all, KeyInv, KeyTypeOK, Durable, FileContent, Idle
  <2>2. CASE file' = [file EXCEPT ![k] = "whole"] /\ Goes(t, "sync", k)
    BY <1>0, <1>2, <2>2, SMT DEF write_all, Goes, KeyInv, KeyTypeOK, Durable, FileContent, Idle
  <2> QED
    BY <1>2, <2>1, <2>2 DEF write_all
<1>3. CASE sync_all(t)
  BY <1>0, <1>3, SMT DEF sync_all, Goes, KeyInv, KeyTypeOK, Durable, Idle
<1>4. CASE sync_directory(t)
  <2>0. provider = "directory" /\ UNCHANGED provider
    BY <1>4, SMT DEF sync_directory, KeyInv, KeyTypeOK, Idle
  <2>1. \A j \in kept' : j = k => Durable(j)'
    BY <1>0, <1>4, SMT DEF sync_directory, KeyInv, KeyTypeOK, Durable
  <2>2. \A j \in kept : Durable(j)'
    BY <1>4, <2>0, SMT DEF sync_directory, KeyInv, KeyTypeOK, Durable
  <2> QED
    BY <1>0, <1>4, <2>0, <2>1, <2>2, SMT DEF sync_directory, Returns, KeyInv, KeyTypeOK, Idle
<1> QED
  BY <1>1, <1>2, <1>3, <1>4

(* A file with its bytes and its name on the disk survives a loss of power *)
(* as it is; the memory provider promises nothing beyond its process.      *)
LEMMA Failures ==
    ASSUME KeyInv, ProcessDies \/ PowerLoss
    PROVE  KeyInv'
<1>1. IsFiniteSet({}) /\ Cardinality({}) = 0
  BY FS_EmptySet
<1>2. Killed => keys' = {} /\ IsFiniteSet(keys') /\ Cardinality(keys') <= KeyCapacity
  BY <1>1, KeyAssumption, SMT DEF Killed
<1>3. CASE ProcessDies
  BY <1>2, <1>3, SMT DEF ProcessDies, Killed, KeyInv, KeyTypeOK, Durable, Idle
<1>4. CASE PowerLoss
  <2>1. file' \in [ReplayKey -> FileContent] /\ \A k \in ReplayKey : file'[k] \in Survives(k)
    BY <1>4 DEF PowerLoss
  <2>2. \A k \in ReplayKey : Durable(k) => Durable(k)'
    BY <1>4, <2>1, SMT DEF PowerLoss, Survives, Durable
  <2> QED
    BY <1>2, <1>4, <2>1, <2>2, SMT DEF PowerLoss, Killed, KeyInv, KeyTypeOK, Idle
<1> QED
  BY <1>3, <1>4

(* Every step of a thread and every failure preserves the invariant.       *)
LEMMA KeyStep == KeyInv /\ [KeyNext]_keyVars => KeyInv'
<1> SUFFICES ASSUME KeyInv, [KeyNext]_keyVars PROVE KeyInv'
  OBVIOUS
<1>1. CASE UNCHANGED keyVars
  BY <1>1, SMT DEF keyVars, KeyInv, KeyTypeOK, Durable
<1>2. CASE KeyNext
  BY <1>2, MemoryCalls, Looks, Writes, Failures DEF KeyNext
<1> QED
  BY <1>1, <1>2

(* Retained keys are recoverable: once retain has stored a key itself and  *)
(* returned Ok, no interleaving of calls, no failing system call, no kill  *)
(* and no loss of power makes resolve miss it.                             *)
THEOREM RetainedRecoverable == KeySpec => []KeysAreRecoverable
<1>1. KeyInv => KeysAreRecoverable
  BY SMT DEF KeyInv, KeyTypeOK, KeysAreRecoverable, Resolves, Durable
<1> QED
  BY <1>1, KeyInitially, KeyStep, PTL DEF KeySpec

-----------------------------------------------------------------------------
(* The budget ledger.  The units that clients hold are counted as pairs of *)
(* a client and a number, so that a reservation adds and a settlement      *)
(* takes away one block of them.                                           *)

LedgerInv == ReservedIsHeld /\ NoSilentOverrun

(* The units of one client.                                                *)
Block(c, n) == {c} \X (1 .. n)

LEMMA BlockSize ==
    ASSUME NEW c, NEW n \in Nat PROVE IsFiniteSet(Block(c, n)) /\ Cardinality(Block(c, n)) = n
<1>1. IsFiniteSet({c}) /\ Cardinality({c}) = 1
  BY FS_Singleton
<1>2. IsFiniteSet(1 .. n) /\ Cardinality(1 .. n) = n
  BY FS_Interval, SMT
<1>3. IsFiniteSet(Block(c, n)) /\ Cardinality(Block(c, n)) = Cardinality({c}) * Cardinality(1 .. n)
  BY <1>1, <1>2, FS_Product DEF Block
<1>4. QED
  BY <1>1, <1>2, <1>3, SMT

LEMMA HeldFinite == \A r : IsFiniteSet(HeldUnits(r)) /\ Cardinality(HeldUnits(r)) \in Nat
<1> SUFFICES ASSUME NEW r PROVE IsFiniteSet(HeldUnits(r)) /\ Cardinality(HeldUnits(r)) \in Nat
  OBVIOUS
<1>1. IsFiniteSet(Client) /\ IsFiniteSet(1 .. MaxValue)
  BY BudgetAssumption, FS_Interval, SMT
<1>2. IsFiniteSet(Client \X (1 .. MaxValue))
  BY <1>1, FS_Product
<1>3. HeldUnits(r) \in SUBSET (Client \X (1 .. MaxValue))
  BY DEF HeldUnits
<1>4. IsFiniteSet(HeldUnits(r))
  BY <1>2, <1>3, FS_Subset
<1>5. QED
  BY <1>4, FS_CardinalityType

(* A client takes n units, or gives up all it has.                         *)
LEMMA Taken ==
    ASSUME NEW c \in Client, NEW r, NEW n \in 0 .. MaxValue, held[c][r] = None, held'[c][r] = n,
           \A d \in Client : d # c => held'[d][r] = held[d][r]
    PROVE  Cardinality(HeldUnits(r)') = Cardinality(HeldUnits(r)) + n
<1>1. n \in Nat /\ MaxValue \in Nat
  BY BudgetAssumption, SMT
<1>2. HeldUnits(r)' = HeldUnits(r) \cup Block(c, n)
  BY <1>1, SMT DEF HeldUnits, Block, None
<1>3. HeldUnits(r) \cap Block(c, n) = {}
  BY <1>1, SMT DEF HeldUnits, Block, None
<1>4. QED
  BY <1>1, <1>2, <1>3, HeldFinite, BlockSize, FS_Union, FS_EmptySet, SMT

LEMMA Given ==
    ASSUME NEW c \in Client, NEW r, NEW n \in 0 .. MaxValue, held[c][r] = n, held'[c][r] = None,
           \A d \in Client : d # c => held'[d][r] = held[d][r]
    PROVE  /\ Cardinality(HeldUnits(r)') = Cardinality(HeldUnits(r)) - n
           /\ n <= Cardinality(HeldUnits(r))
<1>1. n \in Nat /\ MaxValue \in Nat
  BY BudgetAssumption, SMT
<1>2. HeldUnits(r) = HeldUnits(r)' \cup Block(c, n)
  BY <1>1, SMT DEF HeldUnits, Block, None
<1>3. HeldUnits(r)' \cap Block(c, n) = {}
  BY <1>1, SMT DEF HeldUnits, Block, None
<1>4. IsFiniteSet(HeldUnits(r)') /\ Cardinality(HeldUnits(r)') \in Nat
  <2>1. HeldUnits(r)' \in SUBSET HeldUnits(r)
    BY <1>2
  <2>2. QED
    BY <2>1, HeldFinite, FS_Subset, FS_CardinalityType
<1>5. Cardinality(HeldUnits(r)) = Cardinality(HeldUnits(r)') + n
  BY <1>1, <1>2, <1>3, <1>4, BlockSize, FS_Union, FS_EmptySet, SMT
<1>6. QED
  BY <1>1, <1>4, <1>5, SMT

(* A call that spends reservations takes their units from its client.      *)
LEMMA SpendGives ==
    ASSUME TypeOK, NEW c \in Client, NEW rs \in SUBSET Resource, Spend(c, rs)
    PROVE  /\ held' \in [Client -> [Resource -> Amount \cup {None}]]
           /\ paid_in' \in [Client -> Currency \cup {NoCurrency}]
           /\ \A r \in rs : /\ held[c][r] \in 0 .. MaxValue
                            /\ held[c][r] <= Cardinality(HeldUnits(r))
                            /\ Cardinality(HeldUnits(r)') = Cardinality(HeldUnits(r)) - held[c][r]
           /\ \A r \in Resource \ rs : HeldUnits(r)' = HeldUnits(r)
<1>1. /\ held \in [Client -> [Resource -> Amount \cup {None}]]
      /\ paid_in \in [Client -> Currency \cup {NoCurrency}] /\ Amount \subseteq 0 .. MaxValue
  BY BudgetAssumption DEF TypeOK
<1>2. PICK h : h = [r \in Resource |-> IF r \in rs THEN None ELSE held[c][r]]
  OBVIOUS
<1>3. held' = [held EXCEPT ![c] = h] /\ \A r \in rs : held[c][r] # None
  BY <1>1, <1>2, SMT DEF Spend
<1>4. h \in [Resource -> Amount \cup {None}]
  BY <1>1, <1>2
<1>5. held' \in [Client -> [Resource -> Amount \cup {None}]]
  BY <1>1, <1>3, <1>4
<1>6. paid_in' \in [Client -> Currency \cup {NoCurrency}]
  BY <1>1 DEF Spend
<1>7. held'[c] = h /\ \A d \in Client : d # c => held'[d] = held[d]
  BY <1>1, <1>3
<1>8. ASSUME NEW r \in rs
      PROVE  /\ held[c][r] \in 0 .. MaxValue
             /\ held[c][r] <= Cardinality(HeldUnits(r))
             /\ Cardinality(HeldUnits(r)') = Cardinality(HeldUnits(r)) - held[c][r]
  <2>1. r \in Resource /\ held'[c][r] = None
    BY <1>2, <1>7
  <2>2. PICK n : n = held[c][r]
    OBVIOUS
  <2>3. n \in 0 .. MaxValue
    <3>1. n \in Amount \cup {None}
      BY <1>1, <2>1, <2>2
    <3>3. n # None
      BY <1>3, <2>2
    <3>2. QED
      BY <1>1, <3>1, <3>3
  <2>4. QED
    BY <1>7, <2>1, <2>2, <2>3, Given
<1>9. ASSUME NEW r \in Resource \ rs PROVE HeldUnits(r)' = HeldUnits(r)
  <2>1. h[r] = held[c][r]
    BY <1>2
  <2>3. \A d \in Client : held'[d][r] = held[d][r]
    BY <1>7, <2>1
  <2>2. QED
    BY <2>3, SMT DEF HeldUnits
<1>10. QED
  BY <1>5, <1>6, <1>8, <1>9

(* The books balance when the reservations are taken off them,             *)
LEMMA Redeemed ==
    ASSUME ReservedIsHeld, NEW c \in Client, NEW rs \in SUBSET Resource, Spend(c, rs),
           reserved' = Left(c, rs), lost' = lost
    PROVE  /\ reserved' \in Counters
           /\ \A r \in Resource : /\ reserved'[r] = lost'[r] + Cardinality(HeldUnits(r)')
                                  /\ reserved'[r] <= reserved[r]
<1>1. /\ TypeOK /\ reserved \in Counters /\ lost \in Counters /\ MaxValue \in Nat
      /\ \A r \in Resource : reserved[r] = lost[r] + Cardinality(HeldUnits(r))
  BY BudgetAssumption DEF ReservedIsHeld, TypeOK
<1>2. ASSUME NEW r \in Resource
      PROVE  /\ reserved'[r] \in 0 .. MaxValue /\ reserved'[r] <= reserved[r]
             /\ reserved'[r] = lost'[r] + Cardinality(HeldUnits(r)')
  <2>1. /\ reserved[r] \in 0 .. MaxValue /\ lost[r] \in 0 .. MaxValue
        /\ reserved[r] = lost[r] + Cardinality(HeldUnits(r)) /\ Cardinality(HeldUnits(r)) \in Nat
    BY <1>1, HeldFinite DEF Counters
  <2>2. CASE r \in rs
    <3>1. PICK n : n = held[c][r]
      OBVIOUS
    <3>2. /\ n \in 0 .. MaxValue /\ n <= Cardinality(HeldUnits(r))
          /\ Cardinality(HeldUnits(r)') = Cardinality(HeldUnits(r)) - n
      BY <1>1, <2>2, <3>1, SpendGives
    <3>3. reserved'[r] = reserved[r] - n
      BY <2>2, <3>1 DEF Left
    <3>4. QED
      BY <1>1, <2>1, <3>2, <3>3, SMT
  <2>3. CASE r \notin rs
    <3>1. HeldUnits(r)' = HeldUnits(r)
      BY <1>1, <2>3, SpendGives
    <3>2. reserved'[r] = reserved[r]
      BY <2>3 DEF Left
    <3>3. QED
      BY <1>1, <2>1, <3>1, <3>2, SMT
  <2>4. QED
    BY <2>2, <2>3
<1>3. reserved' \in Counters
  BY <1>2 DEF Left, Counters
<1>4. QED
  BY <1>2, <1>3

(* and when a refusal leaves them there.                                   *)
LEMMA RefusedBalances ==
    ASSUME ReservedIsHeld, NEW c \in Client, NEW rs \in SUBSET Resource, Spend(c, rs),
           Refused(c, rs)
    PROVE  /\ lost' \in Counters
           /\ \A r \in Resource : reserved'[r] = lost'[r] + Cardinality(HeldUnits(r)')
<1>1. /\ TypeOK /\ reserved \in Counters /\ lost \in Counters /\ MaxValue \in Nat
      /\ \A r \in Resource : reserved[r] = lost[r] + Cardinality(HeldUnits(r))
  BY BudgetAssumption DEF ReservedIsHeld, TypeOK
<1>2. ASSUME NEW r \in Resource
      PROVE  /\ lost'[r] \in 0 .. MaxValue
             /\ reserved'[r] = lost'[r] + Cardinality(HeldUnits(r)')
  <2>1. /\ reserved[r] \in 0 .. MaxValue /\ lost[r] \in 0 .. MaxValue /\ reserved' = reserved
        /\ reserved[r] = lost[r] + Cardinality(HeldUnits(r)) /\ Cardinality(HeldUnits(r)) \in Nat
    BY <1>1, HeldFinite DEF Counters, Refused
  <2>2. CASE r \in rs
    <3>1. PICK n : n = held[c][r]
      OBVIOUS
    <3>2. /\ n \in 0 .. MaxValue /\ n <= Cardinality(HeldUnits(r))
          /\ Cardinality(HeldUnits(r)') = Cardinality(HeldUnits(r)) - n
      BY <1>1, <2>2, <3>1, SpendGives
    <3>3. lost'[r] = lost[r] + n
      BY <2>2, <3>1 DEF Refused
    <3>4. QED
      BY <1>1, <2>1, <3>2, <3>3, SMT
  <2>3. CASE r \notin rs
    <3>1. HeldUnits(r)' = HeldUnits(r)
      BY <1>1, <2>3, SpendGives
    <3>2. lost'[r] = lost[r]
      BY <2>3 DEF Refused
    <3>3. QED
      BY <1>1, <2>1, <3>1, <3>2, SMT
  <2>4. QED
    BY <2>2, <2>3
<1>3. lost' \in Counters
  BY <1>2 DEF Refused, Counters
<1>4. QED
  BY <1>2, <1>3

(* Limits are only ever tightened.                                         *)
LEMMA MinimumLimit ==
    ASSUME NEW a \in Limit \cup {None}, NEW b \in Limit \cup {None}
    PROVE  /\ minimum_limit(a, b) \in Limit \cup {None}
           /\ a # None => minimum_limit(a, b) # None /\ minimum_limit(a, b) <= a
           /\ minimum_limit(a, b) = None <=> a = None /\ b = None
<1>1. Limit \subseteq 0 .. MaxValue /\ MaxValue \in Nat
  BY BudgetAssumption
<1>2. QED
  BY <1>1, SMT DEF minimum_limit, None

LEMMA StricterBudget ==
    ASSUME NEW a \in Budget, NEW b \in Budget, Compatible(a, b)
    PROVE  stricter_budget_limits(a, b) \in Budget
<1>1. /\ a.tokens \in Limit \cup {None} /\ b.tokens \in Limit \cup {None}
      /\ a.cost \in Limit \cup {None} /\ b.cost \in Limit \cup {None}
      /\ a.currency \in Currency \cup {NoCurrency} /\ b.currency \in Currency \cup {NoCurrency}
      /\ (a.cost = None) <=> (a.currency = NoCurrency)
      /\ (b.cost = None) <=> (b.currency = NoCurrency)
  BY SMT DEF Budget
<1>2. PICK t, k, n : /\ t = minimum_limit(a.tokens, b.tokens) /\ k = minimum_limit(a.cost, b.cost)
                     /\ n = IF a.currency = NoCurrency THEN b.currency ELSE a.currency
  OBVIOUS
<1>3. /\ t \in Limit \cup {None} /\ k \in Limit \cup {None}
      /\ k = None <=> a.cost = None /\ b.cost = None
  BY <1>1, <1>2, MinimumLimit
<1>4. n \in Currency \cup {NoCurrency} /\ (k = None <=> n = NoCurrency)
  BY <1>1, <1>2, <1>3
<1>5. stricter_budget_limits(a, b) = [tokens |-> t, cost |-> k, currency |-> n]
  BY <1>2 DEF stricter_budget_limits
<1>6. QED
  BY <1>3, <1>4, <1>5, SMT DEF Budget

LEMMA BudgetLimits ==
    ASSUME NEW b \in Budget, NEW r \in Resource PROVE b[r] \in Limit \cup {None}
BY SMT DEF Budget, Resource

(* Where a run has a limit, so has every view of it, and none beyond it.   *)
LEMMA ViewLimit ==
    ASSUME TypeOK, NEW c \in Client, NEW r \in Resource, ledger[r] # None,
           NEW total \in Nat, ~Exceeds(total, LimitFor(c, r))
    PROVE  total <= ledger[r] /\ LimitFor(c, r) # None
<1>1. ledger[r] \in Limit \cup {None} /\ view[c][r] \in Limit \cup {None}
  BY BudgetLimits DEF TypeOK
<1>2. PICK m : m = LimitFor(c, r)
  OBVIOUS
<1>3. m # None /\ m <= ledger[r] /\ m \in Limit \cup {None}
  BY <1>1, <1>2, MinimumLimit DEF LimitFor
<1>4. ledger[r] \in Nat /\ m \in Nat
  <2>1. \A x \in Limit : x \in Nat
    BY BudgetAssumption, SMT
  <2>2. QED
    BY <1>1, <1>3, <2>1
<1>5. total <= m
  BY <1>2, <1>3, <1>4, SMT DEF Exceeds
<1>6. QED
  BY <1>2, <1>3, <1>4, <1>5, SMT

(* What every call leaves of the limits and the history.                   *)
LEMMA LedgerFrame ==
    ASSUME LedgerInv, reserved' \in Counters, consumed' \in Counters, lost' \in Counters,
           held' \in [Client -> [Resource -> Amount \cup {None}]],
           paid_in' \in [Client -> Currency \cup {NoCurrency}],
           UNCHANGED <<ledger, view, inherited>>, reported \subseteq reported',
           reported' \subseteq Resource,
           \A r \in Resource : reserved'[r] = lost'[r] + Cardinality(HeldUnits(r)'),
           \A r \in Resource : ledger[r] # None =>
               \/ r \in reported'
               \/ consumed'[r] + reserved'[r] <= ledger[r]
               \/ consumed'[r] + reserved'[r] <= consumed[r] + reserved[r]
    PROVE  LedgerInv'
<1>1. TypeOK'
  BY DEF LedgerInv, ReservedIsHeld, TypeOK
<1>2. ASSUME NEW r \in Resource, ledger'[r] # None, Used(r)' > ledger'[r]
      PROVE  r \in reported' \/ Used(r)' <= inherited'[r]
  <2>1. PICK a, b, k, i : /\ a = consumed[r] + reserved[r] /\ b = consumed'[r] + reserved'[r]
                          /\ k = ledger[r] /\ i = inherited[r]
    OBVIOUS
  <2>2. k \in Nat
    <3>1. k \in Limit \cup {None} /\ k # None
      BY <1>2, <2>1, BudgetLimits DEF LedgerInv, ReservedIsHeld, TypeOK
    <3>2. QED
      BY <3>1, BudgetAssumption, SMT
  <2>3. a \in Nat /\ b \in Nat /\ i \in Nat
    <3>1. /\ consumed[r] \in 0 .. MaxValue /\ reserved[r] \in 0 .. MaxValue
          /\ consumed'[r] \in 0 .. MaxValue /\ reserved'[r] \in 0 .. MaxValue
          /\ inherited[r] \in 0 .. MaxValue
      BY DEF LedgerInv, ReservedIsHeld, TypeOK, Counters
    <3>2. QED
      BY <2>1, <3>1, BudgetAssumption, SMT
  <2>4. a > k => r \in reported \/ a <= i
    BY <1>2, <2>1 DEF LedgerInv, NoSilentOverrun, Used
  <2>5. b > k /\ (r \in reported' \/ b <= k \/ b <= a)
    BY <1>2, <2>1 DEF Used
  <2>6. r \in reported' \/ b <= i
    BY <2>2, <2>3, <2>4, <2>5, SMT
  <2>7. QED
    BY <2>1, <2>6 DEF Used
<1>3. QED
  BY <1>1, <1>2 DEF LedgerInv, ReservedIsHeld, NoSilentOverrun

LEMMA ReserveKeeps ==
    ASSUME LedgerInv, NEW c \in Client, NEW r \in Resource, NEW n \in Amount,
           NEW cur \in Currency \cup {NoCurrency}, Reserve(c, r, n, cur)
    PROVE  LedgerInv'
<1>1. /\ TypeOK /\ reserved \in Counters /\ consumed \in Counters /\ lost \in Counters
      /\ held \in [Client -> [Resource -> Amount \cup {None}]]
      /\ paid_in \in [Client -> Currency \cup {NoCurrency}]
      /\ \A q \in Resource : reserved[q] = lost[q] + Cardinality(HeldUnits(q))
      /\ MaxValue \in Nat /\ n \in 0 .. MaxValue
  BY BudgetAssumption DEF LedgerInv, ReservedIsHeld, TypeOK
<1>2. PICK h : h = [held[c] EXCEPT ![r] = n]
  OBVIOUS
<1>3. /\ held' = [held EXCEPT ![c] = h] /\ held[c][r] = None
      /\ reserved' = [reserved EXCEPT ![r] = reserved[r] + n]
      /\ ~Exceeds(Used(r) + n, LimitFor(c, r))
      /\ UNCHANGED <<ledger, consumed, view, lost, reported, inherited>>
  BY <1>2 DEF Reserve
<1>4. h \in [Resource -> Amount \cup {None}] /\ h[r] = n /\ \A q \in Resource : q # r => h[q] = held[c][q]
  BY <1>1, <1>2
<1>5. /\ held' \in [Client -> [Resource -> Amount \cup {None}]]
      /\ held'[c] = h /\ \A d \in Client : d # c => held'[d] = held[d]
  BY <1>1, <1>3, <1>4
<1>6. paid_in' \in [Client -> Currency \cup {NoCurrency}]
  BY <1>1 DEF Reserve
<1>7. PICK a, b : a = consumed[r] /\ b = reserved[r]
  OBVIOUS
<1>8. a \in 0 .. MaxValue /\ b \in 0 .. MaxValue
  BY <1>1, <1>7 DEF Counters
<1>9. a + b + n <= MaxValue
  BY <1>1, <1>3, <1>7, <1>8, SMT DEF Exceeds, Used
<1>10. reserved' \in Counters /\ reserved'[r] = b + n /\ \A q \in Resource : q # r => reserved'[q] = reserved[q]
  <2>1. b + n \in 0 .. MaxValue
    BY <1>1, <1>8, <1>9, SMT
  <2>2. QED
    BY <1>1, <1>3, <1>7, <2>1 DEF Counters
<1>11. ASSUME NEW q \in Resource PROVE reserved'[q] = lost'[q] + Cardinality(HeldUnits(q)')
  <2>1. CASE q = r
    <3>4. /\ n \in 0 .. MaxValue /\ held[c][r] = None /\ held'[c][r] = n
          /\ \A d \in Client : d # c => held'[d][r] = held[d][r]
      BY <1>1, <1>3, <1>4, <1>5
    <3>1. Cardinality(HeldUnits(r)') = Cardinality(HeldUnits(r)) + n
      BY ONLY c \in Client, <3>4, Taken
    <3>2. lost[r] \in 0 .. MaxValue /\ Cardinality(HeldUnits(r)) \in Nat /\ lost' = lost
          /\ b = lost[r] + Cardinality(HeldUnits(r))
      BY <1>1, <1>3, <1>7, HeldFinite DEF Counters
    <3>3. QED
      BY <1>1, <1>10, <2>1, <3>1, <3>2, SMT
  <2>2. CASE q # r
    <3>1. \A d \in Client : held'[d][q] = held[d][q]
      BY <1>4, <1>5, <2>2
    <3>2. HeldUnits(q)' = HeldUnits(q)
      BY <3>1, SMT DEF HeldUnits
    <3>3. QED
      BY <1>1, <1>3, <1>10, <2>2, <3>2
  <2>3. QED
    BY <2>1, <2>2
<1>12. ASSUME NEW q \in Resource, ledger[q] # None
       PROVE  \/ consumed'[q] + reserved'[q] <= ledger[q]
              \/ consumed'[q] + reserved'[q] <= consumed[q] + reserved[q]
  <2>1. CASE q = r
    <3>1. a + b + n \in Nat /\ Used(r) + n = a + b + n /\ a + b + n = a + (b + n)
      BY <1>1, <1>7, <1>8, SMT DEF Used
    <3>2. a + b + n <= ledger[r]
      BY <1>1, <1>3, <1>12, <2>1, <3>1, ViewLimit
    <3>3. QED
      BY <1>3, <1>7, <1>10, <2>1, <3>1, <3>2
  <2>2. CASE q # r
    <3>1. consumed[q] \in 0 .. MaxValue /\ reserved[q] \in 0 .. MaxValue
      BY <1>1 DEF Counters
    <3>2. QED
      BY <1>1, <1>3, <1>10, <2>2, <3>1, SMT
  <2>3. QED
    BY <2>1, <2>2
<1>13. QED
  BY <1>1, <1>3, <1>5, <1>6, <1>10, <1>11, <1>12, LedgerFrame DEF TypeOK

(* A refused call changes nothing but who holds what.                      *)
LEMMA RefusalKeeps ==
    ASSUME LedgerInv, NEW c \in Client, NEW rs \in SUBSET Resource, Spend(c, rs), Refused(c, rs),
           reported \subseteq reported', reported' \subseteq Resource
    PROVE  LedgerInv'
<1>1. ReservedIsHeld /\ TypeOK /\ reserved \in Counters /\ consumed \in Counters
  BY DEF LedgerInv, ReservedIsHeld, TypeOK
<1>2. UNCHANGED <<ledger, view, inherited>> /\ UNCHANGED <<reserved, consumed>>
  BY DEF Spend, Refused
<1>3. /\ held' \in [Client -> [Resource -> Amount \cup {None}]]
      /\ paid_in' \in [Client -> Currency \cup {NoCurrency}]
  BY <1>1, SpendGives
<1>4. /\ lost' \in Counters
      /\ \A r \in Resource : reserved'[r] = lost'[r] + Cardinality(HeldUnits(r)')
  BY <1>1, RefusedBalances
<1>5. \A r \in Resource : consumed'[r] + reserved'[r] <= consumed[r] + reserved[r]
  <2>1. \A r \in Resource : consumed[r] \in Nat /\ reserved[r] \in Nat
    BY <1>1, BudgetAssumption, SMT DEF Counters
  <2>2. QED
    BY <1>2, <2>1, SMT
<1>6. QED
  BY <1>1, <1>2, <1>3, <1>4, <1>5, LedgerFrame

(* What is left to check of a call that takes reservations off the books:  *)
(* what it books, and that it reports what goes beyond the limit.          *)
LEMMA RedeemKeeps ==
    ASSUME LedgerInv, NEW c \in Client, NEW rs \in SUBSET Resource, Spend(c, rs),
           reserved' = Left(c, rs), lost' = lost, consumed' \in Counters,
           reported \subseteq reported', reported' \subseteq Resource,
           \A r \in Resource : ledger[r] # None =>
               \/ r \in reported'
               \/ consumed'[r] + reserved'[r] <= ledger[r]
               \/ consumed'[r] = consumed[r]
    PROVE  LedgerInv'
<1>1. /\ ReservedIsHeld /\ TypeOK /\ reserved \in Counters /\ consumed \in Counters
      /\ lost' \in Counters
  BY DEF LedgerInv, ReservedIsHeld, TypeOK
<1>2. UNCHANGED <<ledger, view, inherited>>
  BY DEF Spend
<1>3. /\ held' \in [Client -> [Resource -> Amount \cup {None}]]
      /\ paid_in' \in [Client -> Currency \cup {NoCurrency}]
  BY <1>1, SpendGives
<1>4. /\ reserved' \in Counters
      /\ \A r \in Resource : /\ reserved'[r] = lost'[r] + Cardinality(HeldUnits(r)')
                             /\ reserved'[r] <= reserved[r]
  BY <1>1, Redeemed
<1>5. \A r \in Resource : consumed'[r] = consumed[r] =>
          consumed'[r] + reserved'[r] <= consumed[r] + reserved[r]
  <2>1. \A r \in Resource : consumed[r] \in Nat /\ reserved[r] \in Nat /\ reserved'[r] \in Nat
    BY <1>1, <1>4, BudgetAssumption, SMT DEF Counters
  <2>2. QED
    BY <1>4, <2>1, SMT
<1>6. QED
  BY <1>1, <1>2, <1>3, <1>4, <1>5, LedgerFrame

LEMMA SettleKeeps ==
    ASSUME LedgerInv, NEW c \in Client, NEW r \in Resource, NEW n \in Amount, Settle(c, r, n)
    PROVE  LedgerInv'
<1>0. /\ ReservedIsHeld /\ TypeOK /\ reserved \in Counters /\ consumed \in Counters
      /\ reported \subseteq Resource /\ MaxValue \in Nat /\ n \in 0 .. MaxValue
  BY BudgetAssumption DEF LedgerInv, ReservedIsHeld, TypeOK
<1>1. PICK next, over : /\ next = consumed[r] + n
                        /\ over = (next > MaxValue \/ Exceeds(next + Left(c, {r})[r], LimitFor(c, r)))
  OBVIOUS
<1>2. Spend(c, {r}) /\ {r} \in SUBSET Resource
  BY DEF Settle
<1>3. CASE Refused(c, {r}) /\ UNCHANGED reported
  <2>1. reported \subseteq reported' /\ reported' \subseteq Resource
    BY <1>0, <1>3
  <2>2. QED
    BY <1>2, <1>3, <2>1, RefusalKeeps
<1>4. CASE /\ reserved' = Left(c, {r}) /\ lost' = lost
           /\ consumed' = [consumed EXCEPT ![r] = IF next > MaxValue THEN consumed[r] ELSE next]
           /\ reported' = IF over THEN reported \cup {r} ELSE reported
  <2>1. consumed[r] \in 0 .. MaxValue /\ next \in Nat
    BY <1>0, <1>1, SMT DEF Counters
  <2>2. PICK v : v = IF next > MaxValue THEN consumed[r] ELSE next
    OBVIOUS
  <2>3. v \in 0 .. MaxValue
    BY <1>0, <2>1, <2>2, SMT
  <2>4. consumed' = [consumed EXCEPT ![r] = v]
    BY <1>4, <2>2
  <2>5. consumed' \in Counters /\ consumed'[r] = v /\ \A q \in Resource : q # r => consumed'[q] = consumed[q]
    BY <1>0, <2>3, <2>4 DEF Counters
  <2>6. reported \subseteq reported' /\ reported' \subseteq Resource
    BY <1>0, <1>4
  <2>7. ASSUME ledger[r] # None, r \notin reported'
        PROVE  consumed'[r] + reserved'[r] <= ledger[r]
    <3>1. ~over
      BY <1>4, <2>7
    <3>2. PICK b : b = reserved'[r]
      OBVIOUS
    <3>3. b \in Nat
      <4>1. reserved' \in Counters
        BY <1>0, <1>2, <1>4, Redeemed
      <4>2. QED
        BY <1>0, <3>2, <4>1, SMT DEF Counters
    <3>4. ~(next > MaxValue) /\ ~Exceeds(next + b, LimitFor(c, r)) /\ next + b \in Nat
      <4>1. next + b \in Nat
        BY <2>1, <3>3, SMT
      <4>2. QED
        BY <1>1, <1>4, <3>1, <3>2, <4>1
    <3>5. next + b <= ledger[r]
      BY <1>0, <2>7, <3>4, ViewLimit
    <3>6. v = next
      BY <2>2, <3>4
    <3>7. QED
      BY <2>5, <3>2, <3>5, <3>6
  <2>8. QED
    BY <1>2, <1>4, <2>5, <2>6, <2>7, RedeemKeeps
<1>5. QED
  BY <1>1, <1>3, <1>4 DEF Settle

LEMMA ReleaseKeeps ==
    ASSUME LedgerInv, NEW c \in Client, NEW rs \in SUBSET Resource, Release(c, rs)
    PROVE  LedgerInv'
<1>1. /\ Spend(c, rs) /\ reported' = reported /\ reported \subseteq Resource
      /\ consumed \in Counters
  BY DEF Release, LedgerInv, ReservedIsHeld, TypeOK
<1>2. CASE reserved' = Left(c, rs) /\ UNCHANGED <<consumed, lost>>
  BY <1>1, <1>2, RedeemKeeps
<1>3. CASE Refused(c, rs)
  BY <1>1, <1>3, RefusalKeeps
<1>4. QED
  BY <1>2, <1>3 DEF Release

LEMMA SettleUsageKeeps ==
    ASSUME LedgerInv, NEW c \in Client, NEW rs \in SUBSET Resource, NEW n \in [rs -> Amount],
           SettleUsage(c, rs, n)
    PROVE  LedgerInv'
<1>0. /\ ReservedIsHeld /\ TypeOK /\ reserved \in Counters /\ consumed \in Counters
      /\ reported \subseteq Resource /\ MaxValue \in Nat /\ \A r \in rs : n[r] \in 0 .. MaxValue
  BY BudgetAssumption DEF LedgerInv, ReservedIsHeld, TypeOK
<1>1. PICK over : over = {r \in rs :
                    \/ consumed[r] + n[r] > MaxValue
                    \/ /\ LimitFor(c, r) # None
                       /\ Exceeds(consumed[r] + n[r] + Left(c, rs)[r], LimitFor(c, r))}
  OBVIOUS
<1>2. PICK fails : /\ fails = (IF "tokens" \in over THEN {"tokens"}
                               ELSE IF Redeemable(c, rs) THEN over ELSE {})
                   /\ Spend(c, rs) /\ reported' = reported \cup fails
                   /\ \/ /\ over = {} /\ Redeemable(c, rs)
                         /\ reserved' = Left(c, rs)
                         /\ consumed' = Plus(consumed, n, rs)
                         /\ UNCHANGED lost
                      \/ (over # {} \/ ~Redeemable(c, rs)) /\ Refused(c, rs)
  BY <1>1 DEF SettleUsage
<1>3. over \subseteq Resource
  BY <1>1
<1>4. reported \subseteq reported' /\ reported' \subseteq Resource
  BY <1>0, <1>2, <1>3 DEF Resource
<1>5. CASE Refused(c, rs)
  BY <1>2, <1>4, <1>5, RefusalKeeps
<1>6. CASE over = {} /\ reserved' = Left(c, rs) /\ consumed' = Plus(consumed, n, rs) /\ lost' = lost
  <2>1. reserved' \in Counters
    BY <1>0, <1>2, <1>6, Redeemed
  <2>2. ASSUME NEW r \in rs
        PROVE  /\ consumed'[r] \in 0 .. MaxValue
               /\ ledger[r] # None => consumed'[r] + reserved'[r] <= ledger[r]
    <3>1. PICK a, b, k : a = consumed[r] /\ b = reserved'[r] /\ k = n[r] /\ r \in Resource
      OBVIOUS
    <3>2. a \in 0 .. MaxValue /\ b \in 0 .. MaxValue /\ k \in 0 .. MaxValue
      BY <1>0, <2>1, <3>1 DEF Counters
    <3>3. a + k \in Nat /\ a + k + b \in Nat
      BY <1>0, <3>2, SMT
    <3>4. r \notin over
      BY <1>6
    <3>5. ~(a + k > MaxValue) /\ (LimitFor(c, r) # None => ~Exceeds(a + k + b, LimitFor(c, r)))
      BY <1>1, <1>6, <3>1, <3>4
    <3>6. consumed'[r] = a + k
      BY <1>6, <3>1 DEF Plus
    <3>7. a + k \in 0 .. MaxValue
      BY <1>0, <3>3, <3>5, SMT
    <3>8. ASSUME ledger[r] # None PROVE a + k + b <= ledger[r]
      <4>1. LimitFor(c, r) # None
        <5>1. ledger[r] \in Limit \cup {None} /\ view[c][r] \in Limit \cup {None}
          BY <1>0, <3>1, BudgetLimits DEF TypeOK
        <5>2. QED
          BY <3>8, <5>1, MinimumLimit DEF LimitFor
      <4>2. QED
        BY <1>0, <3>1, <3>3, <3>5, <3>8, <4>1, ViewLimit
    <3>9. QED
      BY <3>1, <3>6, <3>7, <3>8
  <2>3. \A r \in Resource \ rs : consumed'[r] = consumed[r] /\ consumed'[r] \in 0 .. MaxValue
    BY <1>0, <1>6 DEF Plus, Counters
  <2>4. consumed' \in Counters
    BY <1>6, <2>2, <2>3 DEF Plus, Counters
  <2>5. QED
    BY <1>2, <1>4, <1>6, <2>2, <2>3, <2>4, RedeemKeeps
<1>7. QED
  BY <1>2, <1>5, <1>6

LEMMA WithLimitsKeeps ==
    ASSUME LedgerInv, NEW c \in Client, NEW b \in Offered, WithLimits(c, b)
    PROVE  LedgerInv'
<1>1. TypeOK /\ view \in [Client -> Budget] /\ b \in Budget
  BY BudgetAssumption DEF LedgerInv, ReservedIsHeld, TypeOK
<1>2. PICK w : w = stricter_budget_limits(view[c], b)
  OBVIOUS
<1>3. /\ view' = [view EXCEPT ![c] = w] /\ Compatible(view[c], b)
      /\ UNCHANGED <<ledger, reserved, consumed, held, paid_in, lost, reported, inherited>>
  BY <1>2 DEF WithLimits
<1>4. w \in Budget
  BY <1>1, <1>2, <1>3, StricterBudget
<1>5. view' \in [Client -> Budget]
  BY <1>1, <1>3, <1>4
<1>6. \A r : HeldUnits(r)' = HeldUnits(r)
  BY <1>3 DEF HeldUnits
<1>7. QED
  BY <1>3, <1>5, <1>6 DEF LedgerInv, ReservedIsHeld, NoSilentOverrun, TypeOK, Used

(* A ledger that was restored starts with nothing held and what it         *)
(* inherited on its books.                                                 *)
LEMMA RestoredKeeps ==
    ASSUME LedgerInv, NEW b \in Budget, Restored(b, reserved, consumed)
    PROVE  LedgerInv'
<1>1. reserved \in Counters /\ consumed \in Counters /\ MaxValue \in Nat
  BY BudgetAssumption DEF LedgerInv, ReservedIsHeld, TypeOK
<1>2. /\ ledger' = b /\ reserved' = reserved /\ consumed' = consumed /\ view' = [c \in Client |-> b]
      /\ held' = [c \in Client |-> NothingHeld] /\ paid_in' = [c \in Client |-> NoCurrency]
      /\ lost' = reserved /\ reported' = {}
      /\ inherited' = [r \in Resource |-> reserved[r] + consumed[r]]
      /\ \A r \in Resource : reserved[r] + consumed[r] <= MaxValue
  BY DEF Restored
<1>3. \A r \in Resource : reserved[r] \in 0 .. MaxValue /\ consumed[r] \in 0 .. MaxValue
  BY <1>1 DEF Counters
<1>4. \A r \in Resource : reserved[r] + consumed[r] \in 0 .. MaxValue
  BY <1>1, <1>2, <1>3, SMT
<1>5. inherited' \in Counters
  BY <1>2, <1>4 DEF Counters
<1>6. NothingHeld \in [Resource -> Amount \cup {None}]
  BY DEF NothingHeld
<1>7. TypeOK'
  BY <1>1, <1>2, <1>5, <1>6 DEF TypeOK
<1>8. ASSUME NEW r \in Resource PROVE HeldUnits(r)' = {}
  <2>1. \A c \in Client : held'[c][r] = None
    BY <1>2 DEF NothingHeld
  <2>2. \A c \in Client, i \in 1 .. MaxValue : ~(i <= held'[c][r])
    BY <1>1, <2>1, SMT DEF None
  <2>3. QED
    BY <2>2, SMT DEF HeldUnits
<1>9. ASSUME NEW r \in Resource PROVE reserved'[r] = lost'[r] + Cardinality(HeldUnits(r)')
  <2>1. Cardinality(HeldUnits(r)') = 0
    BY <1>8, FS_EmptySet
  <2>2. QED
    BY <1>1, <1>2, <1>3, <2>1, SMT
<1>10. ASSUME NEW r \in Resource PROVE Used(r)' <= inherited'[r]
  <2>1. inherited'[r] = reserved[r] + consumed[r] /\ Used(r)' = consumed[r] + reserved[r]
    BY <1>2 DEF Used
  <2>2. QED
    BY <1>1, <1>3, <2>1, SMT
<1>11. QED
  BY <1>7, <1>9, <1>10 DEF LedgerInv, ReservedIsHeld, NoSilentOverrun

LEMMA LedgerInitially == Init => LedgerInv
<1> SUFFICES ASSUME Init PROVE LedgerInv
  OBVIOUS
<1>1. MaxValue \in Nat /\ 0 \in 0 .. MaxValue /\ Limit \subseteq 0 .. MaxValue
  BY BudgetAssumption, SMT
<1>2. Zero \in Counters /\ \A r \in Resource : Zero[r] = 0
  BY <1>1 DEF Zero, Counters
<1>3. NothingHeld \in [Resource -> Amount \cup {None}]
  BY DEF NothingHeld
<1>4. ledger \in Budget
  BY BudgetAssumption DEF Init
<1>5. TypeOK
  BY <1>2, <1>3, <1>4 DEF Init, TypeOK
<1>6. ASSUME NEW r \in Resource PROVE reserved[r] = lost[r] + Cardinality(HeldUnits(r))
  <2>1. \A c \in Client : held[c][r] = None
    BY DEF Init, NothingHeld
  <2>2. \A c \in Client, i \in 1 .. MaxValue : ~(i <= held[c][r])
    BY <1>1, <2>1, SMT DEF None
  <2>3. HeldUnits(r) = {}
    BY <2>2, SMT DEF HeldUnits
  <2>4. Cardinality(HeldUnits(r)) = 0
    BY <2>3, FS_EmptySet
  <2>5. reserved[r] = 0 /\ lost[r] = 0
    BY <1>2 DEF Init
  <2>6. QED
    BY <2>4, <2>5, SMT
<1>7. ASSUME NEW r \in Resource PROVE Used(r) <= inherited[r]
  <2>1. consumed[r] = 0 /\ reserved[r] = 0 /\ inherited[r] = 0
    BY <1>2 DEF Init
  <2>2. QED
    BY <2>1, SMT DEF Used
<1>8. QED
  BY <1>5, <1>6, <1>7 DEF LedgerInv, ReservedIsHeld, NoSilentOverrun

(* Every call on a view and every restart preserves it.                    *)
LEMMA LedgerStep == LedgerInv /\ [Next]_vars => LedgerInv'
<1> SUFFICES ASSUME LedgerInv, [Next]_vars PROVE LedgerInv'
  OBVIOUS
<1>1. ASSUME NEW c \in Client, ClientNext(c) PROVE LedgerInv'
  <2>1. ASSUME NEW n \in Amount, Reserve(c, "tokens", n, NoCurrency) PROVE LedgerInv'
    BY <2>1, ReserveKeeps DEF Resource
  <2>2. ASSUME NEW n \in Amount, NEW cur \in Currency, Reserve(c, "cost", n, cur) PROVE LedgerInv'
    BY <2>2, ReserveKeeps DEF Resource
  <2>3. ASSUME NEW b \in Offered, ResumeUnder(c, b) PROVE LedgerInv'
    <3>1. view[c] \in Budget /\ b \in Budget
      BY BudgetAssumption DEF LedgerInv, ReservedIsHeld, TypeOK
    <3>2. stricter_budget_limits(view[c], b) \in Budget
      BY <2>3, <3>1, StricterBudget DEF ResumeUnder
    <3>3. QED
      BY <2>3, <3>2, RestoredKeeps DEF ResumeUnder
  <2>4. QED
    BY <1>1, <2>1, <2>2, <2>3, SettleKeeps, ReleaseKeeps, SettleUsageKeeps, WithLimitsKeeps
    DEF ClientNext
<1>2. ASSUME NEW b \in Offered, Restore(b) PROVE LedgerInv'
  <2>1. b \in Budget
    BY BudgetAssumption
  <2>2. QED
    BY <1>2, <2>1, RestoredKeeps DEF Restore
<1>3. ASSUME UNCHANGED vars PROVE LedgerInv'
  <2>1. UNCHANGED <<ledger, reserved, consumed, view, held, paid_in, lost, reported, inherited>>
    BY <1>3 DEF vars
  <2>2. \A r : HeldUnits(r)' = HeldUnits(r)
    BY <2>1 DEF HeldUnits
  <2>3. QED
    BY <2>1, <2>2 DEF LedgerInv, ReservedIsHeld, NoSilentOverrun, TypeOK, Used
<1>4. QED
  BY <1>1, <1>2, <1>3 DEF Next

(* However calls on views, refusals, restores and resumptions follow each  *)
(* other: every unit in reserved_tokens and reserved_cost_micros is held   *)
(* by a client or was left behind, so no settlement finds less on the      *)
(* books than its reservation.                                             *)
THEOREM ReservationsAreHeld == Spec => []ReservedIsHeld
<1>1. LedgerInv => ReservedIsHeld
  BY DEF LedgerInv
<1>2. QED
  BY <1>1, LedgerInitially, LedgerStep, PTL DEF Spec

(* The ledger goes beyond the run's limit only with a settlement that      *)
(* reports it, or by having been that full when it was restored.           *)
THEOREM OverrunsAreReported == Spec => []NoSilentOverrun
<1>1. LedgerInv => NoSilentOverrun
  BY DEF LedgerInv
<1>2. QED
  BY <1>1, LedgerInitially, LedgerStep, PTL DEF Spec

-----------------------------------------------------------------------------
(* The pass manager.  The list of what is still to do carries the units to *)
(* restore, so the strengthening says where the list leads: every result   *)
(* in it is taken under the unit of its pass, and its end under no unit.   *)
(* What may be on the list of what is to do.                               *)
Units == Unit \cup {NoUnit}
Item == Steps \cup [kind : {"unit"}, unit : Units]
              \cup [kind : {"result"}, pass : DOMAIN Passes, unit : Units]
              \cup [kind : {"loop"}, units : Seq(Unit), steps : Seq(Steps), unit : Units]

ItemOK(x) ==
    /\ x.kind \in {"pass", "group", "foreach", "loop", "unit", "result"}
    /\ x.kind \in {"pass", "result"} => x.pass \in DOMAIN Passes
    /\ x.kind \in {"group", "foreach", "loop"} => x.steps \in Seq(Steps)
    /\ x.kind = "loop" => x.units \in Seq(Unit)
    /\ x.kind \in {"unit", "loop", "result"} => x.unit \in Units

(* An item that sets the unit, and the unit v that is in force when the    *)
(* items of q before the i-th are done, if u is the unit now.              *)
Sets(x) == x.kind \in {"unit", "loop"}
InForce(u, q, i, v) ==
    \/ v = u /\ \A j \in 1 .. i - 1 : ~Sets(q[j])
    \/ \E j \in 1 .. i - 1 : Sets(q[j]) /\ q[j].unit = v /\ \A k \in j + 1 .. i - 1 : ~Sets(q[k])

(* The items q lead from the unit u to the unit v, and every result among  *)
(* them is taken in the unit for which its pass was run.                   *)
Leads(u, q, v) ==
    /\ q \in Seq(Item)
    /\ \A i \in 1 .. Len(q) : q[i].kind = "result" => InForce(u, q, i, q[i].unit)
    /\ InForce(u, q, Len(q) + 1, v)

PlaceInv ==
    /\ config \in PassConfigs /\ runs \in 0 .. MaxRuns
    /\ control \in {"Continue", "Stop", "Failed"}
    /\ current_unit \in Units /\ Leads(current_unit, todo, NoUnit)

(* References are told from analyses by their scope, so that an output     *)
(* that is taken back never takes an analysis with it.                     *)
FactsInv ==
    /\ analyses \subseteq Analyses
    /\ \A ref \in artifacts : ref[2] # "analysis"
    /\ ~interrupted =>
         /\ artifacts \subseteq current
         /\ \A key \in analyses : <<key, "analysis">> \in current

-----------------------------------------------------------------------------
(* A step of a pipeline neither sets the unit nor is a result.             *)
LEMMA StepKinds ==
    ASSUME NEW x \in Steps
    PROVE  /\ x.kind \in {"pass", "group", "foreach"} /\ x \in Item /\ ItemOK(x)
           /\ ~Sets(x) /\ x.kind # "result"
<1>1. \/ x.kind = "pass" /\ x.pass \in DOMAIN Passes
      \/ x.kind \in {"group", "foreach"} /\ x.steps \in Seq(Steps)
  BY PassAssumption
<1>2. QED
  BY <1>1 DEF ItemOK, Item, Sets

(* Whatever is on the list has the fields that its kind needs.             *)
LEMMA ItemsOK == ASSUME NEW x \in Item PROVE ItemOK(x)
<1>1. CASE x \in Steps
  BY <1>1, StepKinds
<1>2. CASE x \in [kind : {"unit"}, unit : Units]
  <2>1. x.kind = "unit" /\ x.unit \in Units
    BY <1>2, SMT
  <2>2. QED
    BY <2>1 DEF ItemOK
<1>3. CASE x \in [kind : {"result"}, pass : DOMAIN Passes, unit : Units]
  <2>1. x.kind = "result" /\ x.unit \in Units /\ x.pass \in DOMAIN Passes
    BY <1>3, SMT
  <2>2. QED
    BY <2>1 DEF ItemOK
<1>4. CASE x \in [kind : {"loop"}, units : Seq(Unit), steps : Seq(Steps), unit : Units]
  <2>1. PICK A, B : A = Seq(Unit) /\ B = Seq(Steps)
    OBVIOUS
  <2>2. x \in [kind : {"loop"}, units : A, steps : B, unit : Units]
    BY <1>4, <2>1
  <2>3. x.kind = "loop" /\ x.unit \in Units /\ x.steps \in B /\ x.units \in A
    BY ONLY <2>2, SMT
  <2>4. QED
    BY <2>1, <2>3 DEF ItemOK
<1>5. QED
  BY <1>1, <1>2, <1>3, <1>4 DEF Item

(* Steps can be put on the list.                                           *)
LEMMA StepsAreItems == ASSUME NEW q \in Seq(Steps) PROVE q \in Seq(Item)
<1>1. Steps \subseteq Item
  BY DEF Item
<1>2. PICK S : S = Item
  OBVIOUS
<1>3. QED
  BY ONLY <1>1, <1>2, q \in Seq(Steps), SMT

(* A list goes on from its c-th item in the unit that is in force there.   *)
LEMMA LeadsFrom ==
    ASSUME NEW q, NEW u, NEW v, NEW z, NEW c \in 1 .. Len(q) + 1,
           Leads(u, q, z), InForce(u, q, c, v)
    PROVE  Leads(v, SubSeq(q, c, Len(q)), z)
<1>0. q \in Seq(Item)
  BY DEF Leads
<1>1. PICK n, t : n = Len(q) /\ t = SubSeq(q, c, n)
  OBVIOUS
<1>2. n \in Nat /\ c \in 1 .. n + 1
  BY <1>0, <1>1, SMT
<1>3. \A i \in 1 .. n : q[i] \in Item
  BY <1>0, <1>1, ElementOfSeq
<1>4. PICK m : m = n - c + 1
  OBVIOUS
<1>5. m \in Nat /\ m + c = n + 1
  BY <1>2, <1>4, SMT
<1>6. t \in Seq(Item) /\ Len(t) = m /\ \A i \in 1 .. m : t[i] = q[c + i - 1]
  <2>1. c \in Int /\ n \in Int /\ \A i \in c .. n : i \in 1 .. n
    BY <1>2, SMT
  <2>2. \A i \in c .. n : q[i] \in Item
    BY <1>3, <2>1
  <2>3. /\ t \in Seq(Item) /\ Len(t) = (IF c <= n THEN n - c + 1 ELSE 0)
        /\ \A i \in 1 .. n - c + 1 : t[i] = q[c + i - 1]
    BY ONLY <1>1, <2>1, <2>2, SubSeqProperties
  <2>4. Len(t) = m
    BY <1>2, <1>4, <2>3, SMT
  <2>5. QED
    BY <1>4, <2>3, <2>4
<1>7. ASSUME NEW i \in 1 .. m + 1, NEW w, InForce(u, q, c + i - 1, w) PROVE InForce(v, t, i, w)
  <2>0. PICK e : e = c + i - 1
    OBVIOUS
  <2>a. /\ (\A j \in 1 .. e - 1 : ~Sets(q[j])) => w = u
        /\ \/ \A j \in 1 .. e - 1 : ~Sets(q[j])
           \/ \E j \in 1 .. e - 1 : Sets(q[j]) /\ q[j].unit = w /\ \A k \in j + 1 .. e - 1 : ~Sets(q[k])
    BY <1>7, <2>0 DEF InForce
  <2>1. \A j \in 1 .. i - 1 : j \in 1 .. m /\ c + j - 1 \in c .. e - 1 /\ t[j] = q[c + j - 1]
    BY <1>2, <1>5, <1>6, <2>0, SMT
  <2>2. CASE \A j \in 1 .. e - 1 : ~Sets(q[j])
    <3>1. w = u
      BY <2>2, <2>a
    <3>2. v = u
      <4>1. \A j \in 1 .. c - 1 : j \in 1 .. e - 1
        BY <1>2, <2>0, SMT
      <4>2. QED
        BY <2>2, <4>1 DEF InForce
    <3>3. \A j \in 1 .. i - 1 : c + j - 1 \in 1 .. e - 1
      BY <1>2, <2>0, SMT
    <3>4. QED
      BY <2>1, <2>2, <3>1, <3>2, <3>3 DEF InForce
  <2>3. ASSUME NEW j \in 1 .. e - 1, Sets(q[j]), q[j].unit = w,
               \A k \in j + 1 .. e - 1 : ~Sets(q[k])
        PROVE  InForce(v, t, i, w)
    <3>1. CASE j < c
      <4>1. \A k \in 1 .. i - 1 : c + k - 1 \in j + 1 .. e - 1
        BY <1>2, <2>0, <3>1, SMT
      <4>2. \A k \in 1 .. i - 1 : ~Sets(t[k])
        BY <2>1, <2>3, <4>1
      <4>3. j \in 1 .. c - 1 /\ \A k \in j + 1 .. c - 1 : k \in j + 1 .. e - 1
        BY <1>2, <2>0, <3>1, SMT
      <4>4. \A k \in j + 1 .. c - 1 : ~Sets(q[k])
        BY <2>3, <4>3
      <4>5. v = w
        <5>1. CASE v = u /\ \A k \in 1 .. c - 1 : ~Sets(q[k])
          BY <2>3, <4>3, <5>1
        <5>2. ASSUME NEW k \in 1 .. c - 1, Sets(q[k]), q[k].unit = v, \A l \in k + 1 .. c - 1 : ~Sets(q[l])
              PROVE  v = w
          <6>1. k \in j + 1 .. c - 1 \/ j \in k + 1 .. c - 1 \/ j = k
            BY <1>2, <4>3, SMT
          <6>2. j = k
            BY <2>3, <4>4, <5>2, <6>1
          <6>3. QED
            BY <2>3, <5>2, <6>2
        <5>3. QED
          BY <5>1, <5>2 DEF InForce
      <4>6. QED
        BY <4>2, <4>5 DEF InForce
    <3>2. CASE ~(j < c)
      <4>1. PICK l : l = j - c + 1
        OBVIOUS
      <4>2. l \in 1 .. i - 1 /\ c + l - 1 = j
        BY <1>2, <2>0, <3>2, <4>1, SMT
      <4>3. t[l] = q[j]
        BY <2>1, <4>2
      <4>4. \A k \in l + 1 .. i - 1 : k \in 1 .. i - 1 /\ c + k - 1 \in j + 1 .. e - 1
        BY <1>2, <2>0, <4>2, SMT
      <4>5. \A k \in l + 1 .. i - 1 : ~Sets(t[k])
        BY <2>1, <2>3, <4>4
      <4>6. QED
        BY <2>3, <4>2, <4>3, <4>5 DEF InForce
    <3>3. QED
      BY <3>1, <3>2
  <2>4. QED
    BY <2>2, <2>3, <2>a
<1>8. ASSUME NEW i \in 1 .. m, t[i].kind = "result" PROVE InForce(v, t, i, t[i].unit)
  <2>1. i \in 1 .. m + 1 /\ c + i - 1 \in 1 .. n
    BY <1>2, <1>5, SMT
  <2>2. t[i] = q[c + i - 1]
    BY <1>6
  <2>3. InForce(u, q, c + i - 1, t[i].unit)
    BY <1>1, <1>8, <2>1, <2>2 DEF Leads
  <2>4. QED
    BY <1>7, <2>1, <2>3
<1>9. InForce(v, t, m + 1, z)
  <2>1. m + 1 \in 1 .. m + 1 /\ c + (m + 1) - 1 = n + 1
    BY <1>2, <1>5, SMT
  <2>2. InForce(u, q, n + 1, z)
    BY <1>1 DEF Leads
  <2>3. QED
    BY <1>7, <2>1, <2>2
<1>10. QED
  BY <1>1, <1>6, <1>8, <1>9 DEF Leads

(* What leads on from where other items lead to can be put after them.     *)
LEMMA LeadsOn ==
    ASSUME NEW p, NEW q, NEW u, NEW v, NEW z, Leads(u, p, v), Leads(v, q, z)
    PROVE  Leads(u, p \o q, z)
<1>0. p \in Seq(Item) /\ q \in Seq(Item)
  BY DEF Leads
<1>1. PICK m, n, t : m = Len(p) /\ n = Len(q) /\ t = p \o q
  OBVIOUS
<1>2. m \in Nat /\ n \in Nat
  BY <1>0, <1>1, SMT
<1>3. /\ t \in Seq(Item) /\ Len(t) = m + n
      /\ \A i \in 1 .. m + n : t[i] = IF i <= m THEN p[i] ELSE q[i - m]
  BY ONLY <1>0, <1>1, ConcatProperties
<1>4. \A i \in 1 .. m : i \in 1 .. m + n /\ t[i] = p[i]
  BY <1>2, <1>3, SMT
<1>5. \A i \in 1 .. n : m + i \in 1 .. m + n /\ t[m + i] = q[i]
  <2>1. \A i \in 1 .. n : m + i \in 1 .. m + n /\ ~(m + i <= m) /\ (m + i) - m = i
    BY <1>2, SMT
  <2>2. QED
    BY <1>3, <2>1
<1>6. ASSUME NEW i \in 1 .. m + 1, NEW w, InForce(u, p, i, w) PROVE InForce(u, t, i, w)
  <2>1. \A j \in 1 .. i - 1 : t[j] = p[j] /\ \A k \in j + 1 .. i - 1 : t[k] = p[k]
    <3>1. \A j \in 1 .. i - 1 : j \in 1 .. m /\ \A k \in j + 1 .. i - 1 : k \in 1 .. m
      BY <1>2, SMT
    <3>2. QED
      BY <1>4, <3>1
  <2>2. QED
    BY <1>6, <2>1 DEF InForce
<1>7. ASSUME NEW i \in 1 .. n + 1, NEW w, InForce(v, q, i, w) PROVE InForce(u, t, m + i, w)
  <2>1. \A j \in 1 .. i - 1 : t[m + j] = q[j] /\ m + j \in 1 .. (m + i) - 1
    <3>1. \A j \in 1 .. i - 1 : j \in 1 .. n /\ m + j \in 1 .. (m + i) - 1
      BY <1>2, SMT
    <3>2. QED
      BY <1>5, <3>1
  <2>2. CASE w = v /\ \A j \in 1 .. i - 1 : ~Sets(q[j])
    <3>1. m + 1 \in 1 .. m + 1 /\ InForce(u, p, m + 1, v)
      BY <1>1, <1>2, SMT DEF Leads
    <3>2. InForce(u, t, m + 1, v)
      BY <1>6, <3>1
    <3>3. \A j \in m + 1 .. (m + i) - 1 : ~Sets(t[j])
      <4>1. \A j \in m + 1 .. (m + i) - 1 : j - m \in 1 .. i - 1 /\ m + (j - m) = j
        BY <1>2, SMT
      <4>2. QED
        BY <2>1, <2>2, <4>1
    <3>4. (m + 1) - 1 = m /\ \A j \in 1 .. (m + i) - 1 : j \in 1 .. m \/ j \in m + 1 .. (m + i) - 1
      BY <1>2, SMT
    <3>5. CASE v = u /\ \A j \in 1 .. m : ~Sets(t[j])
      BY <2>2, <3>3, <3>4, <3>5 DEF InForce
    <3>6. ASSUME NEW j \in 1 .. m, Sets(t[j]), t[j].unit = v, \A k \in j + 1 .. m : ~Sets(t[k])
          PROVE  InForce(u, t, m + i, w)
      <4>1. /\ j \in 1 .. (m + i) - 1
            /\ \A k \in j + 1 .. (m + i) - 1 : k \in j + 1 .. m \/ k \in m + 1 .. (m + i) - 1
        BY <1>2, SMT
      <4>2. \A k \in j + 1 .. (m + i) - 1 : ~Sets(t[k])
        BY <3>3, <3>6, <4>1
      <4>3. QED
        BY <2>2, <3>6, <4>1, <4>2 DEF InForce
    <3>7. QED
      BY <3>2, <3>4, <3>5, <3>6 DEF InForce
  <2>3. ASSUME NEW j \in 1 .. i - 1, Sets(q[j]), q[j].unit = w, \A k \in j + 1 .. i - 1 : ~Sets(q[k])
        PROVE  InForce(u, t, m + i, w)
    <3>1. \A k \in (m + j) + 1 .. (m + i) - 1 :
             k - m \in 1 .. i - 1 /\ k - m \in j + 1 .. i - 1 /\ m + (k - m) = k
      BY <1>2, SMT
    <3>2. \A k \in (m + j) + 1 .. (m + i) - 1 : ~Sets(t[k])
      BY <2>1, <2>3, <3>1
    <3>3. Sets(t[m + j]) /\ t[m + j].unit = w /\ m + j \in 1 .. (m + i) - 1
      BY <2>1, <2>3
    <3>4. QED
      BY <3>2, <3>3 DEF InForce
  <2>4. QED
    BY <1>7, <2>2, <2>3 DEF InForce
<1>8. ASSUME NEW i \in 1 .. m + n, t[i].kind = "result" PROVE InForce(u, t, i, t[i].unit)
  <2>1. CASE i <= m
    <3>1. i \in 1 .. m /\ i \in 1 .. m + 1
      BY <1>2, <2>1, SMT
    <3>2. InForce(u, p, i, t[i].unit)
      BY <1>1, <1>4, <1>8, <3>1 DEF Leads
    <3>3. QED
      BY <1>6, <3>1, <3>2
  <2>2. CASE ~(i <= m)
    <3>1. i - m \in 1 .. n /\ i - m \in 1 .. n + 1 /\ m + (i - m) = i
      BY <1>2, <2>2, SMT
    <3>2. t[i] = q[i - m]
      BY <1>5, <3>1
    <3>3. InForce(v, q, i - m, t[i].unit)
      BY <1>1, <1>8, <3>1, <3>2 DEF Leads
    <3>4. QED
      BY <1>7, <3>1, <3>3
  <2>3. QED
    BY <2>1, <2>2
<1>9. InForce(u, t, m + n + 1, z)
  <2>1. n + 1 \in 1 .. n + 1 /\ m + (n + 1) = m + n + 1
    BY <1>2, SMT
  <2>2. InForce(v, q, n + 1, z)
    BY <1>1 DEF Leads
  <2>3. QED
    BY <1>7, <2>1, <2>2
<1>10. QED
  BY <1>1, <1>3, <1>8, <1>9 DEF Leads

(* Steps leave the unit as it is.                                          *)
LEMMA LeadsNowhere == ASSUME NEW s \in Seq(Steps), NEW u PROVE Leads(u, s, u)
<1>1. s \in Seq(Item) /\ Len(s) \in Nat
  BY StepsAreItems, LenProperties
<1>2. \A i \in 1 .. Len(s) : ~Sets(s[i]) /\ s[i].kind # "result"
  <2>1. \A i \in 1 .. Len(s) : s[i] \in Steps
    BY ElementOfSeq
  <2>2. QED
    BY <2>1, StepKinds
<1>3. (Len(s) + 1) - 1 = Len(s)
  BY <1>1, SMT
<1>4. QED
  BY <1>1, <1>2, <1>3 DEF Leads, InForce

(* An item that sets the unit leads to it, and a result of a pass that was *)
(* run for the unit leads nowhere.                                         *)
LEMMA LeadsByItem ==
    ASSUME NEW x \in Item, NEW u
    PROVE  /\ Sets(x) => Leads(u, <<x>>, x.unit)
           /\ (x.kind = "result" /\ x.unit = u) => Leads(u, <<x>>, u)
<1>1. PICK t : t = <<x>>
  OBVIOUS
<1>2. t \in Seq(Item) /\ Len(t) = 1 /\ t[1] = x
  <2>1. PICK S : S = Item
    OBVIOUS
  <2>2. x \in S
    BY <2>1
  <2>3. t \in Seq(S) /\ Len(t) = 1 /\ t[1] = x
    BY ONLY <1>1, <2>2, SMT
  <2>4. QED
    BY <2>1, <2>3
<1>3. 1 - 1 = 0 /\ 1 .. 0 = {} /\ (1 + 1) - 1 = 1 /\ 1 .. 1 = {1} /\ 1 + 1 .. 1 = {}
  BY SMT
<1>4. \A w : (\A i \in 1 .. Len(t) : t[i].kind = "result" => InForce(u, t, i, t[i].unit))
                 /\ InForce(u, t, 2, w) => Leads(u, t, w)
  <2>1. Len(t) + 1 = 2
    BY <1>2, SMT
  <2>2. QED
    BY <1>2, <2>1 DEF Leads
<1>5. 2 - 1 = 1
  BY SMT
<1>6. ASSUME Sets(x) PROVE Leads(u, t, x.unit)
  <2>1. x.kind # "result"
    BY <1>6 DEF Sets
  <2>2. InForce(u, t, 2, x.unit)
    BY <1>2, <1>3, <1>5, <1>6 DEF InForce
  <2>3. QED
    BY <1>2, <1>3, <1>4, <2>1, <2>2
<1>7. ASSUME x.kind = "result", x.unit = u PROVE Leads(u, t, u)
  <2>1. ~Sets(x)
    BY <1>7 DEF Sets
  <2>2. InForce(u, t, 2, u)
    BY <1>2, <1>3, <1>5, <2>1 DEF InForce
  <2>3. InForce(u, t, 1, u)
    BY <1>3 DEF InForce
  <2>4. QED
    BY <1>2, <1>3, <1>4, <1>7, <2>2, <2>3
<1>8. QED
  BY <1>1, <1>6, <1>7

(* The three items that the manager itself puts on the list.               *)
LEMMA LoopLeads ==
    ASSUME NEW units \in Seq(Unit), NEW steps \in Seq(Steps), NEW v \in Units, NEW u
    PROVE  Leads(u, <<Loop(units, steps, v)>>, v)
<1>1. PICK A, B, x : A = Seq(Unit) /\ B = Seq(Steps) /\ x = Loop(units, steps, v)
  OBVIOUS
<1>2. units \in A /\ steps \in B /\ x = [kind |-> "loop", units |-> units, steps |-> steps, unit |-> v]
  BY <1>1 DEF Loop
<1>3. x \in [kind : {"loop"}, units : A, steps : B, unit : Units] /\ x.kind = "loop" /\ x.unit = v
  BY ONLY <1>2, v \in Units, SMT
<1>4. x \in Item /\ Sets(x)
  BY <1>1, <1>3 DEF Item, Sets
<1>5. QED
  BY <1>1, <1>3, <1>4, LeadsByItem

LEMMA UnitLeads ==
    ASSUME NEW v \in Units, NEW u PROVE Leads(u, <<SetUnit(v)>>, v)
<1>1. PICK x : x = SetUnit(v)
  OBVIOUS
<1>2. x \in [kind : {"unit"}, unit : Units] /\ x.kind = "unit" /\ x.unit = v
  BY <1>1, SMT DEF SetUnit
<1>3. x \in Item /\ Sets(x)
  BY <1>2 DEF Item, Sets
<1>4. QED
  BY <1>1, <1>2, <1>3, LeadsByItem

LEMMA ResultLeads ==
    ASSUME NEW name \in DOMAIN Passes, current_unit \in Units
    PROVE  Leads(current_unit, <<TakeResult(name)>>, current_unit)
<1>1. PICK x, P : x = TakeResult(name) /\ P = DOMAIN Passes
  OBVIOUS
<1>2. x = [kind |-> "result", pass |-> name, unit |-> current_unit] /\ name \in P
  BY <1>1 DEF TakeResult
<1>3. /\ x \in [kind : {"result"}, pass : P, unit : Units]
      /\ x.kind = "result" /\ x.unit = current_unit
  BY ONLY <1>2, current_unit \in Units, SMT
<1>4. x \in Item
  BY <1>1, <1>3 DEF Item
<1>5. QED
  BY <1>1, <1>3, <1>4, LeadsByItem

(* What the first item does to the unit, the rest of the list goes on      *)
(* from; and a result at the head is of the unit that is current.          *)
LEMMA LeadsPast ==
    ASSUME NEW q, NEW u, NEW z, Leads(u, q, z), q # <<>>
    PROVE  /\ q[1] = Head(q) /\ Head(q) \in Item /\ ItemOK(Head(q))
           /\ Head(q).kind = "result" => Head(q).unit = u
           /\ Leads(IF Sets(Head(q)) THEN Head(q).unit ELSE u, Tail(q), z)
<1>1. q \in Seq(Item)
  BY DEF Leads
<1>2. Len(q) \in Nat \ {0} /\ Head(q) = q[1]
  BY <1>1, SMT
<1>3. Head(q) \in Item /\ Tail(q) = SubSeq(q, 2, Len(q))
  BY <1>1, HeadTailProperties, TailIsSubSeq
<1>4. /\ 1 \in 1 .. Len(q) /\ 2 \in 1 .. Len(q) + 1
      /\ 2 - 1 = 1 /\ 1 .. 1 = {1} /\ 1 - 1 = 0 /\ 1 .. 0 = {} /\ 1 + 1 .. 1 = {}
  BY <1>2, SMT
<1>5. Head(q).kind = "result" => Head(q).unit = u
  BY <1>2, <1>4 DEF Leads, InForce
<1>6. InForce(u, q, 2, IF Sets(Head(q)) THEN Head(q).unit ELSE u)
  BY <1>2, <1>4 DEF InForce
<1>7. Leads(IF Sets(Head(q)) THEN Head(q).unit ELSE u, Tail(q), z)
  BY <1>3, <1>4, <1>6, LeadsFrom
<1>8. QED
  BY <1>2, <1>3, <1>5, <1>7, ItemsOK

(* Min and Max of positions are among them and at the ends.                *)
LEMMA LeastPosition ==
    ASSUME NEW S \in SUBSET Nat, S # {} PROVE Min(S) \in S /\ \A y \in S : Min(S) <= y
<1>1. PICK x \in S : \A y \in S : ~(<<y, x>> \in OpToRel(<, Nat))
  BY NatLessThanWellFounded, WFMin
<1>2. ASSUME NEW y \in S, y < x PROVE FALSE
  <2>1. <<y, x>> \in OpToRel(<, Nat)
    BY <1>1, <1>2, SMT DEF OpToRel
  <2>2. QED
    BY <1>1, <2>1
<1>3. \A y \in S : ~(y < x) /\ x \in Nat /\ y \in Nat
  BY <1>1, <1>2
<1>4. \A y \in S : x <= y
  BY ONLY <1>3, SMT
<1>5. QED
  BY <1>1, <1>4 DEF Min

LEMMA GreatestPosition ==
    ASSUME NEW n \in Nat, NEW S \in SUBSET (1 .. n), S # {}
    PROVE  Max(S) \in S /\ \A y \in S : Max(S) >= y
<1>1. PICK T : T = {i \in 0 .. n : n - i \in S}
  OBVIOUS
<1>2. \A y \in S : n - y \in T /\ n - (n - y) = y
  BY <1>1, SMT
<1>3. T \in SUBSET Nat /\ T # {}
  <2>1. 0 .. n \subseteq Nat
    BY SMT
  <2>2. QED
    BY <1>1, <1>2, <2>1
<1>4. Min(T) \in T /\ \A i \in T : Min(T) <= i
  BY <1>3, LeastPosition
<1>5. PICK x : x = n - Min(T)
  OBVIOUS
<1>6. x \in S /\ Min(T) \in 0 .. n
  BY <1>1, <1>4, <1>5
<1>7. \A y \in S : x >= y
  BY <1>2, <1>4, <1>5, <1>6, SMT
<1>8. QED
  BY <1>6, <1>7 DEF Max

(* A step that does not continue leaves off at the caller's result, or at  *)
(* the end, in the unit that is in force there.                            *)
LEMMA ReturnsToCaller ==
    ASSUME Leads(current_unit, todo, NoUnit), todo # <<>>, current_unit \in Units,
           NEW outcome, Return(outcome)
    PROVE  /\ Leads(current_unit', todo', NoUnit) /\ current_unit' \in Units
           /\ control' \in {outcome, control}
<1>1. todo \in Seq(Item)
  BY DEF Leads
<1>2. PICK n, c : n = Len(todo) /\ c = CallerAt
  OBVIOUS
<1>3. n \in Nat \ {0}
  BY <1>1, <1>2, SMT
<1>4. c \in 2 .. n + 1
  <2>1. PICK R : R = {i \in 2 .. n : todo[i].kind = "result"}
    OBVIOUS
  <2>2. c = IF R = {} THEN n + 1 ELSE Min(R)
    BY <1>2, <2>1 DEF CallerAt
  <2>3. CASE R = {}
    <3>1. c = n + 1
      BY <2>2, <2>3
    <3>2. QED
      BY <1>3, <3>1, SMT
  <2>4. CASE R # {}
    <3>1. R \subseteq 2 .. n /\ 2 .. n \subseteq Nat
      BY <1>3, <2>1, SMT
    <3>2. c \in 2 .. n
      BY <2>2, <2>4, <3>1, LeastPosition
    <3>3. QED
      BY <1>3, <3>2, SMT
  <2>5. QED
    BY <2>3, <2>4
<1>5. PICK R : R = {i \in 1 .. c - 1 : Sets(todo[i])}
  OBVIOUS
<1>6. /\ todo' = SubSeq(todo, c, n)
      /\ control' \in {outcome, control}
      /\ current_unit' = IF R = {} THEN current_unit ELSE todo[Max(R)].unit
  <2>1. R = {i \in 1 .. CallerAt - 1 : todo[i].kind \in {"unit", "loop"}}
    BY <1>2, <1>5 DEF Sets
  <2>2. QED
    BY <1>2, <2>1 DEF Return
<1>7. InForce(current_unit, todo, c, current_unit') /\ current_unit' \in Units
  <2>1. CASE R = {}
    BY <1>5, <1>6, <2>1 DEF InForce
  <2>2. CASE R # {}
    <3>1. PICK x : x = Max(R)
      OBVIOUS
    <3>2. c - 1 \in Nat /\ R \in SUBSET (1 .. c - 1)
      BY <1>3, <1>4, <1>5, SMT
    <3>3. x \in R /\ \A y \in R : x >= y
      BY <2>2, <3>1, <3>2, GreatestPosition
    <3>4. x \in 1 .. c - 1 /\ Sets(todo[x]) /\ current_unit' = todo[x].unit
      BY <1>5, <1>6, <2>2, <3>1, <3>3
    <3>5. \A k \in x + 1 .. c - 1 : k \in 1 .. c - 1 /\ ~(x >= k)
      BY <3>2, <3>4, SMT
    <3>6. \A k \in x + 1 .. c - 1 : ~Sets(todo[k])
      BY <1>5, <3>3, <3>5
    <3>7. x \in 1 .. n
      BY <1>3, <1>4, <3>4, SMT
    <3>8. todo[x] \in Item
      BY <1>1, <1>2, <3>7, ElementOfSeq
    <3>9. current_unit' \in Units
      BY <3>4, <3>8, ItemsOK DEF ItemOK, Sets
    <3>10. QED
      BY <3>4, <3>6, <3>9 DEF InForce
  <2>3. QED
    BY <2>1, <2>2
<1>8. c \in 1 .. Len(todo) + 1
  BY <1>2, <1>3, <1>4, SMT
<1>9. QED
  BY <1>2, <1>6, <1>7, <1>8, LeadsFrom

(* What is still to do leads back to no unit, whatever step is taken.      *)
LEMMA PlaceStep ==
    ASSUME PlaceInv, PassNext PROVE PlaceInv'
<1>1. /\ config \in PassConfigs /\ runs \in 0 .. MaxRuns
      /\ control \in {"Continue", "Stop", "Failed"}
      /\ current_unit \in Units /\ Leads(current_unit, todo, NoUnit)
  BY DEF PlaceInv
<1> DEFINE head == Head(todo)
<1>2. todo # <<>> =>
        /\ ItemOK(head)
        /\ head.kind = "result" => head.unit = current_unit
        /\ Leads(IF Sets(head) THEN head.unit ELSE current_unit, Tail(todo), NoUnit)
  BY <1>1, LeadsPast
<1> HIDE DEF head
<1>3. \A kind : At(kind) => todo # <<>> /\ head.kind = kind
  BY DEF At, head
<1>a. head.kind \in {"group", "foreach", "pass", "result"} => ~Sets(head)
  BY DEF Sets
<1>b. todo # <<>> /\ head.kind \in {"group", "foreach"} => head.steps \in Seq(Steps)
  BY <1>2 DEF ItemOK
<1>4. ASSUME UNCHANGED <<config, runs, control>>, current_unit' \in Units, Leads(current_unit', todo', NoUnit)
      PROVE  PlaceInv'
  BY <1>1, <1>4 DEF PlaceInv
<1>5. ASSUME NEW outcome \in {"Stop", "Failed"}, todo # <<>>, Return(outcome), UNCHANGED <<config, runs>>
      PROVE  PlaceInv'
  <2>1. /\ Leads(current_unit', todo', NoUnit) /\ current_unit' \in Units
        /\ control' \in {outcome, control}
    BY <1>1, <1>5, ReturnsToCaller
  <2>2. QED
    BY <1>1, <1>5, <2>1 DEF PlaceInv
<1>6. ASSUME todo # <<>>, ~Sets(head), Continue, UNCHANGED <<config, runs>> PROVE PlaceInv'
  <2>1. Leads(current_unit, Tail(todo), NoUnit)
    BY <1>2, <1>6
  <2>2. QED
    BY <1>1, <1>4, <1>6, <2>1 DEF Continue
<1>7. CASE run_pipeline
  <2>1. todo' \in Seq(Steps) /\ current_unit' = NoUnit
    BY <1>7, PassAssumption DEF run_pipeline
  <2>2. Leads(current_unit', todo', NoUnit)
    BY <2>1, LeadsNowhere
  <2>3. runs' \in 0 .. MaxRuns
    <3>1. runs < MaxRuns /\ runs' = runs + 1 /\ MaxRuns \in Nat
      BY <1>7, PassAssumption DEF run_pipeline
    <3>2. QED
      BY <1>1, <3>1, SMT
  <2>4. QED
    BY <1>7, <2>1, <2>2, <2>3 DEF run_pipeline, PlaceInv, Units
<1>8. CASE mark_artifacts_available
  BY <1>1, <1>4, <1>8 DEF mark_artifacts_available
<1>9. CASE RunGroup
  <2>1. todo # <<>> /\ head.steps \in Seq(Steps) /\ ~Sets(head)
    BY <1>3, <1>9, <1>a, <1>b DEF RunGroup
  <2>2. Leads(current_unit, Tail(todo), NoUnit)
    BY <1>2, <2>1
  <2>3. Leads(current_unit, head.steps, current_unit)
    BY <2>1, LeadsNowhere
  <2>4. Leads(current_unit, head.steps \o Tail(todo), NoUnit)
    BY <2>2, <2>3, LeadsOn
  <2>5. QED
    BY <1>1, <1>4, <1>9, <2>4 DEF RunGroup, head
<1>10. CASE RunForEach
  <2>1. PICK units \in UnitLists : todo' = <<Loop(units, head.steps, current_unit)>> \o Tail(todo)
    BY <1>10 DEF RunForEach, head
  <2>2. todo # <<>> /\ head.steps \in Seq(Steps) /\ ~Sets(head)
    BY <1>3, <1>10, <1>a, <1>b DEF RunForEach
  <2>3. Leads(current_unit, Tail(todo), NoUnit)
    BY <1>2, <2>2
  <2>4. units \in Seq(Unit)
    BY PassAssumption
  <2>5. Leads(current_unit, <<Loop(units, head.steps, current_unit)>>, current_unit)
    BY <1>1, <2>2, <2>4, LoopLeads
  <2>6. Leads(current_unit, todo', NoUnit)
    BY <2>1, <2>3, <2>5, LeadsOn
  <2>7. QED
    BY <1>1, <1>4, <1>10, <2>6 DEF RunForEach
<1>11. CASE RefuseForEach
  BY <1>3, <1>5, <1>11 DEF RefuseForEach
<1>12. CASE NextUnit
  <2>1. /\ todo # <<>> /\ head.kind = "loop" /\ head.units # <<>>
        /\ current_unit' = Head(head.units)
        /\ todo' = head.steps \o <<Loop(Tail(head.units), head.steps, head.unit)>> \o Tail(todo)
    BY <1>3, <1>12 DEF NextUnit, head
  <2>2. head.units \in Seq(Unit) /\ head.steps \in Seq(Steps) /\ head.unit \in Units
    BY <1>2, <2>1 DEF ItemOK
  <2>3. current_unit' \in Unit /\ Tail(head.units) \in Seq(Unit)
    BY <2>1, <2>2, HeadTailProperties
  <2>4. Leads(head.unit, Tail(todo), NoUnit)
    BY <1>2, <2>1 DEF Sets
  <2>5. Leads(current_unit', head.steps, current_unit')
    BY <2>2, LeadsNowhere
  <2>6. Leads(current_unit', <<Loop(Tail(head.units), head.steps, head.unit)>>, head.unit)
    BY <2>2, <2>3, LoopLeads
  <2>7. Leads(current_unit', head.steps \o <<Loop(Tail(head.units), head.steps, head.unit)>>, head.unit)
    BY <2>5, <2>6, LeadsOn
  <2>8. Leads(current_unit', todo', NoUnit)
    BY <2>1, <2>4, <2>7, LeadsOn
  <2>9. QED
    BY <1>4, <1>12, <2>3, <2>8 DEF NextUnit, Units
<1>13. CASE EnterUnit
  <2>1. todo # <<>> /\ head.kind \in {"unit", "loop"}
    BY <1>3, <1>13 DEF EnterUnit
  <2>2. head.unit \in Units /\ Leads(head.unit, Tail(todo), NoUnit)
    BY <1>2, <2>1 DEF ItemOK, Sets
  <2>3. QED
    BY <1>4, <1>13, <2>2 DEF EnterUnit, head
<1>14. CASE RefusePass
  BY <1>3, <1>5, <1>14 DEF RefusePass
<1>15. CASE SkipPass
  <2>1. todo # <<>> /\ ~Sets(head)
    BY <1>3, <1>15, <1>a DEF SkipPass
  <2>2. QED
    BY <1>6, <1>15, <2>1 DEF SkipPass
<1>16. CASE StopBefore
  BY <1>3, <1>5, <1>16 DEF StopBefore
<1>17. CASE StartPass
  <2>1. /\ todo # <<>> /\ head.kind = "pass"
        /\ todo' = (IF Pass.nested = <<>> THEN <<>>
                    ELSE <<SetUnit(Pass.nested_unit)>> \o Pass.nested \o <<SetUnit(current_unit)>>)
                     \o <<TakeResult(Name)>> \o Tail(todo)
    BY <1>3, <1>17 DEF StartPass
  <2>2. Leads(current_unit, Tail(todo), NoUnit) /\ Name \in DOMAIN Passes
    BY <1>2, <2>1 DEF Sets, ItemOK, Name, head
  <2>3. Pass.nested \in Seq(Steps) /\ Pass.nested_unit \in Units
    BY <2>2, PassAssumption DEF Pass, Units
  <2>4. PICK p : p = IF Pass.nested = <<>> THEN <<>>
                     ELSE <<SetUnit(Pass.nested_unit)>> \o Pass.nested \o <<SetUnit(current_unit)>>
    OBVIOUS
  <2>5. Leads(current_unit, p, current_unit)
    <3>1. CASE Pass.nested = <<>>
      BY <2>3, <2>4, <3>1, LeadsNowhere
    <3>2. CASE Pass.nested # <<>>
      <4>1. Leads(current_unit, <<SetUnit(Pass.nested_unit)>>, Pass.nested_unit)
        BY <2>3, UnitLeads
      <4>2. Leads(Pass.nested_unit, Pass.nested, Pass.nested_unit)
        BY <2>3, LeadsNowhere
      <4>3. Leads(current_unit, <<SetUnit(Pass.nested_unit)>> \o Pass.nested, Pass.nested_unit)
        BY <4>1, <4>2, LeadsOn
      <4>4. Leads(Pass.nested_unit, <<SetUnit(current_unit)>>, current_unit)
        BY <1>1, UnitLeads
      <4>5. QED
        BY <2>4, <3>2, <4>3, <4>4, LeadsOn
    <3>3. QED
      BY <3>1, <3>2
  <2>6. Leads(current_unit, <<TakeResult(Name)>>, current_unit)
    BY <1>1, <2>2, ResultLeads
  <2>7. Leads(current_unit, p \o <<TakeResult(Name)>>, current_unit)
    BY <2>5, <2>6, LeadsOn
  <2>8. Leads(current_unit, todo', NoUnit)
    BY <2>1, <2>2, <2>4, <2>7, LeadsOn
  <2>9. QED
    BY <1>1, <1>4, <1>17, <2>8 DEF StartPass
<1>18. CASE get_or_run
  BY <1>1, <1>4, <1>18 DEF get_or_run
<1>19. CASE InterruptPass
  BY <1>3, <1>5, <1>19 DEF InterruptPass
<1>20. CASE FailPass
  BY <1>3, <1>5, <1>20 DEF FailPass
<1>21. CASE FinishPass
  <2>1. todo # <<>> /\ ~Sets(head) /\ UNCHANGED <<config, runs>> /\ (Continue \/ Return("Stop"))
    BY <1>3, <1>21, <1>a DEF FinishPass
  <2>2. QED
    BY <1>5, <1>6, <2>1
<1>22. QED
  BY <1>7, <1>8, <1>9, <1>10, <1>11, <1>12, <1>13, <1>14, <1>15, <1>16, <1>17, <1>18, <1>19,
     <1>20, <1>21 DEF PassNext

(* What a pass is responsible for is never an analysis.                    *)
LEMMA ResolvedScope ==
    ASSUME NEW refs, NEW unit \in Units, \A ref \in refs : ref[2] # "analysis"
    PROVE  \A ref \in resolve_artifact_set(refs, unit) : ref[2] # "analysis"
<1>1. unit # NoUnit => unit # "analysis"
  BY PassAssumption DEF Units
<1>2. \A ref : <<ref[1], unit>>[2] = unit
  BY SMT
<1>3. QED
  BY <1>1, <1>2 DEF resolve_artifact_set

LEMMA OutputScope ==
    ASSUME NEW name \in DOMAIN Passes, NEW extra \in Extras \cup {{}}, NEW unit \in Units
    PROVE  \A ref \in Outputs(name, extra, unit) : ref[2] # "analysis"
<1>1. \A ref \in Passes[name].produces \cup extra : ref[2] # "analysis"
  BY PassAssumption
<1>2. QED
  BY <1>1, ResolvedScope DEF Outputs

(* What the manager keeps after a change is a part of what it had, and of  *)
(* what still describes the context.                                       *)
LEMMA KeptSurvive ==
    ASSUME NEW preserved \in Preserves, FactsInv
    PROVE  /\ Kept(preserved, artifacts) \subseteq artifacts
           /\ KeptAnalyses(preserved, analyses) \subseteq analyses
           /\ ~interrupted =>
                /\ Kept(preserved, artifacts) \subseteq Surviving(preserved)
                /\ \A key \in KeptAnalyses(preserved, analyses) : <<key, "analysis">> \in Surviving(preserved)
<1>1. preserved.kind \in {"All", "None", "Some"}
  BY PassAssumption
<1>2. \A key : <<key, "analysis">>[1] = key /\ <<key, "analysis">>[2] = "analysis"
  BY SMT
<1>3. CASE preserved.kind = "All"
  <2>1. Kept(preserved, artifacts) = artifacts /\ KeptAnalyses(preserved, analyses) = analyses
    BY <1>3 DEF Kept, KeptAnalyses
  <2>2. Surviving(preserved) = current
    BY <1>3 DEF Surviving
  <2>3. QED
    BY <2>1, <2>2 DEF FactsInv
<1>4. CASE preserved.kind = "None"
  <2>1. Kept(preserved, artifacts) = {} /\ KeptAnalyses(preserved, analyses) = {}
    BY <1>4 DEF Kept, KeptAnalyses
  <2>2. QED
    BY <2>1
<1>5. CASE preserved.kind = "Some"
  <2>1. /\ Kept(preserved, artifacts) = artifacts \cap preserved.refs
        /\ KeptAnalyses(preserved, analyses) = {key \in analyses : <<key, "global">> \in preserved.refs}
    BY <1>5 DEF Kept, KeptAnalyses
  <2>2. \A fact \in current :
           (IF fact[2] = "analysis" THEN <<fact[1], "global">> ELSE fact) \in preserved.refs
              => fact \in Surviving(preserved)
    BY <1>5 DEF Surviving
  <2>3. ~interrupted => Kept(preserved, artifacts) \subseteq Surviving(preserved)
    BY <2>1, <2>2 DEF FactsInv
  <2>4. ASSUME ~interrupted, NEW key \in KeptAnalyses(preserved, analyses)
        PROVE  <<key, "analysis">> \in Surviving(preserved)
    <3>1. key \in analyses /\ <<key, "global">> \in preserved.refs
      BY <2>1
    <3>2. PICK fact : fact = <<key, "analysis">>
      OBVIOUS
    <3>3. fact \in current /\ fact[1] = key /\ fact[2] = "analysis"
      BY <1>2, <2>4, <3>1, <3>2 DEF FactsInv
    <3>4. QED
      BY <2>2, <3>1, <3>2, <3>3
  <2>5. QED
    BY <2>1, <2>3, <2>4
<1>6. QED
  BY <1>1, <1>3, <1>4, <1>5

(* What is listed and what is cached describes the context, step by step.  *)
LEMMA FactsStep ==
    ASSUME PlaceInv, FactsInv, PassNext PROVE FactsInv'
<1>1. current_unit \in Units /\ Leads(current_unit, todo, NoUnit)
  BY DEF PlaceInv
<1>2. /\ analyses \subseteq Analyses
      /\ \A ref \in artifacts : ref[2] # "analysis"
      /\ ~interrupted => artifacts \subseteq current /\ \A key \in analyses : <<key, "analysis">> \in current
  BY DEF FactsInv
<1>3. \A key : <<key, "analysis">>[2] = "analysis"
  BY SMT
<1>4. ASSUME UNCHANGED <<artifacts, analyses, current, interrupted>> PROVE FactsInv'
  BY <1>2, <1>4 DEF FactsInv
<1>5. CASE mark_artifacts_available
  <2>1. PICK name \in DOMAIN Passes :
          /\ artifacts' = artifacts \cup {ref \in Passes[name].requires : ref[2] # "kind"}
          /\ current' = current \cup {ref \in Passes[name].requires : ref[2] # "kind"}
    BY <1>5 DEF mark_artifacts_available
  <2>2. \A ref \in Passes[name].requires : ref[2] # "analysis"
    BY PassAssumption
  <2>3. UNCHANGED <<analyses, interrupted>>
    BY <1>5 DEF mark_artifacts_available
  <2>4. QED
    BY <1>2, <2>1, <2>2, <2>3 DEF FactsInv
<1>6. ASSUME At("pass") \/ At("result")
      PROVE  Name \in DOMAIN Passes /\ (At("result") => Head(todo).unit = current_unit)
  BY <1>1, <1>6, LeadsPast DEF At, ItemOK, Name
<1>7. ASSUME NEW extra \in Extras \cup {{}}, At("pass") \/ At("result"),
             NEW arts, NEW held_keys, NEW facts,
             arts \subseteq artifacts, held_keys \subseteq analyses,
             ~interrupted => arts \subseteq facts /\ \A key \in held_keys : <<key, "analysis">> \in facts,
             analyses' = held_keys, interrupted' \in {interrupted, TRUE},
             \/ /\ artifacts' = arts \ Rejected(extra)
                /\ current' = facts \ Outputs(Name, extra, current_unit)
             \/ /\ artifacts' = arts \cup Rejected(extra)
                /\ current' = facts \cup Outputs(Name, extra, current_unit)
      PROVE  FactsInv'
  <2>1. PICK O : O = Outputs(Name, extra, current_unit)
    OBVIOUS
  <2>2. Rejected(extra) = O
    BY <2>1 DEF Rejected, Outputs, Pass
  <2>3. \A ref \in O : ref[2] # "analysis"
    BY <1>1, <1>6, <1>7, <2>1, OutputScope
  <2>4. \A key : <<key, "analysis">> \notin O
    BY <1>3, <2>3
  <2>5. analyses' \subseteq Analyses /\ \A ref \in artifacts' : ref[2] # "analysis"
    BY <1>2, <1>7, <2>2, <2>3
  <2>6. ASSUME ~interrupted'
        PROVE  artifacts' \subseteq current' /\ \A key \in analyses' : <<key, "analysis">> \in current'
    <3>1. ~interrupted
      BY <1>7, <2>6
    <3>2. arts \subseteq facts /\ \A key \in held_keys : <<key, "analysis">> \in facts
      BY <1>7, <3>1
    <3>3. \/ artifacts' = arts \ O /\ current' = facts \ O
          \/ artifacts' = arts \cup O /\ current' = facts \cup O
      BY <1>7, <2>1, <2>2
    <3>4. QED
      BY <1>7, <2>4, <3>2, <3>3
  <2>7. QED
    BY <2>5, <2>6 DEF FactsInv
<1>8. CASE RefusePass
  <2>1. /\ At("pass") /\ artifacts' = artifacts \ Rejected({})
        /\ current' = current \ Outputs(Name, {}, current_unit)
        /\ analyses' = analyses /\ interrupted' \in {interrupted, TRUE}
    BY <1>8 DEF RefusePass
  <2>2. QED
    BY <1>2, <1>7, <2>1
<1>9. CASE InterruptPass
  <2>1. /\ At("result") /\ artifacts' = artifacts \ Rejected({})
        /\ current' = current \ Outputs(Name, {}, Head(todo).unit)
        /\ analyses' = analyses /\ interrupted' \in {interrupted, TRUE}
    BY <1>9 DEF InterruptPass
  <2>2. current' = current \ Outputs(Name, {}, current_unit)
    BY <1>6, <2>1
  <2>3. QED
    BY <1>2, <1>7, <2>1, <2>2
<1>10. CASE get_or_run
  <2>1. PICK key \in Analyses :
          /\ analyses' = analyses \cup {key}
          /\ current' = IF key \in analyses THEN current ELSE current \cup {<<key, "analysis">>}
    BY <1>10 DEF get_or_run
  <2>2. UNCHANGED <<artifacts, interrupted>>
    BY <1>10 DEF get_or_run
  <2>3. CASE key \in analyses
    BY <1>2, <2>1, <2>2, <2>3 DEF FactsInv
  <2>4. CASE key \notin analyses
    BY <1>2, <2>1, <2>2, <2>4 DEF FactsInv
  <2>5. QED
    BY <2>3, <2>4
<1>11. ASSUME NEW changed \in BOOLEAN, NEW preserved \in Preserves
       PROVE  LET held_keys == IF changed THEN KeptAnalyses(preserved, analyses) ELSE analyses
                  facts == IF changed THEN Surviving(preserved) ELSE current
              IN  /\ Remaining(changed, preserved) \subseteq artifacts /\ held_keys \subseteq analyses
                  /\ ~interrupted => /\ Remaining(changed, preserved) \subseteq facts
                                     /\ \A key \in held_keys : <<key, "analysis">> \in facts
  <2>1. CASE changed
    BY <2>1, KeptSurvive DEF Remaining
  <2>2. CASE ~changed
    BY <1>2, <2>2 DEF Remaining
  <2>3. QED
    BY <2>1, <2>2
<1>12. CASE FailPass \/ FinishPass
  <2>1. At("result") /\ interrupted' \in {interrupted, TRUE} /\ Head(todo).unit = current_unit
    BY <1>6, <1>12 DEF FailPass, FinishPass
  <2>2. PICK changed \in BOOLEAN, preserved \in Preserves, extra \in Extras :
          /\ Invalidate(changed, preserved)
          /\ \/ /\ artifacts' = Remaining(changed, preserved) \ Rejected(extra)
                /\ current' = (IF changed THEN Surviving(preserved) ELSE current)
                                 \ Outputs(Name, extra, Head(todo).unit)
             \/ /\ artifacts' = Remaining(changed, preserved) \cup Rejected(extra)
                /\ current' = (IF changed THEN Surviving(preserved) ELSE current)
                                 \cup Outputs(Name, extra, Head(todo).unit)
    BY <1>12 DEF FailPass, FinishPass, Rejected
  <2>3. PICK arts, held_keys, facts :
          /\ arts = Remaining(changed, preserved)
          /\ held_keys = IF changed THEN KeptAnalyses(preserved, analyses) ELSE analyses
          /\ facts = IF changed THEN Surviving(preserved) ELSE current
    OBVIOUS
  <2>4. /\ arts \subseteq artifacts /\ held_keys \subseteq analyses
        /\ ~interrupted => arts \subseteq facts /\ \A key \in held_keys : <<key, "analysis">> \in facts
    BY <1>11, <2>3
  <2>5. /\ analyses' = held_keys
        /\ \/ /\ artifacts' = arts \ Rejected(extra)
              /\ current' = facts \ Outputs(Name, extra, current_unit)
           \/ /\ artifacts' = arts \cup Rejected(extra)
              /\ current' = facts \cup Outputs(Name, extra, current_unit)
    BY <2>1, <2>2, <2>3 DEF Invalidate
  <2>6. QED
    BY <1>7, <2>1, <2>4, <2>5
<1>13. QED
  BY <1>4, <1>5, <1>8, <1>9, <1>10, <1>12
     DEF PassNext, run_pipeline, RunGroup, RunForEach, RefuseForEach, NextUnit, EnterUnit, SkipPass,
         StopBefore, StartPass

(* Available artifacts and cached analyses describe the context as it is,  *)
(* a result is taken in the unit its pass was run for, and a pipeline ends *)
(* with no unit current: for any passes, steps, units and reports.         *)
THEOREM ArtifactsAreCurrent == PassSpec => []AvailableIsCurrent
<1>1. PassInit => PlaceInv /\ FactsInv
  <2> SUFFICES ASSUME PassInit PROVE PlaceInv /\ FactsInv
    OBVIOUS
  <2>1. todo = <<>> /\ current_unit = NoUnit
    BY DEF PassInit
  <2>2. <<>> \in Seq(Steps)
    BY EmptySeq
  <2>3. Leads(current_unit, todo, NoUnit)
    BY <2>1, <2>2, LeadsNowhere
  <2>4. runs \in 0 .. MaxRuns
    BY PassAssumption, SMT DEF PassInit
  <2>5. PlaceInv
    BY <2>1, <2>3, <2>4 DEF PassInit, PlaceInv, Units
  <2>6. FactsInv
    BY DEF PassInit, FactsInv
  <2>7. QED
    BY <2>5, <2>6
<1>2. (PlaceInv /\ FactsInv) /\ [PassNext]_passVars => (PlaceInv /\ FactsInv)'
  <2>1. ASSUME PlaceInv, FactsInv, UNCHANGED passVars PROVE PlaceInv' /\ FactsInv'
    BY <2>1 DEF PlaceInv, FactsInv, passVars
  <2>2. QED
    BY <2>1, PlaceStep, FactsStep
<1>3. PlaceInv /\ FactsInv => AvailableIsCurrent
  <2> SUFFICES ASSUME PlaceInv, FactsInv PROVE AvailableIsCurrent
    OBVIOUS
  <2>1. Leads(current_unit, todo, NoUnit) /\ todo \in Seq(Item)
    BY DEF PlaceInv, Leads
  <2>2. \A i \in 1 .. Len(todo) : ItemOK(todo[i])
    BY <2>1, ElementOfSeq, ItemsOK
  <2>3. PassTypeOK
    BY <2>2 DEF PassTypeOK, PlaceInv, FactsInv, ItemOK
  <2>4. At("result") => current_unit = Head(todo).unit
    BY <2>1, LeadsPast DEF At
  <2>5. ASSUME todo = <<>> PROVE current_unit = NoUnit
    <3>1. Len(todo) = 0 /\ (0 + 1) - 1 = 0 /\ 1 .. 0 = {}
      BY <2>5, SMT
    <3>2. QED
      BY <2>1, <3>1 DEF Leads, InForce
  <2>6. QED
    BY <2>3, <2>4, <2>5 DEF AvailableIsCurrent, FactsInv
<1>4. QED
  BY <1>1, <1>2, <1>3, PTL DEF PassSpec
=============================================================================
