----------------------- MODULE DiskArtifactStoreProofs ------------------------
(***************************************************************************)
(* The safety properties of the disk cache, proved for every number of     *)
(* processes and every finite set of artifacts.                            *)
(***************************************************************************)
EXTENDS DiskArtifactStore, FiniteSetTheorems, TLAPS

(* Most leaves are first-order; the ones that need more name SMT.          *)
USE Zenon

(* Process p will evict enough: it has its total still to take, or what it *)
(* has decided was computed from a total no smaller than today's.          *)
DueBy(p) ==
    \/ op[p].at = "total"
    \/ op[p].at = "victims" /\ Cardinality(Payloads) - Budget <= op[p].excess
    \/ op[p].at = "evict" /\ Cardinality(Payloads \ op[p].keys) <= Budget

(* An eviction that is due has somebody who will make it.                  *)
EvictionDue == overdue \/ Cardinality(Payloads) <= Budget \/ \E p \in Process : DueBy(p)

(* Where nothing is collected, a metadata transaction that is about to     *)
(* commit has its object in place.                                         *)
ObjectFirst ==
    Collector = {} /\ Budget >= Cardinality(Key) =>
        /\ \A k \in Payloads : artifacts[k].hash \in DOMAIN objects
        /\ \A p \in Process :
              /\ op[p].at \notin {"victims", "evict", "collect", "scan"}
              /\ op[p].at = "commit" => op[p].put.hash \in DOMAIN objects

(* The inductive invariant.                                                *)
DiskInv ==
    /\ TypeOK /\ deployment \in Deployment
    /\ HitIsAsPublished /\ InvalidationIsComplete /\ EvictionDue /\ ObjectFirst

-----------------------------------------------------------------------------
(* Types *)

(* What the store is used with does not change.                            *)
LEMMA Fixed ==
    ASSUME UNCHANGED deployment
    PROVE  /\ Artifact' = Artifact /\ Collector' = Collector /\ Budget' = Budget
           /\ Key' = Key /\ Hash' = Hash /\ Fingerprint' = Fingerprint
           /\ Codec' = Codec /\ Row' = Row /\ Op' = Op
<1>1. Artifact' = Artifact /\ Collector' = Collector /\ Budget' = Budget
  BY DEF Artifact, Collector, Budget
<1>2. Key' = Key /\ Hash' = Hash /\ Fingerprint' = Fingerprint /\ Codec' = Codec
  BY <1>1 DEF Key, Hash, Fingerprint, Codec
<1>3. Row' = Row
  BY <1>2 DEF Row
<1>4. Op' = Op
  BY <1>1, <1>2, <1>3 DEF Op
<1>5. QED
  BY <1>1, <1>2, <1>3, <1>4

(* What an artifact that is put is made of.                                *)
LEMMA ArtifactParts ==
    ASSUME deployment \in Deployment, NEW x \in Artifact
    PROVE  /\ x.key \in Key /\ x.fingerprint \in Fingerprint /\ x.codec \in Codec
           /\ x.hash \in Hash /\ x.hash # NoHash
           /\ x.dependencies \in SUBSET Key
           /\ [fingerprint |-> x.fingerprint, hash |-> x.hash] \in Row
           /\ [fingerprint |-> x.fingerprint, hash |-> NoHash] \in Row
BY DiskAssumption, SMT DEF Artifact, Key, Fingerprint, Codec, Hash, Row

(* The keys are finitely many, and the budget is a number.                 *)
LEMMA KeysFinite ==
    ASSUME deployment \in Deployment
    PROVE  /\ IsFiniteSet(Key) /\ Cardinality(Key) \in Nat
           /\ Budget \in Nat /\ Budget > 0
<1>1. IsFiniteSet(Artifact) /\ Budget \in Nat \ {0}
  BY DiskAssumption DEF Artifact, Budget
<1>2. IsFiniteSet(Key)
  <2> DEFINE f == [x \in Artifact |-> x.key]
  <2>1. f \in Surjection(Artifact, Key)
    BY SMT DEF Surjection, Key
  <2>2. QED
    BY <1>1, <2>1, FS_Surjection
<1>3. QED
  BY <1>1, <1>2, FS_CardinalityType, SMT

(* The payloads are finitely many, and so are any of them.                 *)
LEMMA PayloadsFinite ==
    ASSUME deployment \in Deployment, Present \subseteq Key, NEW S, S \subseteq Payloads
    PROVE  /\ IsFiniteSet(Payloads) /\ Cardinality(Payloads) \in Nat
           /\ IsFiniteSet(S) /\ Cardinality(S) \in Nat
           /\ Cardinality(S) <= Cardinality(Payloads)
           /\ Cardinality(Payloads) <= Cardinality(Key)
<1>1. Payloads \subseteq Key
  BY DEF Payloads
<1>2. IsFiniteSet(Payloads) /\ Cardinality(Payloads) <= Cardinality(Key)
  BY <1>1, KeysFinite, FS_Subset
<1>3. IsFiniteSet(S) /\ Cardinality(S) <= Cardinality(Payloads)
  BY <1>2, FS_Subset
<1>4. QED
  BY <1>2, <1>3, FS_CardinalityType

(* The tag of what a process does tells what else is known of it.          *)
LEMMA OpParts ==
    ASSUME TypeOK, NEW p \in Process
    PROVE  /\ op[p] \in Op
           /\ op[p].at \in {"check", "link", "validate", "commit"} =>
                 op[p] \in [at : {"check", "link", "validate", "commit"}, put : Artifact]
           /\ op[p].at = "victims" => op[p] \in [at : {"victims"}, excess : 1 .. Cardinality(Key)]
           /\ op[p].at = "evict" => op[p] \in [at : {"evict"}, keys : (SUBSET Key) \ {{}}]
           /\ op[p].at = "scan" =>
                 op[p] \in [at : {"scan"}, reachable : SUBSET Hash, left : SUBSET Hash]
           /\ op[p].at = "read" => op[p] \in [at : {"read"}, key : Key, row : Row]
           /\ op[p].at = "hit" => op[p] \in [at : {"hit"}, key : Key, row : Row, codec : Codec]
           /\ op[p].at = "heal" => op[p] \in [at : {"heal"}, key : Key]
           /\ op[p].at = "closure" =>
                 op[p] \in [at : {"closure"}, queue : SUBSET Key, seen : SUBSET Key,
                            written : SUBSET Key]
<1>1. op[p] \in Op
  BY DEF TypeOK
<1>2. QED
  BY <1>1, SMT DEF Op

-----------------------------------------------------------------------------
(* The index *)

RowsOK ==
    /\ Present \subseteq Key /\ \A k \in Present : artifacts[k] \in Row
    /\ dependencies \subseteq Present \X Key
    /\ reverse_dependencies = {<<e[2], e[1]>> : e \in dependencies}

ObjectsOK ==
    /\ DOMAIN objects \subseteq Hash
    /\ \A h \in DOMAIN objects : \E x \in Artifact : x.hash = h /\ objects[h] = Header(x)

(* A row is written with its edges.                                        *)
LEMMA UpsertEffect ==
    ASSUME RowsOK, UNCHANGED deployment,
           NEW k \in Key, NEW row \in Row, NEW on \in SUBSET Key, Upsert(k, row, on)
    PROVE  /\ RowsOK'
           /\ Present' = Present \cup {k} /\ artifacts'[k] = row
           /\ \A j \in Present \ {k} : artifacts'[j] = artifacts[j]
           /\ \A e \in dependencies' : e \in dependencies \/ e[1] = k
<1>0. Key' = Key /\ Row' = Row
  BY Fixed
<1>1. /\ Present' = Present \cup {k} /\ artifacts'[k] = row
      /\ \A j \in Present \ {k} : artifacts'[j] = artifacts[j]
  BY SMT DEF Upsert, Present
<1>2. dependencies' = {e \in dependencies : e[1] # k} \cup {<<k, d>> : d \in on}
  BY DEF Upsert
<1>3. reverse_dependencies' = {e \in reverse_dependencies : e[2] # k} \cup {<<d, k>> : d \in on}
  BY DEF Upsert
<1>4. \A e \in dependencies' : e \in dependencies \/ e[1] = k
  BY <1>2, SMT
<1>5. dependencies' \subseteq Present' \X Key'
  BY <1>0, <1>1, <1>2, SMT DEF RowsOK
<1>6. reverse_dependencies' = {<<e[2], e[1]>> : e \in dependencies'}
  <2>1. ASSUME NEW r \in reverse_dependencies' PROVE \E e \in dependencies' : r = <<e[2], e[1]>>
    <3>1. CASE r \in {<<d, k>> : d \in on}
      <4>1. PICK d \in on : r = <<d, k>>
        BY <3>1
      <4>2. <<k, d>> \in dependencies' /\ r = << <<k, d>>[2], <<k, d>>[1] >>
        BY <1>2, <4>1, SMT
      <4>3. QED
        BY <4>2
    <3>2. CASE r \in reverse_dependencies /\ r[2] # k
      <4>1. PICK e \in dependencies : r = <<e[2], e[1]>>
        BY <3>2 DEF RowsOK
      <4>2. e \in dependencies'
        BY <1>2, <3>2, <4>1, SMT
      <4>3. QED
        BY <4>1, <4>2
    <3>3. QED
      BY <1>3, <3>1, <3>2
  <2>2. ASSUME NEW e \in dependencies' PROVE <<e[2], e[1]>> \in reverse_dependencies'
    BY <1>2, <1>3, SMT DEF RowsOK
  <2>3. QED
    BY <2>1, <2>2
<1>7. \A j \in Present' : artifacts'[j] \in Row'
  BY <1>0, <1>1 DEF RowsOK
<1>8. QED
  BY <1>0, <1>1, <1>4, <1>5, <1>6, <1>7 DEF RowsOK

(* Rows go with the edges at either end, and nothing else changes.         *)
LEMMA RemoveEffect ==
    ASSUME RowsOK, UNCHANGED deployment, NEW STATE keys, remove_rows(keys)
    PROVE  /\ RowsOK'
           /\ Present' = Present \ keys
           /\ \A j \in Present \ keys : artifacts'[j] = artifacts[j]
           /\ Payloads' = Payloads \ keys
           /\ dependencies' \subseteq dependencies
<1>0. Key' = Key /\ Row' = Row
  BY Fixed
<1>1. /\ Present' = Present \ keys
      /\ \A j \in Present \ keys : artifacts'[j] = artifacts[j]
  BY SMT DEF remove_rows, Present, Restrict
<1>2. Payloads' = Payloads \ keys
  BY <1>1 DEF Payloads
<1>3. dependencies' = {e \in dependencies : e[1] \notin keys /\ e[2] \notin keys}
  BY DEF remove_rows
<1>4. reverse_dependencies' =
           {e \in reverse_dependencies : e[1] \notin keys /\ e[2] \notin keys}
  BY DEF remove_rows
<1>5. dependencies' \subseteq Present' \X Key'
  BY <1>0, <1>1, <1>3, SMT DEF RowsOK
<1>6. reverse_dependencies' = {<<e[2], e[1]>> : e \in dependencies'}
  <2>1. ASSUME NEW r \in reverse_dependencies' PROVE \E e \in dependencies' : r = <<e[2], e[1]>>
    BY <1>3, <1>4, SMT DEF RowsOK
  <2>2. ASSUME NEW e \in dependencies' PROVE <<e[2], e[1]>> \in reverse_dependencies'
    BY <1>3, <1>4, SMT DEF RowsOK
  <2>3. QED
    BY <2>1, <2>2
<1>7. QED
  BY <1>0, <1>1, <1>2, <1>3, <1>5, <1>6 DEF RowsOK

-----------------------------------------------------------------------------
(* What most steps have in common *)

(* Nothing is collected, on demand or after an eviction.                   *)
NothingCollected == Collector = {} /\ Budget >= Cardinality(Key)

(* What an operation v must show to be one of the invariant's.             *)
HitOK(v) ==
    v.at = "hit" =>
        \E x \in Artifact : /\ x.key = v.key /\ x.codec = v.codec
                            /\ x.fingerprint = v.row.fingerprint /\ x.hash = v.row.hash
ClosureOK(v) ==
    v.at = "closure" =>
        \A e \in dependencies : e[2] \in v.seen => e[1] \in v.seen \cup v.queue \cup v.written

(* Fewer payloads need no more evictions; those that processes other than  *)
(* p have ahead are still enough.                                          *)
LEMMA EvictionKept ==
    ASSUME TypeOK, deployment \in Deployment, EvictionDue, UNCHANGED deployment,
           overdue => overdue', Payloads' \subseteq Payloads, NEW p,
           \A q \in Process \ {p} :
               op[q].at \in {"total", "victims", "evict"} => op'[q] = op[q]
    PROVE  EvictionDue' \/ (p \in Process /\ DueBy(p))
<1>0. Present \subseteq Key /\ Budget \in Nat /\ Budget' = Budget
  BY KeysFinite, Fixed DEF TypeOK
<1>1. /\ Cardinality(Payloads) \in Nat /\ Cardinality(Payloads') \in Nat
      /\ Cardinality(Payloads') <= Cardinality(Payloads)
  BY <1>0, PayloadsFinite
<1>2. CASE overdue \/ Cardinality(Payloads) <= Budget
  BY <1>0, <1>1, <1>2, SMT DEF EvictionDue
<1>3. ASSUME NEW q \in Process \ {p}, op[q].at = "total" PROVE EvictionDue'
  BY <1>3 DEF EvictionDue, DueBy
<1>4. ASSUME NEW q \in Process \ {p}, op[q].at = "victims",
             Cardinality(Payloads) - Budget <= op[q].excess
      PROVE  EvictionDue'
  <2>1. op[q].excess \in Int
    BY <1>4, OpParts, SMT
  <2>2. op'[q] = op[q]
    BY <1>4
  <2>3. Cardinality(Payloads') - Budget' <= op'[q].excess
    BY <1>0, <1>1, <1>4, <2>1, <2>2, SMT
  <2>4. QED
    BY <1>4, <2>2, <2>3 DEF EvictionDue, DueBy
<1>5. ASSUME NEW q \in Process \ {p}, op[q].at = "evict", Cardinality(Payloads \ op[q].keys) <= Budget
      PROVE  EvictionDue'
  <2>1. op'[q] = op[q]
    BY <1>5
  <2>2. IsFiniteSet(Payloads \ op[q].keys)
    BY <1>0, PayloadsFinite
  <2>3. Payloads' \ op[q].keys \subseteq Payloads \ op[q].keys
    OBVIOUS
  <2>4. /\ Cardinality(Payloads' \ op[q].keys) <= Cardinality(Payloads \ op[q].keys)
        /\ IsFiniteSet(Payloads' \ op[q].keys)
    BY <2>2, <2>3, FS_Subset
  <2>5. Cardinality(Payloads' \ op[q].keys) \in Nat /\ Cardinality(Payloads \ op[q].keys) \in Nat
    BY <2>2, <2>4, FS_CardinalityType
  <2>6. Cardinality(Payloads' \ op'[q].keys) <= Budget'
    BY <1>0, <1>5, <2>1, <2>4, <2>5, SMT
  <2>7. QED
    BY <1>5, <2>1, <2>6 DEF EvictionDue, DueBy
<1>6. QED
  BY <1>2, <1>3, <1>4, <1>5 DEF EvictionDue, DueBy

(* One process goes on to v, and no row is written.                        *)
LEMMA ProcessStep ==
    ASSUME DiskInv, UNCHANGED deployment, NEW p \in Process, NEW STATE v,
           v \in Op, Become(p, v), HitOK(v), ClosureOK(v),
           RowsOK', ObjectsOK', overdue' \in BOOLEAN, overdue => overdue',
           Payloads' \subseteq Payloads, \A k \in Payloads' : artifacts'[k] = artifacts[k],
           dependencies' \subseteq dependencies,
           NothingCollected =>
               /\ DOMAIN objects \subseteq DOMAIN objects'
               /\ v.at \notin {"victims", "evict", "collect", "scan"}
               /\ v.at = "commit" => v.put.hash \in DOMAIN objects',
           DueBy(p) => EvictionDue'
    PROVE  DiskInv'
<1>0. /\ Artifact' = Artifact /\ Op' = Op /\ NothingCollected' = NothingCollected
      /\ deployment' \in Deployment
  BY Fixed DEF NothingCollected, DiskInv
<1>1. /\ op' \in [Process -> Op] /\ op'[p] = v
      /\ \A q \in Process : q # p => op'[q] = op[q]
  BY SMT DEF DiskInv, TypeOK, Become
<1>2. TypeOK'
  BY <1>0, <1>1 DEF TypeOK, RowsOK, ObjectsOK
<1>3. HitIsAsPublished'
  <2>1. ASSUME NEW q \in Process, op'[q].at = "hit"
        PROVE  \E x \in Artifact :
                  /\ x.key = op'[q].key /\ x.codec = op'[q].codec
                  /\ x.fingerprint = op'[q].row.fingerprint /\ x.hash = op'[q].row.hash
    <3>1. CASE q = p
      BY <1>1, <2>1, <3>1 DEF HitOK
    <3>2. CASE q # p
      <4>1. op'[q] = op[q] /\ op[q].at = "hit"
        BY <1>1, <2>1, <3>2
      <4>2. QED
        BY <4>1, SMT DEF DiskInv, HitIsAsPublished
    <3>3. QED
      BY <3>1, <3>2
  <2>2. QED
    BY <1>0, <2>1 DEF HitIsAsPublished
<1>4. InvalidationIsComplete'
  BY <1>1 DEF DiskInv, InvalidationIsComplete, ClosureOK
<1>5. EvictionDue'
  <2>1. \A q \in Process \ {p} : op'[q] = op[q]
    BY <1>1
  <2>2. QED
    BY <2>1, EvictionKept DEF DiskInv
<1>6. ObjectFirst'
  <2>1. SUFFICES ASSUME NothingCollected
                 PROVE  /\ \A k \in Payloads' : artifacts'[k].hash \in DOMAIN objects'
                        /\ \A q \in Process :
                              /\ op'[q].at \notin {"victims", "evict", "collect", "scan"}
                              /\ op'[q].at = "commit" => op'[q].put.hash \in DOMAIN objects'
    BY <1>0 DEF ObjectFirst, NothingCollected
  <2>2. /\ \A k \in Payloads : artifacts[k].hash \in DOMAIN objects
        /\ \A q \in Process :
              /\ op[q].at \notin {"victims", "evict", "collect", "scan"}
              /\ op[q].at = "commit" => op[q].put.hash \in DOMAIN objects
    BY <2>1 DEF DiskInv, ObjectFirst, NothingCollected
  <2>3. \A k \in Payloads' : artifacts'[k].hash \in DOMAIN objects'
    BY <2>1, <2>2
  <2>4. ASSUME NEW q \in Process
        PROVE  /\ op'[q].at \notin {"victims", "evict", "collect", "scan"}
               /\ op'[q].at = "commit" => op'[q].put.hash \in DOMAIN objects'
    BY <1>1, <2>1, <2>2
  <2>5. QED
    BY <2>3, <2>4
<1>7. QED
  BY <1>0, <1>2, <1>3, <1>4, <1>5, <1>6 DEF DiskInv

(* The rows and the objects of a step that leaves them alone.              *)
LEMMA RowsFrame ==
    ASSUME TypeOK, UNCHANGED deployment, UNCHANGED rows
    PROVE  /\ RowsOK' /\ Payloads' = Payloads /\ dependencies' = dependencies
           /\ artifacts' = artifacts
<1>1. Key' = Key /\ Row' = Row
  BY Fixed
<1>2. UNCHANGED <<artifacts, dependencies, reverse_dependencies>>
  BY DEF rows
<1>3. QED
  BY <1>1, <1>2 DEF TypeOK, RowsOK, Present, Payloads

LEMMA ObjectsFrame ==
    ASSUME TypeOK, UNCHANGED deployment, UNCHANGED objects
    PROVE  ObjectsOK'
BY Fixed DEF TypeOK, ObjectsOK, Header

(* One process goes on to v, and nothing else happens.                     *)
LEMMA QuietStep ==
    ASSUME DiskInv, UNCHANGED deployment, NEW p \in Process, NEW STATE v,
           v \in Op, Become(p, v), HitOK(v), ClosureOK(v), UNCHANGED <<rows, objects, overdue>>,
           NothingCollected =>
               /\ v.at \notin {"victims", "evict", "collect", "scan"}
               /\ v.at = "commit" => v.put.hash \in DOMAIN objects,
           DueBy(p) => EvictionDue'
    PROVE  DiskInv'
<1>1. TypeOK /\ overdue' = overdue /\ objects' = objects /\ UNCHANGED rows
  BY DEF DiskInv
<1>2. /\ RowsOK' /\ Payloads' = Payloads /\ dependencies' = dependencies
      /\ artifacts' = artifacts /\ ObjectsOK'
  BY <1>1, RowsFrame, ObjectsFrame
<1>3. overdue' \in BOOLEAN
  BY <1>1 DEF TypeOK
<1>4. /\ (overdue => overdue') /\ Payloads' \subseteq Payloads
      /\ \A k \in Payloads' : artifacts'[k] = artifacts[k]
      /\ dependencies' \subseteq dependencies
  BY <1>1, <1>2, SMT
<1>5. NothingCollected =>
          /\ DOMAIN objects \subseteq DOMAIN objects'
          /\ v.at \notin {"victims", "evict", "collect", "scan"}
          /\ v.at = "commit" => v.put.hash \in DOMAIN objects'
  BY <1>1
<1>6. QED
  BY <1>2, <1>3, <1>4, <1>5, ProcessStep

-----------------------------------------------------------------------------
(* put_bytes_with_report and put_metadata *)

LEMMA PutStep ==
    ASSUME DiskInv, UNCHANGED deployment, NEW p \in Process, NEW x \in Artifact, Put(p, x)
    PROVE  DiskInv'
<1>1. PICK v : v = [at |-> "check", put |-> x]
  OBVIOUS
<1>2. v \in Op /\ v.at = "check" /\ op[p].at = "idle"
  <2>1. op[p] = Idle
    BY DEF Put
  <2>2. QED
    BY <1>1, <2>1, SMT DEF Op, Idle
<1>3. HitOK(v) /\ ClosureOK(v)
  BY <1>2 DEF HitOK, ClosureOK
<1>4. Become(p, v) /\ UNCHANGED <<rows, objects, overdue>>
  BY <1>1 DEF Put
<1>5. QED
  BY <1>2, <1>3, <1>4, QuietStep DEF DueBy

LEMMA CheckStep ==
    ASSUME DiskInv, UNCHANGED deployment, NEW p \in Process, Check(p)
    PROVE  DiskInv'
<1>1. PICK v : v = [op[p] EXCEPT !.at = IF op[p].put.hash \in DOMAIN objects
                                         THEN "validate" ELSE "link"]
  OBVIOUS
<1>2. op[p].at = "check"
      /\ op[p] \in [at : {"check", "link", "validate", "commit"}, put : Artifact]
  BY OpParts DEF Check, DiskInv
<1>3. v \in Op /\ v.at \in {"validate", "link"}
  BY <1>1, <1>2, SMT DEF Op
<1>4. HitOK(v) /\ ClosureOK(v)
  BY <1>3 DEF HitOK, ClosureOK
<1>5. Become(p, v) /\ UNCHANGED <<rows, objects, overdue>>
  BY <1>1 DEF Check
<1>6. QED
  BY <1>2, <1>3, <1>4, <1>5, QuietStep DEF DueBy

LEMMA ValidateStep ==
    ASSUME DiskInv, UNCHANGED deployment, NEW p \in Process, Validate(p)
    PROVE  DiskInv'
<1>0. op[p].at = "validate"
      /\ op[p] \in [at : {"check", "link", "validate", "commit"}, put : Artifact]
  BY OpParts DEF Validate, DiskInv
<1>1. PICK v : /\ Become(p, v)
               /\ \/ v = [op[p] EXCEPT !.at = "commit"] /\ op[p].put.hash \in DOMAIN objects
                  \/ v = Idle
  BY DEF Validate
<1>2. /\ v \in Op /\ v.at \in {"commit", "idle"}
      /\ v.at = "commit" => v.put.hash \in DOMAIN objects
  BY <1>0, <1>1, SMT DEF Op, Idle
<1>3. HitOK(v) /\ ClosureOK(v)
  BY <1>2 DEF HitOK, ClosureOK
<1>4. UNCHANGED <<rows, objects, overdue>>
  BY DEF Validate
<1>5. QED
  BY <1>0, <1>1, <1>2, <1>3, <1>4, QuietStep DEF DueBy

(* The object is in place before the metadata is committed.                *)
LEMMA LinkStep ==
    ASSUME DiskInv, UNCHANGED deployment, NEW p \in Process, Link(p)
    PROVE  DiskInv'
<1>0. op[p].at = "link"
      /\ op[p] \in [at : {"check", "link", "validate", "commit"}, put : Artifact]
  BY OpParts DEF Link, DiskInv
<1>1. PICK x : x = op[p].put
  OBVIOUS
<1>2. x \in Artifact /\ x.hash \in Hash
  <2>1. x \in Artifact
    BY <1>0, <1>1, SMT
  <2>2. QED
    BY <2>1, ArtifactParts DEF DiskInv
<1>3. PICK v : v = [op[p] EXCEPT !.at = IF x.hash \in DOMAIN objects THEN "validate" ELSE "commit"]
  OBVIOUS
<1>4. v \in Op /\ v.at \in {"validate", "commit"} /\ v.put = x
  BY <1>0, <1>1, <1>2, <1>3, SMT DEF Op
<1>5. /\ Become(p, v) /\ UNCHANGED rows /\ UNCHANGED overdue
      /\ objects' = IF x.hash \in DOMAIN objects
                    THEN objects
                    ELSE [h \in DOMAIN objects \cup {x.hash} |->
                             IF h = x.hash THEN Header(x) ELSE objects[h]]
  BY <1>1, <1>3 DEF Link
<1>6. /\ DOMAIN objects' = DOMAIN objects \cup {x.hash}
      /\ \A h \in DOMAIN objects' :
            \/ h \in DOMAIN objects /\ objects'[h] = objects[h]
            \/ h = x.hash /\ objects'[h] = Header(x)
  BY <1>5, SMT
<1>7. ObjectsOK'
  <2>1. Artifact' = Artifact /\ Hash' = Hash
    BY Fixed
  <2>2. DOMAIN objects' \subseteq Hash
    BY <1>2, <1>6 DEF DiskInv, TypeOK
  <2>3. ASSUME NEW h \in DOMAIN objects'
        PROVE  \E y \in Artifact : y.hash = h /\ objects'[h] = Header(y)
    BY <1>2, <1>6 DEF DiskInv, TypeOK
  <2>4. QED
    BY <2>1, <2>2, <2>3 DEF ObjectsOK, Header
<1>8. RowsOK' /\ Payloads' = Payloads /\ artifacts' = artifacts /\ dependencies' = dependencies
  BY <1>5, RowsFrame DEF DiskInv
<1>9. HitOK(v) /\ ClosureOK(v) /\ overdue' \in BOOLEAN
  BY <1>4, <1>5 DEF HitOK, ClosureOK, DiskInv, TypeOK
<1>10. QED
  BY <1>0, <1>4, <1>5, <1>6, <1>7, <1>8, <1>9, ProcessStep DEF DueBy

(* An invalidation under way takes note of a write, and goes on as it was. *)
LEMMA NotedEffect ==
    ASSUME TypeOK, NEW k \in Key
    PROVE  /\ Noted(k) \in [Process -> Op]
           /\ \A q \in Process :
                 /\ Noted(k)[q].at = op[q].at
                 /\ op[q].at # "closure" => Noted(k)[q] = op[q]
                 /\ op[q].at = "closure" =>
                       /\ Noted(k)[q].seen = op[q].seen /\ Noted(k)[q].queue = op[q].queue
                       /\ Noted(k)[q].written = op[q].written \cup {k}
<1>1. ASSUME NEW q \in Process, op[q].at = "closure"
      PROVE  /\ Noted(k)[q] \in Op /\ Noted(k)[q].at = "closure"
             /\ Noted(k)[q].seen = op[q].seen /\ Noted(k)[q].queue = op[q].queue
             /\ Noted(k)[q].written = op[q].written \cup {k}
  <2>1. op[q] \in [at : {"closure"}, queue : SUBSET Key, seen : SUBSET Key, written : SUBSET Key]
    BY <1>1, OpParts
  <2>2. Noted(k)[q] = [op[q] EXCEPT !.written = @ \cup {k}]
    BY <1>1, SMT DEF Noted
  <2>3. QED
    BY <2>1, <2>2, SMT DEF Op
<1>2. ASSUME NEW q \in Process, op[q].at # "closure" PROVE Noted(k)[q] = op[q] /\ op[q] \in Op
  BY <1>2, SMT DEF Noted, TypeOK
<1>3. Noted(k) \in [Process -> Op]
  <2>1. \A q \in Process : Noted(k)[q] \in Op
    BY <1>1, <1>2
  <2>2. Noted(k) = [q \in Process |-> Noted(k)[q]]
    BY SMT DEF Noted
  <2>3. QED
    BY <2>1, <2>2, SMT
<1>4. QED
  BY <1>1, <1>2, <1>3

(* A row is written for x, and the processes take note.                    *)
LEMMA WriteStep ==
    ASSUME DiskInv, UNCHANGED deployment, UNCHANGED <<objects, overdue>>,
           NEW x \in Artifact, NEW row \in Row,
           NothingCollected => row.hash \in {NoHash} \cup DOMAIN objects,
           Upsert(x.key, row, x.dependencies), op' \in [Process -> Op],
           \A q \in Process : op'[q] = Noted(x.key)[q] \/ op'[q] = [at |-> "total"],
           EvictionDue'
    PROVE  DiskInv'
<1>0. /\ Artifact' = Artifact /\ Op' = Op /\ NothingCollected' = NothingCollected
      /\ deployment' \in Deployment
  BY Fixed DEF NothingCollected, DiskInv
<1>1. x.key \in Key /\ x.dependencies \in SUBSET Key
  BY ArtifactParts DEF DiskInv
<1>2. /\ RowsOK'
      /\ Present' = Present \cup {x.key} /\ artifacts'[x.key] = row
      /\ \A j \in Present \ {x.key} : artifacts'[j] = artifacts[j]
      /\ \A e \in dependencies' : e \in dependencies \/ e[1] = x.key
  BY <1>1, UpsertEffect DEF DiskInv, TypeOK, RowsOK
<1>3. \A q \in Process :
          \/ op'[q].at = "total"
          \/ op'[q].at # "closure" /\ op'[q] = op[q]
          \/ /\ op'[q].at = "closure" /\ op[q].at = "closure"
             /\ op'[q].seen = op[q].seen /\ op'[q].queue = op[q].queue
             /\ op'[q].written = op[q].written \cup {x.key}
  <2>1. SUFFICES ASSUME NEW q \in Process, op'[q] = Noted(x.key)[q]
                 PROVE  \/ op'[q].at # "closure" /\ op'[q] = op[q]
                        \/ /\ op'[q].at = "closure" /\ op[q].at = "closure"
                           /\ op'[q].seen = op[q].seen /\ op'[q].queue = op[q].queue
                           /\ op'[q].written = op[q].written \cup {x.key}
    BY SMT
  <2>2. /\ Noted(x.key)[q].at = op[q].at
        /\ op[q].at # "closure" => Noted(x.key)[q] = op[q]
        /\ op[q].at = "closure" =>
              /\ Noted(x.key)[q].seen = op[q].seen /\ Noted(x.key)[q].queue = op[q].queue
              /\ Noted(x.key)[q].written = op[q].written \cup {x.key}
    BY <1>1, NotedEffect DEF DiskInv
  <2>3. QED
    BY <2>1, <2>2, SMT
<1>4. TypeOK'
  <2>1. ObjectsOK' /\ overdue' \in BOOLEAN
    BY ObjectsFrame DEF DiskInv, TypeOK
  <2>2. QED
    BY <1>0, <1>2, <2>1 DEF TypeOK, RowsOK, ObjectsOK
<1>5. HitIsAsPublished'
  <2>1. ASSUME NEW q \in Process, op'[q].at = "hit" PROVE op'[q] = op[q]
    BY <1>3, <2>1, SMT
  <2>2. QED
    BY <1>0, <2>1, SMT DEF DiskInv, HitIsAsPublished
<1>6. InvalidationIsComplete'
  <2>1. SUFFICES ASSUME NEW q \in Process, op'[q].at = "closure",
                        NEW e \in dependencies', e[2] \in op'[q].seen
                 PROVE  e[1] \in op'[q].seen \cup op'[q].queue \cup op'[q].written
    BY DEF InvalidationIsComplete
  <2>2. /\ op[q].at = "closure" /\ op'[q].seen = op[q].seen /\ op'[q].queue = op[q].queue
        /\ op'[q].written = op[q].written \cup {x.key}
    BY <1>3, <2>1, SMT
  <2>3. QED
    BY <1>2, <2>1, <2>2 DEF DiskInv, InvalidationIsComplete
<1>7. ObjectFirst'
  <2>1. SUFFICES ASSUME NothingCollected
                 PROVE  /\ \A k \in Payloads' : artifacts'[k].hash \in DOMAIN objects'
                        /\ \A q \in Process :
                              /\ op'[q].at \notin {"victims", "evict", "collect", "scan"}
                              /\ op'[q].at = "commit" => op'[q].put.hash \in DOMAIN objects'
    BY <1>0 DEF ObjectFirst, NothingCollected
  <2>2. /\ \A k \in Payloads : artifacts[k].hash \in DOMAIN objects
        /\ \A q \in Process :
              /\ op[q].at \notin {"victims", "evict", "collect", "scan"}
              /\ op[q].at = "commit" => op[q].put.hash \in DOMAIN objects
    BY <2>1 DEF DiskInv, ObjectFirst, NothingCollected
  <2>3. objects' = objects
    OBVIOUS
  <2>4. ASSUME NEW k \in Payloads' PROVE artifacts'[k].hash \in DOMAIN objects'
    <3>1. k \in Present' /\ artifacts'[k].hash # NoHash
      BY <2>4 DEF Payloads
    <3>2. CASE k = x.key
      BY <1>2, <2>1, <2>3, <3>1, <3>2
    <3>3. CASE k # x.key
      BY <1>2, <2>2, <2>3, <3>1, <3>3 DEF Payloads
    <3>4. QED
      BY <3>2, <3>3
  <2>5. ASSUME NEW q \in Process
        PROVE  /\ op'[q].at \notin {"victims", "evict", "collect", "scan"}
               /\ op'[q].at = "commit" => op'[q].put.hash \in DOMAIN objects'
    BY <1>3, <2>2, <2>3, SMT
  <2>6. QED
    BY <2>4, <2>5
<1>8. QED
  BY <1>0, <1>4, <1>5, <1>6, <1>7 DEF DiskInv

LEMMA CommitStep ==
    ASSUME DiskInv, UNCHANGED deployment, NEW p \in Process, Commit(p)
    PROVE  DiskInv'
<1>0. op[p].at = "commit"
      /\ op[p] \in [at : {"check", "link", "validate", "commit"}, put : Artifact]
  BY OpParts DEF Commit, DiskInv
<1>1. PICK x \in Artifact : x = op[p].put
  BY <1>0, SMT
<1>2. PICK row : row = [fingerprint |-> x.fingerprint, hash |-> x.hash]
  OBVIOUS
<1>3. row \in Row /\ row.hash = x.hash /\ x.key \in Key
  <2>1. row \in Row /\ x.key \in Key
    BY <1>2, ArtifactParts DEF DiskInv
  <2>2. row.hash = x.hash
    BY <1>2, SMT
  <2>3. QED
    BY <2>1, <2>2
<1>4. /\ Upsert(x.key, row, x.dependencies) /\ UNCHANGED <<objects, overdue>>
      /\ op' = [Noted(x.key) EXCEPT ![p] = [at |-> "total"]]
  BY <1>1, <1>2 DEF Commit
<1>5. Noted(x.key) \in [Process -> Op] /\ [at |-> "total"] \in Op
  <2>1. Noted(x.key) \in [Process -> Op]
    BY <1>3, NotedEffect DEF DiskInv
  <2>2. [at |-> "total"] \in Op
    BY SMT DEF Op
  <2>3. QED
    BY <2>1, <2>2
<1>6. /\ op' \in [Process -> Op] /\ op'[p].at = "total"
      /\ \A q \in Process : op'[q] = Noted(x.key)[q] \/ op'[q] = [at |-> "total"]
  BY <1>4, <1>5, SMT
<1>7. EvictionDue'
  BY <1>6 DEF EvictionDue, DueBy
<1>8. NothingCollected => row.hash \in {NoHash} \cup DOMAIN objects
  BY <1>0, <1>1, <1>3 DEF DiskInv, ObjectFirst, NothingCollected
<1>9. QED
  BY <1>3, <1>4, <1>6, <1>7, <1>8, WriteStep

LEMMA PutMetadataStep ==
    ASSUME DiskInv, UNCHANGED deployment, NEW p \in Process, NEW x \in Artifact, PutMetadata(p, x)
    PROVE  DiskInv'
<1>1. PICK row : row = [fingerprint |-> x.fingerprint, hash |-> NoHash]
  OBVIOUS
<1>2. row \in Row /\ row.hash = NoHash /\ x.key \in Key /\ x.dependencies \in SUBSET Key
  <2>1. row \in Row /\ x.key \in Key /\ x.dependencies \in SUBSET Key
    BY <1>1, ArtifactParts DEF DiskInv
  <2>2. row.hash = NoHash
    BY <1>1, SMT
  <2>3. QED
    BY <2>1, <2>2
<1>3. /\ Upsert(x.key, row, x.dependencies) /\ UNCHANGED <<objects, overdue>>
      /\ op' = Noted(x.key)
  BY <1>1 DEF PutMetadata
<1>4. op' \in [Process -> Op]
  BY <1>2, <1>3, NotedEffect DEF DiskInv
<1>5. Payloads' \subseteq Payloads
  <2>1. /\ Present' = Present \cup {x.key} /\ artifacts'[x.key] = row
        /\ \A j \in Present \ {x.key} : artifacts'[j] = artifacts[j]
    BY <1>2, <1>3, UpsertEffect DEF DiskInv, TypeOK, RowsOK
  <2>2. QED
    BY <1>2, <2>1 DEF Payloads
<1>6. EvictionDue'
  <2>1. \A q \in Process : op[q].at \in {"total", "victims", "evict"} => op'[q] = op[q]
    BY <1>2, <1>3, NotedEffect DEF DiskInv
  <2>2. ~DueBy(p)
    BY SMT DEF PutMetadata, Idle, DueBy
  <2>3. overdue => overdue'
    BY <1>3, SMT
  <2>4. QED
    BY <1>5, <2>1, <2>2, <2>3, EvictionKept DEF DiskInv
<1>7. QED
  BY <1>2, <1>3, <1>4, <1>6, WriteStep

-----------------------------------------------------------------------------
(* enforce_budgets_after_write, evict_to_budget *)

LEMMA TotalStep ==
    ASSUME DiskInv, UNCHANGED deployment, NEW p \in Process, Total(p)
    PROVE  DiskInv'
<1>0. /\ Budget \in Nat /\ Budget > 0 /\ Cardinality(Payloads) \in Nat
      /\ Cardinality(Payloads) <= Cardinality(Key) /\ Cardinality(Key) \in Nat
  BY KeysFinite, PayloadsFinite DEF DiskInv, TypeOK
<1>1. UNCHANGED <<rows, objects, overdue>> /\ Payloads' = Payloads /\ Budget' = Budget
  BY RowsFrame, Fixed DEF Total, DiskInv
<1>2. CASE Cardinality(Payloads) <= Budget
  <2>1. Become(p, Idle)
    BY <1>2 DEF Total
  <2>2. Idle \in Op /\ Idle.at = "idle"
    BY SMT DEF Idle, Op
  <2>3. HitOK(Idle) /\ ClosureOK(Idle)
    BY <2>2 DEF HitOK, ClosureOK
  <2>4. EvictionDue'
    BY <1>1, <1>2 DEF EvictionDue
  <2>5. QED
    BY <1>1, <2>1, <2>2, <2>3, <2>4, QuietStep
<1>3. CASE ~(Cardinality(Payloads) <= Budget)
  <2>1. PICK v : v = [at |-> "victims", excess |-> Cardinality(Payloads) - Budget]
    OBVIOUS
  <2>2. Become(p, v)
    BY <1>3, <2>1 DEF Total
  <2>3. Cardinality(Payloads) - Budget \in 1 .. Cardinality(Key)
    BY <1>0, <1>3, SMT
  <2>4. v \in Op /\ v.at = "victims" /\ v.excess = Cardinality(Payloads) - Budget
    BY <2>1, <2>3, SMT DEF Op
  <2>5. HitOK(v) /\ ClosureOK(v)
    BY <2>4 DEF HitOK, ClosureOK
  <2>6. ~NothingCollected
    BY <1>0, <1>3, SMT DEF NothingCollected
  <2>7. op'[p] = v
    BY <2>2, SMT DEF Become, DiskInv, TypeOK
  <2>8. Cardinality(Payloads') - Budget' <= op'[p].excess
    BY <1>0, <1>1, <2>4, <2>7, SMT
  <2>9. EvictionDue'
    BY <2>4, <2>7, <2>8 DEF EvictionDue, DueBy
  <2>10. QED
    BY <1>1, <2>2, <2>4, <2>5, <2>6, <2>9, QuietStep
<1>4. QED
  BY <1>2, <1>3

(* As many victims as there is excess, or all there are, are enough.       *)
LEMMA VictimsStep ==
    ASSUME DiskInv, UNCHANGED deployment, NEW p \in Process, Victims(p)
    PROVE  DiskInv'
<1>0. /\ Budget \in Nat /\ Cardinality(Payloads) \in Nat /\ IsFiniteSet(Payloads)
      /\ Present \subseteq Key
  BY KeysFinite, PayloadsFinite DEF DiskInv, TypeOK
<1>1. UNCHANGED <<rows, objects, overdue>> /\ Payloads' = Payloads /\ Budget' = Budget
  BY RowsFrame, Fixed DEF Victims, DiskInv
<1>2. /\ op[p].at = "victims" /\ op[p].excess \in Nat /\ op[p].excess > 0
  <2>1. op[p].at = "victims"
    BY DEF Victims
  <2>2. op[p] \in [at : {"victims"}, excess : 1 .. Cardinality(Key)]
    BY <2>1, OpParts DEF DiskInv
  <2>3. QED
    BY <2>1, <2>2, KeysFinite, SMT DEF DiskInv
<1>3. PICK keys \in SUBSET Payloads :
           /\ Cardinality(keys) = IF op[p].excess < Cardinality(Payloads)
                                  THEN op[p].excess
                                  ELSE Cardinality(Payloads)
           /\ Become(p, IF keys = {} THEN Idle ELSE [at |-> "evict", keys |-> keys])
  BY DEF Victims
<1>4. PICK v : v = IF keys = {} THEN Idle ELSE [at |-> "evict", keys |-> keys]
  OBVIOUS
<1>5. Become(p, v)
  BY <1>3, <1>4
<1>6. keys \in SUBSET Key
  BY <1>0 DEF Payloads
<1>7. v \in Op /\ v.at \in {"idle", "evict"} /\ (keys # {} => v.at = "evict" /\ v.keys = keys)
  <2>1. CASE keys = {}
    BY <1>4, <2>1, SMT DEF Op, Idle
  <2>2. CASE keys # {}
    <3>1. v = [at |-> "evict", keys |-> keys]
      BY <1>4, <2>2
    <3>2. PICK S : S = (SUBSET Key) \ {{}}
      OBVIOUS
    <3>3. keys \in S
      BY <1>6, <2>2, <3>2, SMT
    <3>4. v \in [at : {"evict"}, keys : S] /\ v.at = "evict" /\ v.keys = keys
      BY <3>1, <3>3, SMT
    <3>5. v \in Op
      BY <3>2, <3>4 DEF Op
    <3>6. QED
      BY <3>4, <3>5
  <2>3. QED
    BY <2>1, <2>2
<1>8. HitOK(v) /\ ClosureOK(v)
  BY <1>7 DEF HitOK, ClosureOK
<1>9. ~NothingCollected
  BY <1>2 DEF DiskInv, ObjectFirst, NothingCollected
<1>10. op'[p] = v
  BY <1>5, SMT DEF Become, DiskInv, TypeOK
<1>11. ASSUME DueBy(p) PROVE EvictionDue'
  <2>1. Cardinality(Payloads) - Budget <= op[p].excess
    BY <1>2, <1>11 DEF DueBy
  <2>2. CASE keys = {}
    <3>1. Cardinality(keys) = 0
      BY <2>2, FS_EmptySet
    <3>2. Cardinality(Payloads') <= Budget'
      BY <1>0, <1>1, <1>2, <1>3, <3>1, SMT
    <3>3. QED
      BY <3>2 DEF EvictionDue
  <2>3. CASE keys # {}
    <3>1. Cardinality(Payloads \ keys) = Cardinality(Payloads) - Cardinality(keys)
      <4>1. Payloads \cap keys = keys
        OBVIOUS
      <4>2. QED
        BY <1>0, <4>1, FS_Difference
    <3>2. Cardinality(Payloads \ keys) <= Budget
      BY <1>0, <1>2, <1>3, <2>1, <3>1, SMT
    <3>3. Cardinality(Payloads' \ op'[p].keys) <= Budget' /\ op'[p].at = "evict"
      BY <1>1, <1>7, <1>10, <2>3, <3>2
    <3>4. QED
      BY <3>3 DEF EvictionDue, DueBy
  <2>4. QED
    BY <2>2, <2>3
<1>12. QED
  BY <1>1, <1>5, <1>7, <1>8, <1>9, <1>11, QuietStep

(* A step that removes rows and leaves the objects alone.                  *)
LEMMA RemoveStep ==
    ASSUME DiskInv, UNCHANGED deployment, NEW p \in Process, NEW STATE keys, remove_rows(keys),
           UNCHANGED <<objects, overdue>>, NEW v, v \in Op, Become(p, v),
           v.at \in {"idle", "collect"}, NothingCollected => v.at = "idle",
           DueBy(p) => EvictionDue'
    PROVE  DiskInv'
<1>1. /\ RowsOK' /\ Payloads' = Payloads \ keys /\ Present' = Present \ keys
      /\ \A j \in Present \ keys : artifacts'[j] = artifacts[j]
      /\ dependencies' \subseteq dependencies
  BY RemoveEffect DEF DiskInv, TypeOK, RowsOK
<1>2. \A k \in Payloads' : artifacts'[k] = artifacts[k]
  BY <1>1 DEF Payloads
<1>3. objects' = objects /\ ObjectsOK' /\ overdue' \in BOOLEAN
  BY ObjectsFrame DEF DiskInv, TypeOK
<1>4. overdue => overdue'
  BY SMT
<1>5. HitOK(v) /\ ClosureOK(v)
  BY DEF HitOK, ClosureOK
<1>6. QED
  BY <1>1, <1>2, <1>3, <1>4, <1>5, ProcessStep

LEMMA EvictStep ==
    ASSUME DiskInv, UNCHANGED deployment, NEW p \in Process, Evict(p)
    PROVE  DiskInv'
<1>1. PICK v : v = [at |-> "collect"]
  OBVIOUS
<1>2. v \in Op /\ v.at = "collect"
  BY <1>1, SMT DEF Op
<1>3. /\ op[p].at = "evict" /\ remove_rows(op[p].keys) /\ Become(p, v)
      /\ UNCHANGED <<objects, overdue>>
  BY <1>1 DEF Evict
<1>4. ~NothingCollected
  BY <1>3 DEF DiskInv, ObjectFirst, NothingCollected
<1>5. Payloads' = Payloads \ op[p].keys /\ Budget' = Budget
  BY <1>3, RemoveEffect, Fixed DEF DiskInv, TypeOK, RowsOK
<1>6. DueBy(p) => EvictionDue'
  BY <1>3, <1>5 DEF DueBy, EvictionDue
<1>7. QED
  BY <1>2, <1>3, <1>4, <1>6, RemoveStep

-----------------------------------------------------------------------------
(* gc_unreachable_objects *)

LEMMA CollectStep ==
    ASSUME DiskInv, UNCHANGED deployment, NEW p \in Process, Collect(p)
    PROVE  DiskInv'
<1>1. PICK v : v = [at |-> "collect"]
  OBVIOUS
<1>2. op[p] = Idle
  BY DEF Collect
<1>3. v \in Op /\ v.at = "collect" /\ op[p].at = "idle"
  BY <1>1, <1>2, SMT DEF Op, Idle
<1>4. HitOK(v) /\ ClosureOK(v) /\ ~DueBy(p)
  BY <1>3 DEF HitOK, ClosureOK, DueBy
<1>5. Become(p, v) /\ UNCHANGED <<rows, objects, overdue>> /\ ~NothingCollected
  BY <1>1 DEF Collect, NothingCollected
<1>6. QED
  BY <1>3, <1>4, <1>5, QuietStep

LEMMA ReachableStep ==
    ASSUME DiskInv, UNCHANGED deployment, NEW p \in Process, Reachable(p)
    PROVE  DiskInv'
<1>0. PICK hashes : hashes = {artifacts[k].hash : k \in Payloads}
  OBVIOUS
<1>1. PICK v : v = [at |-> "scan", reachable |-> hashes, left |-> DOMAIN objects \ hashes]
  OBVIOUS
<1>2. hashes \in SUBSET Hash /\ DOMAIN objects \subseteq Hash
  <2>1. \A k \in Payloads : artifacts[k] \in Row /\ artifacts[k].hash # NoHash
    BY DEF DiskInv, TypeOK, Payloads
  <2>2. \A k \in Payloads : artifacts[k].hash \in Hash
    BY <2>1, SMT DEF Row
  <2>3. QED
    BY <1>0, <2>2 DEF DiskInv, TypeOK
<1>3. v \in Op /\ v.at = "scan"
  BY <1>1, <1>2, SMT DEF Op
<1>4. Become(p, v) /\ UNCHANGED <<rows, objects, overdue>> /\ op[p].at = "collect"
  BY <1>0, <1>1 DEF Reachable
<1>5. HitOK(v) /\ ClosureOK(v) /\ ~DueBy(p)
  BY <1>3, <1>4 DEF HitOK, ClosureOK, DueBy
<1>6. ~NothingCollected
  BY <1>4 DEF DiskInv, ObjectFirst, NothingCollected
<1>7. QED
  BY <1>3, <1>4, <1>5, <1>6, QuietStep

LEMMA DeleteStep ==
    ASSUME DiskInv, UNCHANGED deployment, NEW p \in Process, NEW h \in Hash, Delete(p, h)
    PROVE  DiskInv'
<1>0. /\ op[p].at = "scan" /\ UNCHANGED rows /\ overdue' = overdue
      /\ objects' = Restrict(objects, DOMAIN objects \ {h})
  BY DEF Delete
<1>1. PICK v : v = [op[p] EXCEPT !.left = @ \ {h}]
  OBVIOUS
<1>2. op[p] \in [at : {"scan"}, reachable : SUBSET Hash, left : SUBSET Hash]
  BY <1>0, OpParts DEF DiskInv
<1>3. v \in Op /\ v.at = "scan"
  BY <1>1, <1>2, SMT DEF Op
<1>4. Become(p, v)
  BY <1>1 DEF Delete
<1>5. HitOK(v) /\ ClosureOK(v) /\ ~DueBy(p)
  BY <1>0, <1>3 DEF HitOK, ClosureOK, DueBy
<1>6. ~NothingCollected
  BY <1>0 DEF DiskInv, ObjectFirst, NothingCollected
<1>7. ObjectsOK'
  <2>1. /\ DOMAIN objects' \subseteq DOMAIN objects
        /\ \A g \in DOMAIN objects' : objects'[g] = objects[g]
    BY <1>0, SMT DEF Restrict
  <2>2. Artifact' = Artifact /\ Hash' = Hash
    BY Fixed
  <2>3. \A g \in DOMAIN objects' : \E x \in Artifact : x.hash = g /\ objects'[g] = Header(x)
    BY <2>1 DEF DiskInv, TypeOK
  <2>4. DOMAIN objects' \subseteq Hash
    BY <2>1 DEF DiskInv, TypeOK
  <2>5. QED
    BY <2>2, <2>3, <2>4 DEF ObjectsOK, Header
<1>8. RowsOK' /\ Payloads' = Payloads /\ artifacts' = artifacts /\ dependencies' = dependencies
  BY <1>0, RowsFrame DEF DiskInv
<1>9. overdue' \in BOOLEAN /\ (overdue => overdue')
  BY <1>0, SMT DEF DiskInv, TypeOK
<1>10. QED
  BY <1>3, <1>4, <1>5, <1>6, <1>7, <1>8, <1>9, ProcessStep

(* A process comes to the end of what it does.                             *)
LEMMA IdleFacts == Idle \in Op /\ Idle.at = "idle" /\ HitOK(Idle) /\ ClosureOK(Idle)
<1>1. Idle \in Op /\ Idle.at = "idle"
  BY SMT DEF Op, Idle
<1>2. QED
  BY <1>1 DEF HitOK, ClosureOK

LEMMA DoneStep ==
    ASSUME DiskInv, UNCHANGED deployment, NEW p \in Process, Collected(p) \/ Touch(p)
    PROVE  DiskInv'
<1>1. /\ Become(p, Idle) /\ UNCHANGED <<rows, objects, overdue>>
      /\ op[p].at = "scan" \/ op[p].at = "hit"
  BY DEF Collected, Touch
<1>2. ~DueBy(p)
  BY <1>1 DEF DueBy
<1>3. QED
  BY <1>1, <1>2, IdleFacts, QuietStep

-----------------------------------------------------------------------------
(* get_bytes *)

LEMMA GetStep ==
    ASSUME DiskInv, UNCHANGED deployment, NEW p \in Process, NEW k \in Key, NEW f, Get(p, k, f)
    PROVE  DiskInv'
<1>1. PICK v : v = [at |-> "read", key |-> k, row |-> artifacts[k]]
  OBVIOUS
<1>2. op[p] = Idle /\ artifacts[k] \in Row
  BY DEF Get, Payloads, DiskInv, TypeOK
<1>3. v \in Op /\ v.at = "read" /\ op[p].at = "idle"
  BY <1>1, <1>2, SMT DEF Op, Idle
<1>4. HitOK(v) /\ ClosureOK(v) /\ ~DueBy(p)
  BY <1>3 DEF HitOK, ClosureOK, DueBy
<1>5. Become(p, v) /\ UNCHANGED <<rows, objects, overdue>>
  BY <1>1 DEF Get
<1>6. QED
  BY <1>3, <1>4, <1>5, QuietStep

(* The envelope that is compared is that of the artifact the object was    *)
(* written for, whatever has become of the row since.                      *)
LEMMA ReadObjectStep ==
    ASSUME DiskInv, UNCHANGED deployment, NEW p \in Process, ReadObject(p)
    PROVE  DiskInv'
<1>0. op[p].at = "read" /\ UNCHANGED <<rows, objects, overdue>>
  BY DEF ReadObject
<1>1. op[p] \in [at : {"read"}, key : Key, row : Row]
  BY <1>0, OpParts DEF DiskInv
<1>2. PICK k, row : k = op[p].key /\ row = op[p].row
  OBVIOUS
<1>3. k \in Key /\ row \in Row
  BY <1>1, <1>2, SMT
<1>4. ~DueBy(p)
  BY <1>0 DEF DueBy
<1>5. CASE row.hash \in DOMAIN objects /\ objects[row.hash].key = k
              /\ objects[row.hash].fingerprint = row.fingerprint
  <2>1. PICK v : v = [at |-> "hit", key |-> k, row |-> row, codec |-> objects[row.hash].codec]
    OBVIOUS
  <2>2. Become(p, v)
    BY <1>2, <1>5, <2>1 DEF ReadObject
  <2>3. PICK x \in Artifact : x.hash = row.hash /\ objects[row.hash] = Header(x)
    BY <1>5 DEF DiskInv, TypeOK
  <2>4. x.key = k /\ x.fingerprint = row.fingerprint /\ objects[row.hash].codec = x.codec
    BY <1>5, <2>3, SMT DEF Header
  <2>5. x.codec \in Codec
    BY DEF Codec
  <2>6. /\ v \in Op /\ v.at = "hit" /\ v.key = k /\ v.row = row /\ v.codec = x.codec
    BY <1>3, <2>1, <2>4, <2>5, SMT DEF Op
  <2>7. HitOK(v) /\ ClosureOK(v)
    BY <2>3, <2>4, <2>6, SMT DEF HitOK, ClosureOK
  <2>8. QED
    BY <1>0, <1>4, <2>2, <2>6, <2>7, QuietStep
<1>6. CASE ~(row.hash \in DOMAIN objects /\ objects[row.hash].key = k
                /\ objects[row.hash].fingerprint = row.fingerprint)
  <2>1. PICK v : v = [at |-> "heal", key |-> k]
    OBVIOUS
  <2>2. Become(p, v)
    BY <1>2, <1>6, <2>1 DEF ReadObject
  <2>3. v \in Op /\ v.at = "heal"
    BY <1>3, <2>1, SMT DEF Op
  <2>4. HitOK(v) /\ ClosureOK(v)
    BY <2>3 DEF HitOK, ClosureOK
  <2>5. QED
    BY <1>0, <1>4, <2>2, <2>3, <2>4, QuietStep
<1>7. QED
  BY <1>5, <1>6

LEMMA HealStep ==
    ASSUME DiskInv, UNCHANGED deployment, NEW p \in Process, Heal(p)
    PROVE  DiskInv'
<1>1. /\ op[p].at = "heal" /\ remove_rows({op[p].key}) /\ Become(p, Idle)
      /\ UNCHANGED <<objects, overdue>>
  BY DEF Heal
<1>2. ~DueBy(p)
  BY <1>1 DEF DueBy
<1>3. QED
  BY <1>1, <1>2, IdleFacts, RemoveStep

-----------------------------------------------------------------------------
(* remove, invalidate *)

LEMMA RemoveOneStep ==
    ASSUME DiskInv, UNCHANGED deployment, NEW p \in Process, NEW k \in Key, Remove(p, k)
    PROVE  DiskInv'
<1>1. op[p] = Idle /\ remove_rows({k}) /\ UNCHANGED <<objects, overdue>> /\ op' = op
  BY DEF Remove
<1>2. Become(p, Idle) /\ op[p].at = "idle"
  BY <1>1, SMT DEF Become, Idle, DiskInv, TypeOK
<1>3. ~DueBy(p)
  BY <1>2 DEF DueBy
<1>4. QED
  BY <1>1, <1>2, <1>3, IdleFacts, RemoveStep

LEMMA InvalidateStep ==
    ASSUME DiskInv, UNCHANGED deployment, NEW p \in Process, NEW roots \in SUBSET Key,
           Invalidate(p, roots)
    PROVE  DiskInv'
<1>1. PICK v : v = [at |-> "closure", queue |-> roots, seen |-> {}, written |-> {}]
  OBVIOUS
<1>2. op[p] = Idle
  BY DEF Invalidate
<1>3. v \in Op /\ v.at = "closure" /\ v.seen = {} /\ op[p].at = "idle"
  BY <1>1, <1>2, SMT DEF Op, Idle
<1>4. HitOK(v) /\ ClosureOK(v) /\ ~DueBy(p)
  BY <1>3 DEF HitOK, ClosureOK, DueBy
<1>5. Become(p, v) /\ UNCHANGED <<rows, objects, overdue>>
  BY <1>1 DEF Invalidate
<1>6. QED
  BY <1>3, <1>4, <1>5, QuietStep

(* The reverse edges mirror the edges, so the query finds every dependent. *)
LEMMA ClosureStep ==
    ASSUME DiskInv, UNCHANGED deployment, NEW p \in Process, NEW k \in Key, Closure(p, k)
    PROVE  DiskInv'
<1>0. op[p].at = "closure" /\ UNCHANGED <<rows, objects, overdue>>
  BY DEF Closure
<1>1. op[p] \in [at : {"closure"}, queue : SUBSET Key, seen : SUBSET Key, written : SUBSET Key]
  BY <1>0, OpParts DEF DiskInv
<1>2. PICK D : D = {e[2] : e \in {e \in reverse_dependencies : e[1] = k}}
  OBVIOUS
<1>3. /\ dependencies \subseteq Key \X Key
      /\ reverse_dependencies = {<<e[2], e[1]>> : e \in dependencies}
  BY SMT DEF DiskInv, TypeOK
<1>4. D \subseteq Key /\ \A e \in dependencies : e[2] = k => e[1] \in D
  <2>1. ASSUME NEW e \in dependencies, e[2] = k PROVE e[1] \in D
    <3>1. <<e[2], e[1]>> \in reverse_dependencies
      BY <1>3
    <3>2. <<e[2], e[1]>>[1] = k /\ <<e[2], e[1]>>[2] = e[1]
      BY <2>1, SMT
    <3>3. QED
      BY <1>2, <3>1, <3>2
  <2>2. D \subseteq Key
    BY <1>2, <1>3, SMT
  <2>3. QED
    BY <2>1, <2>2
<1>5. PICK v : v = [op[p] EXCEPT !.queue = (@ \cup D) \ (op[p].seen \cup {k}),
                                 !.seen = @ \cup {k}]
  OBVIOUS
<1>6. /\ v \in Op /\ v.at = "closure" /\ v.seen = op[p].seen \cup {k}
      /\ v.queue = (op[p].queue \cup D) \ (op[p].seen \cup {k}) /\ v.written = op[p].written
  <2>1. /\ v \in [at : {"closure"}, queue : SUBSET Key, seen : SUBSET Key, written : SUBSET Key]
        /\ v.seen = op[p].seen \cup {k} /\ v.written = op[p].written
        /\ v.queue = (op[p].queue \cup D) \ (op[p].seen \cup {k})
    <3>1. PICK Q, S : Q = (op[p].queue \cup D) \ (op[p].seen \cup {k}) /\ S = op[p].seen \cup {k}
      OBVIOUS
    <3>2. /\ op[p].queue \subseteq Key /\ op[p].seen \subseteq Key
          /\ op[p].written \in SUBSET Key
      BY <1>1, SMT
    <3>3. Q \in SUBSET Key /\ S \in SUBSET Key
      BY <1>4, <3>1, <3>2
    <3>4. v = [op[p] EXCEPT !.queue = Q, !.seen = S]
      BY <1>5, <3>1
    <3>5. v \in [at : {"closure"}, queue : SUBSET Key, seen : SUBSET Key, written : SUBSET Key]
      <4>1. PICK K : K = SUBSET Key
        OBVIOUS
      <4>2. op[p] \in [at : {"closure"}, queue : K, seen : K, written : K] /\ Q \in K /\ S \in K
        BY <1>1, <3>3, <4>1
      <4>3. v \in [at : {"closure"}, queue : K, seen : K, written : K]
        <5>1. PICK w : w = [op[p] EXCEPT !.queue = Q]
          OBVIOUS
        <5>2. w \in [at : {"closure"}, queue : K, seen : K, written : K]
          BY <4>2, <5>1, SMT
        <5>3. v = [w EXCEPT !.seen = S]
          BY <3>4, <5>1
        <5>4. QED
          BY <4>2, <5>2, <5>3, SMT
      <4>4. QED
        BY <4>1, <4>3
    <3>6. v.queue = Q /\ v.seen = S /\ v.written = op[p].written
      BY <1>1, <3>4, SMT
    <3>7. QED
      BY <3>1, <3>5, <3>6
  <2>2. v \in Op
    BY <2>1 DEF Op
  <2>3. v.at = "closure"
    BY <2>1, SMT
  <2>4. QED
    BY <2>1, <2>2, <2>3
<1>7. Become(p, v)
  BY <1>2, <1>5 DEF Closure
<1>8. ClosureOK(v)
  <2>1. SUFFICES ASSUME NEW e \in dependencies, e[2] \in op[p].seen \cup {k}
                 PROVE  e[1] \in v.seen \cup v.queue \cup v.written
    BY <1>6 DEF ClosureOK
  <2>2. e[2] \in op[p].seen => e[1] \in op[p].seen \cup op[p].queue \cup op[p].written
    BY <1>0 DEF DiskInv, InvalidationIsComplete
  <2>3. QED
    BY <1>4, <1>6, <2>1, <2>2
<1>9. HitOK(v) /\ ~DueBy(p)
  BY <1>0, <1>6 DEF HitOK, DueBy
<1>10. QED
  BY <1>0, <1>6, <1>7, <1>8, <1>9, QuietStep

LEMMA InvalidatedStep ==
    ASSUME DiskInv, UNCHANGED deployment, NEW p \in Process, Invalidated(p)
    PROVE  DiskInv'
<1>1. /\ op[p].at = "closure" /\ remove_rows(op[p].seen) /\ Become(p, Idle)
      /\ UNCHANGED <<objects, overdue>>
  BY DEF Invalidated
<1>2. ~DueBy(p)
  BY <1>1 DEF DueBy
<1>3. QED
  BY <1>1, <1>2, IdleFacts, RemoveStep

(* What a process that gives up owed is remembered as overdue.             *)
LEMMA GiveUpStep ==
    ASSUME DiskInv, UNCHANGED deployment, NEW p \in Process, GiveUp(p)
    PROVE  DiskInv'
<1>1. /\ Become(p, Idle) /\ UNCHANGED rows /\ UNCHANGED objects
      /\ overdue' = (overdue \/ /\ op[p].at \in {"total", "victims", "evict"}
                                /\ Cardinality(Payloads) > Budget)
  BY DEF GiveUp
<1>2. overdue' \in BOOLEAN /\ (overdue => overdue')
  BY <1>1, SMT DEF DiskInv, TypeOK
<1>3. /\ RowsOK' /\ ObjectsOK' /\ Payloads' = Payloads /\ artifacts' = artifacts
      /\ dependencies' = dependencies /\ Budget' = Budget
  BY <1>1, RowsFrame, ObjectsFrame, Fixed DEF DiskInv
<1>4. ASSUME DueBy(p) PROVE EvictionDue'
  <2>1. op[p].at \in {"total", "victims", "evict"}
    BY <1>4 DEF DueBy
  <2>2. Cardinality(Payloads) \in Nat /\ Budget \in Nat
    BY KeysFinite, PayloadsFinite DEF DiskInv, TypeOK
  <2>3. overdue' \/ Cardinality(Payloads') <= Budget'
    <3>1. CASE Cardinality(Payloads) <= Budget
      BY <1>3, <3>1
    <3>2. CASE Cardinality(Payloads) > Budget
      BY <1>1, <2>1, <3>2
    <3>3. QED
      BY <2>2, <3>1, <3>2, SMT
  <2>4. QED
    BY <2>3 DEF EvictionDue
<1>5. QED
  BY <1>1, <1>2, <1>3, <1>4, IdleFacts, ProcessStep

-----------------------------------------------------------------------------
(* Every step keeps the inductive invariant.                               *)
LEMMA DiskStep == DiskInv /\ [Next]_vars => DiskInv'
<1> SUFFICES ASSUME DiskInv, [Next]_vars PROVE DiskInv'
  OBVIOUS
<1>1. ASSUME NEW p \in Process, UNCHANGED deployment, WriterNext(p) PROVE DiskInv'
  BY <1>1, PutStep, PutMetadataStep, CheckStep, LinkStep, ValidateStep, CommitStep,
     TotalStep, VictimsStep, EvictStep DEF WriterNext
<1>2. ASSUME NEW p \in Process, UNCHANGED deployment, CollectorNext(p) PROVE DiskInv'
  BY <1>2, CollectStep, ReachableStep, DoneStep, DeleteStep DEF CollectorNext
<1>3. ASSUME NEW p \in Process, UNCHANGED deployment, ReaderNext(p) PROVE DiskInv'
  BY <1>3, GetStep, ReadObjectStep, DoneStep, HealStep DEF ReaderNext
<1>4. ASSUME NEW p \in Process, UNCHANGED deployment, RemoverNext(p) PROVE DiskInv'
  BY <1>4, RemoveOneStep, ClosureStep, InvalidateStep, InvalidatedStep DEF RemoverNext
<1>5. CASE UNCHANGED vars
  <2>1. /\ UNCHANGED <<artifacts, dependencies, reverse_dependencies, objects, op, overdue>>
        /\ UNCHANGED deployment
    BY <1>5 DEF vars, rows
  <2>2. QED
    <3>1. /\ RowsOK' /\ ObjectsOK' /\ Payloads' = Payloads /\ Op' = Op /\ Key' = Key
          /\ Artifact' = Artifact /\ Collector' = Collector /\ Budget' = Budget
      BY <2>1, RowsFrame, ObjectsFrame, Fixed DEF DiskInv, rows
    <3>2. TypeOK'
      BY <2>1, <3>1 DEF DiskInv, TypeOK, RowsOK, ObjectsOK
    <3>3. HitIsAsPublished' /\ InvalidationIsComplete' /\ EvictionDue' /\ ObjectFirst'
      BY <2>1, <3>1 DEF DiskInv, HitIsAsPublished, InvalidationIsComplete, EvictionDue, DueBy,
         ObjectFirst
    <3>4. QED
      BY <2>1, <3>2, <3>3 DEF DiskInv
<1>6. QED
  BY <1>1, <1>2, <1>3, <1>4, <1>5, GiveUpStep DEF Next

LEMMA DiskInit == Init => DiskInv
<1> SUFFICES ASSUME Init PROVE DiskInv
  OBVIOUS
<1>1. /\ artifacts = <<>> /\ objects = <<>> /\ dependencies = {} /\ reverse_dependencies = {}
      /\ op = [p \in Process |-> Idle] /\ overdue = FALSE /\ deployment \in Deployment
  BY DEF Init
<1>2. DOMAIN artifacts = {} /\ DOMAIN objects = {}
  BY <1>1, SMT
<1>3. \A p \in Process : op[p] = Idle /\ op[p].at = "idle"
  BY <1>1, SMT DEF Idle
<1>4. op \in [Process -> Op]
  BY <1>1, IdleFacts, SMT
<1>5. TypeOK
  <2>1. dependencies \subseteq Present \X Key
    BY <1>1, SMT
  <2>2. reverse_dependencies = {<<e[2], e[1]>> : e \in dependencies}
    BY <1>1
  <2>3. QED
    BY <1>1, <1>2, <1>4, <2>1, <2>2 DEF TypeOK, Present
<1>6. Payloads = {}
  BY <1>2 DEF Payloads, Present
<1>7. EvictionDue
  BY <1>1, <1>6, KeysFinite, FS_EmptySet, SMT DEF EvictionDue
<1>8. QED
  BY <1>1, <1>3, <1>5, <1>6, <1>7 DEF DiskInv, HitIsAsPublished, InvalidationIsComplete,
     ObjectFirst

LEMMA DiskInvariant == Spec => []DiskInv
BY DiskInit, DiskStep, PTL DEF Spec

(* What get_bytes returns is as it was published, however many processes   *)
(* write, evict, collect and heal at the same time.                        *)
THEOREM HitsArePublished == Spec => []HitIsAsPublished
<1>1. DiskInv => HitIsAsPublished
  BY DEF DiskInv
<1>2. QED
  BY <1>1, DiskInvariant, PTL

(* invalidate misses no dependent that was there when it started.          *)
THEOREM InvalidationsComplete == Spec => []InvalidationIsComplete
<1>1. DiskInv => InvalidationIsComplete
  BY DEF DiskInv
<1>2. QED
  BY <1>1, DiskInvariant, PTL

(* Overlapping evictions never remove too little: evict_to_budget keeps    *)
(* the budget unless an eviction was given up.                             *)
THEOREM BudgetIsKept == Spec => []BudgetHolds
<1>1. DiskInv => BudgetHolds
  BY DEF DiskInv, EvictionDue, DueBy, BudgetHolds
<1>2. QED
  BY <1>1, DiskInvariant, PTL

(* Where nothing is collected, write_object before the metadata            *)
(* transaction is enough for every committed row to have its object; and   *)
(* everywhere the index is well formed, its edges mirrored.                *)
THEOREM CommittedObjects == Spec => []CommittedObjectExists
<1>1. DiskInv => CommittedObjectExists
  BY DEF DiskInv, ObjectFirst, CommittedObjectExists
<1>2. QED
  BY <1>1, DiskInvariant, PTL

=============================================================================
