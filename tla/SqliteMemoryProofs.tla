-------------------------- MODULE SqliteMemoryProofs --------------------------
(***************************************************************************)
(* The SQLite memory store keeps what VersionedStore promises, and its     *)
(* receipts and its capacity are what they should be, for any number of    *)
(* processes, attempts, keys and entries.                                  *)
(***************************************************************************)
EXTENDS SqliteMemory, FiniteSetTheorems, SequenceTheorems, TLAPS

(* Most leaves are first-order; the ones that need more name SMT.          *)
USE Zenon

Value == {r.value : r \in Request}
Slot == {Absent} \cup [value : Value, version : 0 .. MaxRevision]
Receipt == [request : Request \cup {NoRequest}, outcome : Outcomes]
Db == [entries : [Entry -> Slot], revision : 0 .. MaxRevision, receipts : [Key -> Receipt]]
Tx == [db : Db, outcome : Outcomes, fresh : BOOLEAN]
Phases == InJob \cup {"idle", "called", "queued", "answered", "done", "lost"}
Answers == Outcomes \cup [kind : {"Read"}, entry : Slot]

StoreTypes ==
    /\ db \in Db /\ tx \in Tx /\ lock \in Attempt \cup {NoAttempt}
    /\ asked \in [Attempt -> Request \cup {NoRequest}]
    /\ at \in [Attempt -> Process \cup {NoProcess}]
    /\ phase \in [Attempt -> Phases] /\ now \in 0 .. MaxTime
    /\ effect \in [Attempt -> Outcomes] /\ answer \in [Attempt -> Answers]

(* The phases in which an attempt has the writer lock, and those in which  *)
(* it cannot have taken effect.                                            *)
Writing == {"locked", "staged", "aborting", "unsettled"}
Before == Writing \cup {"idle", "called", "queued", "validated"}

Calls ==
    \A a \in Attempt :
        /\ phase[a] = "idle" => asked[a] = NoRequest
        /\ phase[a] # "idle" => asked[a] \in Request /\ at[a] \in Process
        /\ phase[a] \in Before => effect[a] = None

OneWriter == \A a \in Attempt : lock = a <=> phase[a] \in Writing

(* What is true of an attempt when it is told t.                           *)
True(a, t) ==
    \/ t \in {Plain("Unknown"), Plain("Error"), Plain("Unresolved"), Plain("Expired")}
    \/ t = effect[a] /\ t # None
    \/ /\ asked[a].kind \in {"Mutate", "Reconcile"}
       /\ \E b \in Performed(asked[a].key) : t = effect[b]
    \/ t = Plain("NotCommitted") /\ effect[a] = None

(* The mutation r, decided and applied to the tables d.                    *)
Applied(d, r, entries, revision, t) ==
    \/ /\ ~is_satisfied_by(r.cond, d.entries[r.entry])
       /\ entries = d.entries /\ revision = d.revision /\ t = Plain("Conflict")
    \/ /\ is_satisfied_by(r.cond, d.entries[r.entry])
       /\ r.value = Absent /\ d.entries[r.entry] = Absent
       /\ entries = d.entries /\ revision = d.revision /\ t = Plain("Unchanged")
    \/ /\ is_satisfied_by(r.cond, d.entries[r.entry])
       /\ ~(r.value = Absent /\ d.entries[r.entry] = Absent)
       /\ revision = d.revision + 1
       /\ entries = [d.entries EXCEPT ![r.entry] =
                        IF r.value = Absent THEN Absent ELSE [value |-> r.value, version |-> revision]]
       /\ t = [kind |-> "Committed", version |-> revision]

(* What a transaction has staged: nothing, with an answer that is true; or *)
(* the mutation, with its receipt and without receipts that have expired.  *)
StagedAs(a, d, o, fresh) ==
    LET r == asked[a]
    IN  \/ ~fresh /\ d = db /\ True(a, o)
        \/ /\ fresh /\ r.kind \in {"Mutate", "Unkeyed"}
           /\ Applied(db, r, d.entries, d.revision, o)
           /\ \A k \in Key :
                IF r.kind = "Mutate" /\ k = r.key
                THEN /\ db.receipts[k] = NoReceipt
                     /\ d.receipts[k] = [request |-> r, outcome |-> o]
                ELSE \/ d.receipts[k] = db.receipts[k]
                     \/ is_expired(k) /\ d.receipts[k] = NoReceipt
Staged(a) == StagedAs(a, tx.db, tx.outcome, tx.fresh)

Staging == \A a \in Attempt : phase[a] = "staged" => Staged(a)

Evidence ==
    \A k \in Key :
        /\ db.receipts[k] # NoReceipt =>
            \E a \in Performed(k) : db.receipts[k] = [request |-> asked[a], outcome |-> effect[a]]
        /\ Performed(k) # {} /\ ~is_expired(k) => db.receipts[k] # NoReceipt

Claims == \A a \in Attempt : phase[a] \in {"settled", "unsettled"} => True(a, answer[a])

StoreInv == StoreTypes /\ Calls /\ OneWriter /\ Staging /\ Evidence /\ Claims

(* A sequence lists a set: it has each of its elements once.               *)
Lists(s, S) ==
    /\ s \in Seq(Attempt) /\ Len(s) = Cardinality(S)
    /\ \A i \in 1 .. Len(s) : s[i] \in S
    /\ \A i, j \in 1 .. Len(s) : s[i] = s[j] => i = j

(* The jobs in the channel of p are the ones that are queued there.        *)
Queued(p) == {a \in Attempt : at[a] = p /\ phase[a] = "queued"}
Held(p) == {a \in Attempt : at[a] = p /\ Holding(a)}

QueueInv ==
    /\ worker \in [Process -> {"up", "quarantined", "down"}]
    /\ queue \in [Process -> Seq(Attempt)] /\ pending \in [Process -> 0 .. MaxPending]
    /\ gone \subseteq Attempt
    /\ \A p \in Process : pending[p] = Cardinality(Held(p)) /\ Lists(queue[p], Queued(p))

-----------------------------------------------------------------------------
(* Outcomes, and what is true *)

LEMMA Put ==
    ASSUME NEW S, NEW T, NEW f, f \in [S -> T], NEW x, x \in S, NEW v, v \in T,
           NEW g, g = [f EXCEPT ![x] = v]
    PROVE  g \in [S -> T] /\ g[x] = v /\ \A y \in S \ {x} : g[y] = f[y]
BY SMT

LEMMA Constants ==
    /\ MaxRevision \in Nat /\ MaxPending \in Nat /\ MaxTime \in Nat /\ MaxReceipts \in Nat
    /\ NoRequest \notin Request /\ NoAttempt \notin Attempt /\ IsFiniteSet(Attempt)
    /\ \A r \in Request : r.key \in Key /\ r.entry \in Entry
    /\ Expiry \in [Key -> Nat]
BY MemoryAssumption, ReceiptAssumption

PlainKinds == {"None", "Conflict", "Unchanged", "NotCommitted", "Unknown", "Error", "Unresolved",
               "Expired"}

LEMMA PlainOutcome == \A kind \in PlainKinds : Plain(kind) \in Outcomes
<1>1. 0 \in 0 .. MaxRevision
  BY Constants, SMT
<1>2. QED
  BY <1>1, SMT DEF PlainKinds, Plain, Outcomes

LEMMA NoneOutcome == None \in Outcomes
BY PlainOutcome DEF None, PlainKinds

LEMMA Dispatched ==
    ASSUME NEW a \in Attempt, NEW kind \in {"NotCommitted", "Unknown"},
           kind = "NotCommitted" => effect[a] = None,
           NEW t, t = from_dispatch_error(a, kind)
    PROVE  t \in Outcomes /\ t \in Answers /\ True(a, t)
<1>1. t = Plain(kind) \/ t = Plain("Error")
  BY DEF from_dispatch_error
<1>2. t \in Outcomes
  BY <1>1, PlainOutcome DEF PlainKinds
<1>3. True(a, t)
  BY <1>1 DEF True
<1>4. QED
  BY <1>2, <1>3 DEF Answers

(* What has taken effect stays, and with it what is true.                  *)
Grows == \A b \in Attempt : effect[b] # None => effect'[b] = effect[b] /\ asked'[b] = asked[b]

LEMMA PerformedGrows ==
    ASSUME Grows, NEW k PROVE Performed(k) \subseteq Performed(k)'
BY DEF Grows, Performed

LEMMA TrueStays ==
    ASSUME Grows, NEW a \in Attempt, NEW t, True(a, t), NEW u, u = t,
           asked'[a] = asked[a], effect'[a] = effect[a]
    PROVE  True(a, u)'
<1>1. PICK k : k = asked[a].key
  OBVIOUS
<1>2. ASSUME NEW b \in Performed(k), u = effect[b]
      PROVE  b \in Performed(k)' /\ u = effect'[b]
  <2>1. b \in Attempt /\ effect[b] # None
    BY <1>2 DEF Performed
  <2>2. QED
    BY <1>2, <2>1, PerformedGrows DEF Grows
<1>3. /\ asked[a].kind \in {"Mutate", "Reconcile"} /\ (\E b \in Performed(asked[a].key) : u = effect[b])
      => \E b \in Performed(k)' : u = effect'[b]
  BY <1>1, <1>2
<1>4. QED
  BY <1>1, <1>3 DEF True, Performed

LEMMA ApplyFacts ==
    ASSUME NEW d, d \in Db, NEW r, r \in Request, ~Exhausted(d, r), NEW res, res = apply_mutation(d, r)
    PROVE  /\ res.db \in Db /\ res.outcome \in Outcomes /\ res.db.receipts = d.receipts
           /\ Applied(d, r, res.db.entries, res.db.revision, res.outcome)
<1>0. /\ d.entries \in [Entry -> Slot] /\ d.revision \in 0 .. MaxRevision
      /\ d.receipts \in [Key -> Receipt]
      /\ r.entry \in Entry /\ r.value \in Value /\ MaxRevision \in Nat
  <2>1. d.entries \in [Entry -> Slot] /\ d.revision \in 0 .. MaxRevision
        /\ d.receipts \in [Key -> Receipt]
    BY SMT DEF Db
  <2>2. r.entry \in Entry /\ r.value \in Value /\ MaxRevision \in Nat
    BY Constants DEF Value
  <2>3. QED
    BY <2>1, <2>2
<1>1. CASE ~is_satisfied_by(r.cond, d.entries[r.entry])
  <2>1. res = [db |-> d, outcome |-> Plain("Conflict")]
    BY <1>1 DEF apply_mutation
  <2>2. res.db = d /\ res.outcome = Plain("Conflict")
    BY <2>1, SMT
  <2>3. QED
    BY <1>1, <2>2, PlainOutcome DEF PlainKinds, Applied
<1>2. CASE /\ is_satisfied_by(r.cond, d.entries[r.entry])
           /\ r.value = Absent /\ d.entries[r.entry] = Absent
  <2>1. res = [db |-> d, outcome |-> Plain("Unchanged")]
    BY <1>2 DEF apply_mutation
  <2>2. res.db = d /\ res.outcome = Plain("Unchanged")
    BY <2>1, SMT
  <2>3. QED
    BY <1>2, <2>2, PlainOutcome DEF PlainKinds, Applied
<1>3. CASE /\ is_satisfied_by(r.cond, d.entries[r.entry])
           /\ ~(r.value = Absent /\ d.entries[r.entry] = Absent)
  <2>1. PICK n : n = d.revision + 1
    OBVIOUS
  <2>2. PICK v : v = IF r.value = Absent THEN Absent ELSE [value |-> r.value, version |-> n]
    OBVIOUS
  <2>3. PICK e : e = [d.entries EXCEPT ![r.entry] = v]
    OBVIOUS
  <2>4. PICK c : c = [d EXCEPT !.revision = n]
    OBVIOUS
  <2>5. PICK f : f = [c EXCEPT !.entries = e]
    OBVIOUS
  <2>6. c.entries = d.entries /\ c.revision = n /\ c.receipts = d.receipts
    BY <2>4, SMT DEF Db
  <2>7. f = [entries |-> e, revision |-> n, receipts |-> d.receipts]
    <3>1. d = [entries |-> d.entries, revision |-> d.revision, receipts |-> d.receipts]
      BY SMT DEF Db
    <3>2. PICK e0, n0, q : e0 = d.entries /\ n0 = d.revision /\ q = d.receipts
      OBVIOUS
    <3>3. d = [entries |-> e0, revision |-> n0, receipts |-> q]
      BY <3>1, <3>2
    <3>4. c = [entries |-> e0, revision |-> n, receipts |-> q]
      BY <2>4, <3>3, SMT
    <3>5. f = [entries |-> e, revision |-> n, receipts |-> q]
      BY <2>5, <3>4, SMT
    <3>6. QED
      BY <3>2, <3>5
  <2>8. res = [db |-> f, outcome |-> [kind |-> "Committed", version |-> n]]
    <3>1. res = [db |-> [d EXCEPT !.revision = n, !.entries[r.entry] = v],
                 outcome |-> [kind |-> "Committed", version |-> n]]
      BY <1>3, <2>1, <2>2 DEF apply_mutation
    <3>2. [d EXCEPT !.revision = n, !.entries[r.entry] = v] = [c EXCEPT !.entries[r.entry] = v]
      BY <2>4
    <3>3. [c EXCEPT !.entries[r.entry] = v] = [c EXCEPT !.entries = [c.entries EXCEPT ![r.entry] = v]]
      BY SMT
    <3>4. QED
      BY <2>3, <2>5, <2>6, <3>1, <3>2, <3>3
  <2>9. res.db = f /\ res.outcome = [kind |-> "Committed", version |-> n]
    BY <2>8, SMT
  <2>10. f.entries = e /\ f.revision = n /\ f.receipts = d.receipts
    BY <2>7
  <2>11. n \in 0 .. MaxRevision
    <3>1. f # d
      BY <1>0, <2>1, <2>10, SMT
    <3>2. d.revision # MaxRevision
      BY <2>9, <3>1 DEF Exhausted
    <3>3. QED
      BY <1>0, <2>1, <3>2, SMT
  <2>12. v \in Slot
    BY <1>0, <2>2, <2>11, SMT DEF Slot
  <2>13. e \in [Entry -> Slot]
    BY <1>0, <2>3, <2>12, Put
  <2>14. f \in Db
    BY <1>0, <2>7, <2>11, <2>13, SMT DEF Db
  <2>15. [kind |-> "Committed", version |-> n] \in Outcomes
    BY <2>11, SMT DEF Outcomes
  <2>16. Applied(d, r, e, n, [kind |-> "Committed", version |-> n])
    BY <1>3, <2>1, <2>2, <2>3 DEF Applied
  <2>17. QED
    BY <2>9, <2>10, <2>14, <2>15, <2>16
<1>4. QED
  BY <1>1, <1>2, <1>3

-----------------------------------------------------------------------------
(* Steps that leave the tables alone *)

LEMMA GrowsTrivially ==
    ASSUME UNCHANGED <<effect, asked>> PROVE Grows
BY DEF Grows

LEMMA Expired ==
    ASSUME NEW k \in Key, is_expired(k), now \in Nat, now' \in Nat, now <= now'
    PROVE  is_expired(k)'
<1>1. Expiry[k] \in Nat /\ Expiry[k] <= now
  BY Constants, SMT DEF is_expired
<1>2. Expiry[k] <= now'
  BY <1>1, SMT
<1>3. QED
  BY <1>2 DEF is_expired

(* What is staged stays what it is.                                        *)
LEMMA StagedStays ==
    ASSUME NEW a \in Attempt, NEW d, NEW o, NEW fresh, StagedAs(a, d, o, fresh),
           UNCHANGED <<db, effect, asked>>, now \in Nat, now' \in Nat, now <= now'
    PROVE  StagedAs(a, d, o, fresh)'
<1>1. PICK r, e : r = asked[a] /\ e = db
  OBVIOUS
<1>2. r = asked'[a] /\ e = db'
  BY <1>1
<1>3. CASE ~fresh /\ d = db /\ True(a, o)
  <2>1. True(a, o)'
    BY <1>3, GrowsTrivially, TrueStays
  <2>2. QED
    BY <1>3, <2>1 DEF StagedAs
<1>4. CASE ~(~fresh /\ d = db /\ True(a, o))
  <2>1. /\ fresh /\ r.kind \in {"Mutate", "Unkeyed"} /\ Applied(e, r, d.entries, d.revision, o)
        /\ \A k \in Key :
            IF r.kind = "Mutate" /\ k = r.key
            THEN /\ e.receipts[k] = NoReceipt
                 /\ d.receipts[k] = [request |-> r, outcome |-> o]
            ELSE \/ d.receipts[k] = e.receipts[k]
                 \/ is_expired(k) /\ d.receipts[k] = NoReceipt
    BY <1>1, <1>4 DEF StagedAs
  <2>2. \A k \in Key : is_expired(k) => is_expired(k)'
    BY Expired
  <2>3. /\ fresh /\ r.kind \in {"Mutate", "Unkeyed"} /\ Applied(e, r, d.entries, d.revision, o)
        /\ \A k \in Key :
            IF r.kind = "Mutate" /\ k = r.key
            THEN /\ e.receipts[k] = NoReceipt
                 /\ d.receipts[k] = [request |-> r, outcome |-> o]
            ELSE \/ d.receipts[k] = e.receipts[k]
                 \/ is_expired(k)' /\ d.receipts[k] = NoReceipt
    BY <2>1, <2>2
  <2>4. QED
    BY ONLY <1>2, <2>3 DEF StagedAs, Applied, is_satisfied_by
<1>5. QED
  BY <1>3, <1>4

(* Time passes, and attempts go on.                                        *)
LEMMA StoreKept ==
    ASSUME StoreInv, UNCHANGED <<db, effect, asked, at>>, now <= now',
           StoreTypes', OneWriter',
           \A b \in Attempt :
              /\ phase'[b] = "idle" <=> phase[b] = "idle"
              /\ phase'[b] \in Before => phase[b] \in Before
              /\ phase'[b] = "staged" => phase[b] = "staged" /\ tx' = tx
              /\ phase'[b] \in {"settled", "unsettled"} =>
                    \/ phase[b] \in {"settled", "unsettled"} /\ answer'[b] = answer[b]
                    \/ True(b, answer'[b])
    PROVE  StoreInv'
<1>0. now \in Nat /\ now' \in Nat
  BY Constants, SMT DEF StoreInv, StoreTypes
<1>1. Grows
  BY GrowsTrivially
<1>2. Calls'
  BY DEF StoreInv, Calls
<1>3. Staging'
  <2>1. ASSUME NEW a \in Attempt, phase'[a] = "staged" PROVE Staged(a)'
    <3>1. Staged(a) /\ tx' = tx
      BY <2>1 DEF StoreInv, Staging
    <3>2. PICK d, o, fresh : d = tx.db /\ o = tx.outcome /\ fresh = tx.fresh
      OBVIOUS
    <3>3. StagedAs(a, d, o, fresh)
      BY <3>1, <3>2 DEF Staged
    <3>4. StagedAs(a, d, o, fresh)'
      BY <1>0, <1>1, <3>3, StagedStays
    <3>5. d = tx'.db /\ o = tx'.outcome /\ fresh = tx'.fresh
      BY <3>1, <3>2
    <3>6. QED
      BY <3>4, <3>5 DEF Staged
  <2>2. QED
    BY <2>1 DEF Staging
<1>4. Evidence'
  <2>1. \A k \in Key : is_expired(k) => is_expired(k)'
    BY <1>0, Expired
  <2>2. \A k : Performed(k)' = Performed(k)
    BY DEF Performed
  <2>3. QED
    BY <2>1, <2>2 DEF StoreInv, Evidence
<1>5. Claims'
  <2>1. ASSUME NEW a \in Attempt, phase'[a] \in {"settled", "unsettled"} PROVE True(a, answer[a])'
    <3>1. PICK t : t = answer'[a]
      OBVIOUS
    <3>2. True(a, t)
      BY <2>1, <3>1 DEF StoreInv, Claims
    <3>3. True(a, t)'
      BY <1>1, <3>2, TrueStays
    <3>4. QED
      BY <3>1, <3>3 DEF True
  <2>2. QED
    BY <2>1 DEF Claims
<1>6. QED
  BY <1>2, <1>3, <1>4, <1>5 DEF StoreInv

(* One attempt goes on.                                                    *)
LEMMA OneMoves ==
    ASSUME StoreInv, NEW a \in Attempt, NEW x \in Phases \ {"idle", "staged"}, phase[a] # "idle",
           phase' = [phase EXCEPT ![a] = x], UNCHANGED <<db, effect, asked, at, now>>,
           tx' \in Tx, tx' = tx \/ phase[a] \in Writing,
           x \in Before => phase[a] \in Before,
           \/ x \in Writing /\ lock' = a /\ lock \in {a, NoAttempt}
           \/ x \notin Writing /\ phase[a] \in Writing /\ lock' = NoAttempt
           \/ x \notin Writing /\ phase[a] \notin Writing /\ lock' = lock,
           answer' \in [Attempt -> Answers], \A b \in Attempt \ {a} : answer'[b] = answer[b],
           x \in {"settled", "unsettled"} => True(a, answer'[a])
    PROVE  StoreInv'
<1>0. phase \in [Attempt -> Phases] /\ now \in Nat
  BY Constants, SMT DEF StoreInv, StoreTypes
<1>1. /\ phase' \in [Attempt -> Phases] /\ phase'[a] = x
      /\ \A b \in Attempt \ {a} : phase'[b] = phase[b]
  BY <1>0, Put
<1>2. \A b \in Attempt : lock = b <=> phase[b] \in Writing
  BY DEF StoreInv, OneWriter
<1>3. StoreTypes'
  BY <1>1, <1>2 DEF StoreInv, StoreTypes
<1>4. OneWriter'
  <2>1. lock' = a <=> x \in Writing
    BY <1>2, Constants
  <2>2. \A b \in Attempt \ {a} : lock' = b <=> lock = b
    BY <1>2, Constants
  <2>3. QED
    BY <1>1, <1>2, <2>1, <2>2 DEF OneWriter
<1>5. \A b \in Attempt : phase'[b] = "staged" => phase[b] = "staged" /\ tx' = tx
  BY <1>1, <1>2 DEF Writing
<1>6. now <= now'
  BY <1>0, SMT
<1>7. QED
  BY <1>1, <1>3, <1>4, <1>5, <1>6, StoreKept

LEMMA ReplyMoves ==
    ASSUME StoreInv, NEW a \in Attempt, phase[a] # "idle", NEW t, t \in Answers, Reply(a, t),
           UNCHANGED <<db, effect, asked, at, now, tx>>,
           lock' = IF phase[a] \in Writing THEN NoAttempt ELSE lock
    PROVE  StoreInv'
<1>1. answer \in [Attempt -> Answers] /\ answer' = [answer EXCEPT ![a] = t]
  BY DEF StoreInv, StoreTypes, Reply
<1>2. answer' \in [Attempt -> Answers] /\ \A b \in Attempt \ {a} : answer'[b] = answer[b]
  BY <1>1, Put
<1>3. PICK x \in {"answered", "done"} : phase' = [phase EXCEPT ![a] = x]
  BY DEF Reply
<1>4. /\ x \in Phases \ {"idle", "staged"} /\ x \notin Writing /\ x \notin Before
      /\ x \notin {"settled", "unsettled"}
  BY SMT DEF Phases, Writing, Before
<1>5. tx' \in Tx
  BY DEF StoreInv, StoreTypes
<1>6. QED
  BY <1>2, <1>3, <1>4, <1>5, OneMoves

(* Set, without an answer.                                                 *)
LEMMA PhaseMoves ==
    ASSUME StoreInv, NEW a \in Attempt, phase[a] # "idle", phase[a] \notin Writing,
           NEW x \in {"queued", "validated", "done"}, phase' = [phase EXCEPT ![a] = x],
           x = "done" \/ phase[a] \in Before,
           UNCHANGED <<db, effect, asked, at, now, tx, lock, answer>>
    PROVE  StoreInv'
<1>1. /\ x \in Phases \ {"idle", "staged"} /\ x \notin Writing /\ x \notin {"settled", "unsettled"}
      /\ x = "done" => x \notin Before
  BY SMT DEF Phases, Writing, Before, InJob
<1>2. tx' \in Tx /\ answer' \in [Attempt -> Answers]
  BY DEF StoreInv, StoreTypes
<1>3. QED
  BY <1>1, <1>2, OneMoves

LEMMA EarlySteps ==
    ASSUME StoreInv, NEW a \in Attempt, Admit(a) \/ Refuse(a) \/ Deliver(a) \/ Window(a)
    PROVE  StoreInv'
<1>0. \A x \in {"called", "queued"} : x \in Before /\ x # "idle" /\ x \notin Writing
  BY DEF Before, Writing
<1>1. CASE Admit(a)
  <2>1. /\ phase[a] = "called" /\ phase' = [phase EXCEPT ![a] = "queued"]
        /\ UNCHANGED <<db, effect, asked, at, now, tx, lock, answer>>
    BY <1>1 DEF Admit, storage, calls
  <2>2. QED
    BY <1>0, <2>1, PhaseMoves
<1>2. CASE Refuse(a)
  <2>1. PICK t : t = from_dispatch_error(a, "NotCommitted")
    OBVIOUS
  <2>2. /\ phase[a] = "called" /\ phase' = [phase EXCEPT ![a] = "done"]
        /\ answer' = [answer EXCEPT ![a] = t]
        /\ UNCHANGED <<db, effect, asked, at, now, tx, lock>>
    BY <1>2, <2>1 DEF Refuse, storage, calls
  <2>3. effect[a] = None
    BY <1>0, <2>2 DEF StoreInv, Calls
  <2>4. t \in Answers
    BY <2>1, <2>3, Dispatched
  <2>5. answer \in [Attempt -> Answers] /\ tx' \in Tx
    BY <2>2 DEF StoreInv, StoreTypes
  <2>6. answer' \in [Attempt -> Answers] /\ \A b \in Attempt \ {a} : answer'[b] = answer[b]
    BY <2>2, <2>4, <2>5, Put
  <2>7. /\ "done" \in Phases \ {"idle", "staged"} /\ "done" \notin Writing /\ "done" \notin Before
        /\ "done" \notin {"settled", "unsettled"}
    BY SMT DEF Phases, Writing, Before
  <2>8. QED
    BY <1>0, <2>2, <2>5, <2>6, <2>7, OneMoves
<1>3. CASE Deliver(a)
  <2>1. /\ phase[a] = "answered" /\ phase' = [phase EXCEPT ![a] = "done"]
        /\ UNCHANGED <<db, effect, asked, at, now, tx, lock, answer>>
    BY <1>3 DEF Deliver, storage, calls
  <2>2. "answered" # "idle" /\ "answered" \notin Writing
    BY DEF Writing
  <2>3. QED
    BY <2>1, <2>2, PhaseMoves
<1>4. CASE Window(a)
  <2>1. /\ phase[a] = "queued" /\ UNCHANGED <<db, effect, asked, at, now, tx, lock>>
    BY <1>4 DEF Window, Take, storage, calls
  <2>2. \/ phase' = [phase EXCEPT ![a] = "validated"] /\ UNCHANGED answer
        \/ Reply(a, Plain("Error")) \/ Reply(a, Plain("Expired"))
    BY <1>4 DEF Window
  <2>3. CASE phase' = [phase EXCEPT ![a] = "validated"] /\ UNCHANGED answer
    BY <1>0, <2>1, <2>3, PhaseMoves
  <2>4. CASE Reply(a, Plain("Error")) \/ Reply(a, Plain("Expired"))
    <3>1. PICK t \in {Plain("Error"), Plain("Expired")} : Reply(a, t)
      BY <2>4
    <3>2. t \in Answers
      BY PlainOutcome DEF PlainKinds, Answers
    <3>3. QED
      BY <1>0, <2>1, <3>1, <3>2, ReplyMoves
  <2>5. QED
    BY <2>2, <2>3, <2>4
<1>5. QED
  BY <1>1, <1>2, <1>3, <1>4

LEMMA ReplySteps ==
    ASSUME StoreInv, NEW a \in Attempt,
           \/ Decline(a) \/ Get(a) \/ Reconcile(a) \/ BeginFails(a) \/ Quarantine(a) \/ Finish(a)
    PROVE  StoreInv'
<1>0. \A x \in {"queued", "validated"} : x \in Before /\ x # "idle" /\ x \notin Writing
  BY DEF Before, Writing
<1>1. ASSUME phase[a] \in Before PROVE effect[a] = None
  BY <1>1 DEF StoreInv, Calls
<1>2. CASE Decline(a) \/ BeginFails(a)
  <2>1. PICK t : t = from_dispatch_error(a, "NotCommitted")
    OBVIOUS
  <2>2. /\ phase[a] \in {"queued", "validated"} /\ Reply(a, t)
        /\ UNCHANGED <<db, effect, asked, at, now, tx, lock>>
    BY <1>2, <2>1 DEF Decline, BeginFails, Take, storage, calls, Job
  <2>3. t \in Answers
    BY <1>0, <1>1, <2>1, <2>2, Dispatched
  <2>4. QED
    BY <1>0, <2>2, <2>3, ReplyMoves
<1>3. CASE Get(a)
  <2>1. phase[a] = "queued" /\ UNCHANGED <<db, effect, asked, at, now, tx, lock>>
    BY <1>3 DEF Get, Take, storage, calls
  <2>2. PICK u, t : /\ u = [kind |-> "Read", entry |-> db.entries[asked[a].entry]]
                    /\ t \in {u, Plain("Error")} /\ Reply(a, t)
    BY <1>3 DEF Get
  <2>3. t \in Answers
    <3>1. db \in Db /\ asked[a] \in Request
      BY <1>0, <2>1 DEF StoreInv, StoreTypes, Calls
    <3>2. asked[a].entry \in Entry /\ Plain("Error") \in Outcomes
      BY <3>1, Constants, PlainOutcome DEF PlainKinds
    <3>3. db.entries[asked[a].entry] \in Slot
      BY <3>1, <3>2, SMT DEF Db
    <3>4. PICK e : e = db.entries[asked[a].entry]
      OBVIOUS
    <3>5. u = [kind |-> "Read", entry |-> e] /\ e \in Slot
      BY <2>2, <3>3, <3>4
    <3>6. u \in [kind : {"Read"}, entry : Slot]
      BY <3>5, SMT
    <3>7. QED
      BY <2>2, <3>2, <3>6 DEF Answers
  <2>4. QED
    BY <1>0, <2>1, <2>2, <2>3, ReplyMoves
<1>4. CASE Reconcile(a)
  <2>1. phase[a] = "validated" /\ UNCHANGED <<db, effect, asked, at, now, tx, lock>>
    BY <1>4 DEF Reconcile, storage, Job, calls
  <2>2. PICK t : /\ t \in {Plain("Unresolved"), db.receipts[asked[a].key].outcome, Plain("Error")}
                 /\ Reply(a, t)
    BY <1>4 DEF Reconcile
  <2>3. t \in Answers
    <3>1. db \in Db /\ asked[a] \in Request
      BY <1>0, <2>1 DEF StoreInv, StoreTypes, Calls
    <3>2. asked[a].key \in Key /\ Plain("Error") \in Outcomes /\ Plain("Unresolved") \in Outcomes
      BY <3>1, Constants, PlainOutcome DEF PlainKinds
    <3>3. db.receipts[asked[a].key] \in Receipt
      BY <3>1, <3>2, SMT DEF Db
    <3>4. db.receipts[asked[a].key].outcome \in Outcomes
      BY <3>3, SMT DEF Receipt
    <3>5. QED
      BY <2>2, <3>2, <3>4 DEF Answers
  <2>4. QED
    BY <1>0, <2>1, <2>2, <2>3, ReplyMoves
<1>5. CASE Quarantine(a)
  <2>1. PICK t : t = answer[a]
    OBVIOUS
  <2>2. /\ phase[a] = "unsettled" /\ Reply(a, t) /\ lock' = NoAttempt
        /\ UNCHANGED <<db, effect, asked, at, now, tx>>
    BY <1>5, <2>1 DEF Quarantine, calls
  <2>3. t \in Answers /\ "unsettled" \in Writing /\ "unsettled" # "idle"
    BY <2>1 DEF StoreInv, StoreTypes, Writing
  <2>4. QED
    BY <2>2, <2>3, ReplyMoves
<1>6. CASE Finish(a)
  <2>1. phase[a] = "settled" /\ UNCHANGED <<db, effect, asked, at, now, tx, lock>>
    BY <1>6 DEF Finish, storage, Job, calls
  <2>2. PICK u, t : /\ u = from_dispatch_error(a, "Unknown") /\ t \in {answer[a], u} /\ Reply(a, t)
    BY <1>6 DEF Finish
  <2>3. t \in Answers
    <3>1. answer[a] \in Answers
      BY DEF StoreInv, StoreTypes
    <3>2. "Unknown" # "NotCommitted"
      OBVIOUS
    <3>3. u \in Answers
      BY <2>2, <3>2, Dispatched
    <3>4. QED
      BY <2>2, <3>1, <3>3
  <2>4. "settled" \notin Writing /\ "settled" # "idle"
    BY DEF Writing
  <2>5. QED
    BY <2>1, <2>2, <2>3, <2>4, ReplyMoves
<1>7. QED
  BY <1>2, <1>3, <1>4, <1>5, <1>6

-----------------------------------------------------------------------------
(* Transactions *)

LEMMA NoTxType == EmptyDb \in Db /\ NoTx \in Tx
<1>1. Absent \in Slot /\ NoReceipt \in Receipt /\ 0 \in 0 .. MaxRevision
  <2>1. 0 \in 0 .. MaxRevision
    BY Constants, SMT
  <2>2. NoReceipt \in Receipt
    BY NoneOutcome, SMT DEF NoReceipt, Receipt
  <2>3. QED
    BY <2>1, <2>2 DEF Slot
<1>2. EmptyDb \in Db
  BY <1>1, SMT DEF EmptyDb, Db
<1>3. NoTx \in Tx
  BY <1>2, NoneOutcome, SMT DEF NoTx, Tx
<1>4. QED
  BY <1>2, <1>3

(* A transaction ends, or is left open, and has changed nothing.           *)
LEMMA UndoneMoves ==
    ASSUME StoreInv, NEW a \in Attempt, phase[a] \in Writing,
           NEW t, t \in Answers, True(a, t), UNCHANGED <<db, effect>>,
           EndTx(a, t) \/ (LeaveOpen(a) /\ answer' = [answer EXCEPT ![a] = t])
    PROVE  StoreInv'
<1>1. /\ tx' = NoTx /\ UNCHANGED <<asked, at, now>> /\ answer' = [answer EXCEPT ![a] = t]
      /\ \/ lock' = NoAttempt /\ phase' = [phase EXCEPT ![a] = "settled"]
         \/ lock' = lock /\ phase' = [phase EXCEPT ![a] = "unsettled"]
  BY DEF EndTx, LeaveOpen, Job, calls
<1>2. lock = a /\ answer \in [Attempt -> Answers]
  BY DEF StoreInv, OneWriter, StoreTypes
<1>3. answer' \in [Attempt -> Answers] /\ answer'[a] = t /\ \A b \in Attempt \ {a} : answer'[b] = answer[b]
  BY <1>1, <1>2, Put
<1>4. /\ "settled" \notin Writing /\ "unsettled" \in Writing
      /\ \A x \in {"settled", "unsettled"} : x \in Phases \ {"idle", "staged"}
      /\ "settled" \notin Before /\ \A x \in Writing : x \in Before /\ x # "idle"
  BY SMT DEF Writing, Before, Phases, InJob
<1>5. True(a, answer'[a])
  BY <1>3
<1>6. tx' \in Tx
  BY <1>1, NoTxType
<1>7. QED
  BY <1>1, <1>2, <1>3, <1>4, <1>5, <1>6, OneMoves

LEMMA OpenSteps ==
    ASSUME StoreInv, NEW a \in Attempt, Begin(a) \/ StageFails(a) \/ Rollback(a) \/ Settle(a)
    PROVE  StoreInv'
<1>0. /\ \A x \in {"locked", "aborting"} : x \in Phases \ {"idle", "staged"} /\ x \in Writing
      /\ \A x \in {"locked", "aborting", "unsettled"} : x \in Writing
      /\ \A x \in Writing \cup {"validated"} : x \in Before /\ x # "idle"
  BY SMT DEF Writing, Before, Phases, InJob
<1>1. CASE Begin(a)
  <2>1. /\ phase[a] = "validated" /\ lock = NoAttempt /\ lock' = a
        /\ phase' = [phase EXCEPT ![a] = "locked"]
        /\ UNCHANGED <<db, tx, effect, answer, asked, at, now>>
    BY <1>1 DEF Begin, Job, calls
  <2>2. tx' \in Tx /\ answer' \in [Attempt -> Answers]
    BY <2>1 DEF StoreInv, StoreTypes
  <2>3. "locked" \notin {"settled", "unsettled"}
    OBVIOUS
  <2>4. QED
    BY <1>0, <2>1, <2>2, <2>3, OneMoves
<1>2. CASE StageFails(a)
  <2>1. /\ phase[a] = "locked" /\ phase' = [phase EXCEPT ![a] = "aborting"]
        /\ UNCHANGED <<db, lock, tx, effect, answer, asked, at, now>>
    BY <1>2 DEF StageFails, storage, Job, calls
  <2>2. tx' \in Tx /\ answer' \in [Attempt -> Answers] /\ lock = a
    BY <1>0, <2>1 DEF StoreInv, StoreTypes, OneWriter
  <2>3. "aborting" \notin {"settled", "unsettled"}
    OBVIOUS
  <2>4. QED
    BY <1>0, <2>1, <2>2, <2>3, OneMoves
<1>3. CASE Rollback(a)
  <2>1. PICK kind, t :
            /\ kind \in {"NotCommitted", "Unknown"} /\ t = from_dispatch_error(a, kind) /\ UNCHANGED <<db, effect>>
            /\ EndTx(a, t) \/ (LeaveOpen(a) /\ answer' = [answer EXCEPT ![a] = t])
    BY <1>3 DEF Rollback, LeaveOpen
  <2>2. phase[a] = "aborting"
    BY <1>3 DEF Rollback
  <2>3. effect[a] = None
    BY <1>0, <2>2 DEF StoreInv, Calls
  <2>4. t \in Answers /\ True(a, t)
    BY <2>1, <2>3, Dispatched
  <2>5. QED
    BY <1>0, <2>1, <2>2, <2>4, UndoneMoves
<1>4. CASE Settle(a)
  <2>1. PICK t : t = answer[a]
    OBVIOUS
  <2>2. phase[a] = "unsettled" /\ EndTx(a, t) /\ UNCHANGED <<db, effect>>
    BY <1>4, <2>1 DEF Settle
  <2>3. t \in Answers /\ True(a, t)
    BY <2>1, <2>2 DEF StoreInv, StoreTypes, Claims
  <2>4. QED
    BY <1>0, <2>2, <2>3, UndoneMoves
<1>5. QED
  BY <1>1, <1>2, <1>3, <1>4

(* A transaction stages d and the outcome o.                               *)
LEMMA StageMoves ==
    ASSUME StoreInv, NEW a \in Attempt, phase[a] = "locked",
           NEW d, d \in Db, NEW o, o \in Outcomes, NEW fresh \in BOOLEAN, StageAs(a, d, o, fresh),
           StagedAs(a, d, o, fresh)
    PROVE  StoreInv'
<1>1. /\ phase' = [phase EXCEPT ![a] = "staged"]
      /\ UNCHANGED <<db, lock, effect, answer, asked, at, now>>
      /\ tx' = [db |-> d, outcome |-> o, fresh |-> fresh]
  BY DEF StageAs, Job, calls
<1>2. tx' \in Tx /\ tx'.db = d /\ tx'.outcome = o /\ tx'.fresh = fresh
  BY <1>1, SMT DEF Tx
<1>3. "staged" \in Phases /\ "staged" \in Writing /\ "locked" \in Writing
  BY SMT DEF Writing, Phases, InJob
<1>4. /\ phase' \in [Attempt -> Phases] /\ phase'[a] = "staged"
      /\ \A b \in Attempt \ {a} : phase'[b] = phase[b]
  BY <1>1, <1>3, Put DEF StoreInv, StoreTypes
<1>5. lock = a /\ \A b \in Attempt : lock = b <=> phase[b] \in Writing
  BY <1>3 DEF StoreInv, OneWriter
<1>6. StoreTypes'
  BY <1>1, <1>2, <1>4 DEF StoreInv, StoreTypes
<1>7. OneWriter'
  BY <1>1, <1>3, <1>4, <1>5 DEF OneWriter
<1>8. Calls'
  <2>1. "locked" \in Before /\ "locked" # "idle" /\ "staged" # "idle"
    BY DEF Before, Writing
  <2>2. QED
    BY <1>1, <1>4, <2>1 DEF StoreInv, Calls
<1>9. Evidence'
  <2>1. \A k : Performed(k)' = Performed(k) /\ is_expired(k)' = is_expired(k)
    BY <1>1 DEF Performed, is_expired
  <2>2. QED
    BY <1>1, <2>1 DEF StoreInv, Evidence
<1>10. Claims'
  <2>1. "staged" \notin {"settled", "unsettled"}
    OBVIOUS
  <2>2. QED
    BY <1>1, <1>4, <2>1 DEF StoreInv, Claims, True, Performed
<1>11. Staging'
  <2>1. Staged(a)'
    <3>1. now \in Nat /\ now' \in Nat /\ now <= now'
      BY <1>1, Constants, SMT DEF StoreInv, StoreTypes
    <3>2. StagedAs(a, d, o, fresh)'
      BY <1>1, <3>1, StagedStays
    <3>3. QED
      BY <1>2, <3>2 DEF Staged
  <2>2. ASSUME NEW b \in Attempt, phase'[b] = "staged" PROVE b = a
    BY <1>3, <1>4, <1>5, <2>2
  <2>3. QED
    BY <2>1, <2>2 DEF Staging
<1>12. QED
  BY <1>6, <1>7, <1>8, <1>9, <1>10, <1>11 DEF StoreInv

LEMMA EvictedType ==
    ASSUME NEW d, d \in Db, NEW e, e = [d EXCEPT !.receipts = Evict(@)]
    PROVE  /\ e \in Db /\ e.entries = d.entries /\ e.revision = d.revision
           /\ \A k \in Key : e.receipts[k] = IF is_expired(k) THEN NoReceipt ELSE d.receipts[k]
<1>1. PICK q : q = Evict(d.receipts)
  OBVIOUS
<1>2. d.receipts \in [Key -> Receipt] /\ NoReceipt \in Receipt
  <2>1. NoReceipt \in Receipt
    BY NoneOutcome, SMT DEF NoReceipt, Receipt
  <2>2. QED
    BY <2>1, SMT DEF Db
<1>3. /\ q \in [Key -> Receipt]
      /\ \A k \in Key : q[k] = IF is_expired(k) THEN NoReceipt ELSE d.receipts[k]
  BY <1>1, <1>2 DEF Evict
<1>4. e = [d EXCEPT !.receipts = q]
  BY <1>1
<1>5. e \in Db /\ e.entries = d.entries /\ e.revision = d.revision /\ e.receipts = q
  BY <1>3, <1>4, SMT DEF Db
<1>6. QED
  BY <1>3, <1>5

(* A receipt is put into the tables.                                       *)
WithReceipt(d, k, v) == [d EXCEPT !.receipts[k] = v]

LEMMA PutReceipt ==
    ASSUME NEW d, d \in Db, NEW k, k \in Key, NEW v, v \in Receipt,
           NEW e, e = WithReceipt(d, k, v)
    PROVE  /\ e \in Db /\ e.entries = d.entries /\ e.revision = d.revision
           /\ e.receipts[k] = v /\ \A j \in Key \ {k} : e.receipts[j] = d.receipts[j]
<1>1. PICK q : q = [d.receipts EXCEPT ![k] = v]
  OBVIOUS
<1>2. d.receipts \in [Key -> Receipt]
  BY SMT DEF Db
<1>3. /\ q \in [Key -> Receipt] /\ q[k] = v
      /\ \A j \in Key \ {k} : q[j] = d.receipts[j]
  BY <1>1, <1>2, Put
<1>4. e = [d EXCEPT !.receipts = q]
  BY <1>1 DEF WithReceipt
<1>5. e \in Db /\ e.entries = d.entries /\ e.revision = d.revision /\ e.receipts = q
  BY <1>3, <1>4, SMT DEF Db
<1>6. QED
  BY <1>3, <1>5

LEMMA StageSteps ==
    ASSUME StoreInv, NEW a \in Attempt, StageUnkeyed(a) \/ Replay(a) \/ LookupFails(a) \/ Stage(a)
    PROVE  StoreInv'
<1>0. PICK r : r = asked[a]
  OBVIOUS
<1>1. phase[a] = "locked"
  BY DEF StageUnkeyed, Replay, LookupFails, Stage
<1>2. r \in Request /\ r.key \in Key /\ db \in Db
  <2>1. asked[a] \in Request
    BY <1>1 DEF StoreInv, Calls
  <2>2. QED
    BY <1>0, <2>1, Constants DEF StoreInv, StoreTypes
<1>3. CASE StageUnkeyed(a)
  <2>1. PICK d, res : d = db /\ res = apply_mutation(d, r)
    OBVIOUS
  <2>2. r.kind = "Unkeyed" /\ ~Exhausted(d, r) /\ StageAs(a, res.db, res.outcome, TRUE)
    BY <1>0, <1>3, <2>1 DEF StageUnkeyed
  <2>3. /\ res.db \in Db /\ res.outcome \in Outcomes /\ res.db.receipts = d.receipts
        /\ Applied(d, r, res.db.entries, res.db.revision, res.outcome)
    BY <1>2, <2>1, <2>2, ApplyFacts
  <2>4. "Unkeyed" # "Mutate"
    OBVIOUS
  <2>5. PICK e, o : e = res.db /\ o = res.outcome
    OBVIOUS
  <2>6. PICK fresh \in BOOLEAN : fresh = TRUE
    OBVIOUS
  <2>7. e \in Db /\ o \in Outcomes /\ StageAs(a, e, o, fresh)
    BY <2>2, <2>3, <2>5, <2>6
  <2>8. StagedAs(a, e, o, fresh)
    BY <1>0, <2>1, <2>2, <2>3, <2>4, <2>5, <2>6 DEF StagedAs
  <2>9. QED
    BY <1>1, <2>7, <2>8, StageMoves
<1>4. CASE Replay(a)
  <2>1. PICK v, d : v = db.receipts[r.key] /\ d = db
    OBVIOUS
  <2>2. r.kind = "Mutate" /\ v # NoReceipt /\ StageAs(a, d, v.outcome, FALSE)
    BY <1>0, <1>4, <2>1 DEF Replay
  <2>3. PICK b \in Performed(r.key) : v = [request |-> asked[b], outcome |-> effect[b]]
    BY <1>2, <2>1, <2>2 DEF StoreInv, Evidence
  <2>4. v.outcome = effect[b] /\ b \in Attempt /\ effect[b] \in Outcomes
    <3>1. v.outcome = effect[b]
      BY <2>3, SMT
    <3>2. QED
      BY <3>1 DEF Performed, StoreInv, StoreTypes
  <2>5. PICK o : o = v.outcome
    OBVIOUS
  <2>6. o \in Outcomes /\ True(a, o) /\ StageAs(a, d, o, FALSE) /\ d \in Db /\ d = db
    BY <1>0, <1>2, <2>1, <2>2, <2>4, <2>5 DEF True
  <2>7. StagedAs(a, d, o, FALSE)
    BY <2>6 DEF StagedAs
  <2>8. QED
    BY <1>1, <2>6, <2>7, StageMoves
<1>5. CASE LookupFails(a)
  <2>1. PICK o, d : o = Plain("Unknown") /\ d = db
    OBVIOUS
  <2>2. o \in Outcomes /\ True(a, o) /\ StageAs(a, d, o, FALSE) /\ d \in Db /\ d = db
    BY <1>2, <1>5, <2>1, PlainOutcome DEF LookupFails, True, PlainKinds
  <2>3. StagedAs(a, d, o, FALSE)
    BY <2>2 DEF StagedAs
  <2>4. QED
    BY <1>1, <2>2, <2>3, StageMoves
<1>6. CASE Stage(a)
  <2>1. PICK k : k = r.key /\ k \in Key
    BY <1>2
  <2>2. PICK f : f = [db EXCEPT !.receipts = Evict(@)]
    OBVIOUS
  <2>3. PICK res : res = apply_mutation(f, r)
    OBVIOUS
  <2>4. PICK g, o : g = res.db /\ o = res.outcome
    OBVIOUS
  <2>5. PICK v : v = [request |-> r, outcome |-> o]
    OBVIOUS
  <2>6. PICK e : e = WithReceipt(g, k, v)
    OBVIOUS
  <2>7. PICK fresh \in BOOLEAN : fresh = TRUE
    OBVIOUS
  <2>8. /\ r.kind = "Mutate" /\ db.receipts[k] = NoReceipt /\ ~Exhausted(f, r)
        /\ StageAs(a, e, o, fresh)
    BY <1>0, <1>6, <2>1, <2>2, <2>3, <2>4, <2>5, <2>6, <2>7 DEF Stage, WithReceipt
  <2>9. /\ f \in Db /\ f.entries = db.entries /\ f.revision = db.revision
        /\ \A j \in Key : f.receipts[j] = IF is_expired(j) THEN NoReceipt ELSE db.receipts[j]
    BY <1>2, <2>2, EvictedType
  <2>10. /\ res.db \in Db /\ res.outcome \in Outcomes /\ res.db.receipts = f.receipts
         /\ Applied(f, r, res.db.entries, res.db.revision, res.outcome)
    BY <1>2, <2>3, <2>8, <2>9, ApplyFacts
  <2>11. /\ g \in Db /\ o \in Outcomes /\ g.receipts = f.receipts
         /\ Applied(f, r, g.entries, g.revision, o)
    BY <2>4, <2>10
  <2>12. v \in Receipt
    BY <1>2, <2>5, <2>11, SMT DEF Receipt
  <2>13. /\ e \in Db /\ e.entries = g.entries /\ e.revision = g.revision
         /\ e.receipts[k] = v /\ \A j \in Key \ {k} : e.receipts[j] = g.receipts[j]
    <3>1. g \in Db /\ k \in Key /\ v \in Receipt
      BY <2>1, <2>11, <2>12
    <3>2. QED
      BY ONLY <2>6, <3>1, PutReceipt
  <2>14. Applied(db, r, e.entries, e.revision, o)
    BY <2>9, <2>11, <2>13 DEF Applied
  <2>15. ASSUME NEW j \in Key, j # k
         PROVE  e.receipts[j] = db.receipts[j] \/ (is_expired(j) /\ e.receipts[j] = NoReceipt)
    <3>1. e.receipts[j] = f.receipts[j]
      BY <2>11, <2>13, <2>15
    <3>2. QED
      BY <2>9, <3>1
  <2>16. StagedAs(a, e, o, fresh)
    BY <1>0, <2>1, <2>5, <2>7, <2>8, <2>13, <2>14, <2>15 DEF StagedAs
  <2>17. QED
    BY <1>1, <2>8, <2>11, <2>13, <2>16, StageMoves
<1>7. QED
  BY <1>3, <1>4, <1>5, <1>6

(* What a transaction that landed has done: nothing, or the mutation of    *)
(* its attempt.                                                            *)
LEMMA AppliedOutcome ==
    ASSUME NEW d, NEW r, NEW e, NEW n, NEW o, Applied(d, r, e, n, o) PROVE o # None
BY SMT DEF Applied, None, Plain

LEMMA LandEffect ==
    ASSUME StoreInv, NEW a \in Attempt, phase[a] = "staged", Land(a), asked' = asked, now' = now,
           NEW o, o = tx.outcome
    PROVE  /\ db' \in Db /\ effect' \in [Attempt -> Outcomes] /\ Grows /\ Evidence' /\ True(a, o)'
           /\ \A b \in Attempt \ {a} : effect'[b] = effect[b]
<1>1. PICK d, fresh, r : d = tx.db /\ fresh = tx.fresh /\ r = asked[a]
  OBVIOUS
<1>2. /\ d \in Db /\ o \in Outcomes /\ effect \in [Attempt -> Outcomes]
      /\ db' = d /\ effect' = IF fresh THEN [effect EXCEPT ![a] = o] ELSE effect
  <2>1. tx.db \in Db /\ tx.outcome \in Outcomes
    BY SMT DEF StoreInv, StoreTypes, Tx
  <2>2. QED
    BY <1>1, <2>1 DEF StoreInv, StoreTypes, Land
<1>3. StagedAs(a, d, o, fresh)
  BY <1>1 DEF StoreInv, Staging, Staged
<1>4. r \in Request /\ effect[a] = None
  <2>1. "staged" \in Before /\ "staged" # "idle"
    BY DEF Before, Writing
  <2>2. QED
    BY <1>1, <2>1 DEF StoreInv, Calls
<1>5. CASE ~fresh
  <2>1. UNCHANGED <<db, effect, asked>> /\ True(a, o)
    BY <1>2, <1>3, <1>5 DEF StagedAs
  <2>2. Grows
    BY <2>1, GrowsTrivially
  <2>3. True(a, o)'
    BY <2>1, <2>2, TrueStays
  <2>4. Evidence'
    <3>1. \A k : Performed(k)' = Performed(k) /\ is_expired(k)' = is_expired(k)
      BY <2>1 DEF Performed, is_expired
    <3>2. QED
      BY <2>1, <3>1 DEF StoreInv, Evidence
  <2>5. QED
    BY <1>2, <2>1, <2>2, <2>3, <2>4
<1>6. CASE fresh
  <2>1. effect' = [effect EXCEPT ![a] = o]
    BY <1>2, <1>6
  <2>2. /\ effect' \in [Attempt -> Outcomes] /\ effect'[a] = o
        /\ \A b \in Attempt \ {a} : effect'[b] = effect[b]
    BY <1>2, <2>1, Put
  <2>3. Grows
    BY <1>4, <2>2 DEF Grows
  <2>4. o # None
    BY <1>1, <1>3, <1>6, AppliedOutcome DEF StagedAs
  <2>5. True(a, o)'
    BY <2>2, <2>4 DEF True
  <2>6. \A k \in Key :
            IF r.kind = "Mutate" /\ k = r.key
            THEN db.receipts[k] = NoReceipt /\ d.receipts[k] = [request |-> r, outcome |-> o]
            ELSE d.receipts[k] = db.receipts[k] \/ (is_expired(k) /\ d.receipts[k] = NoReceipt)
    BY <1>1, <1>3, <1>6 DEF StagedAs
  <2>7. ASSUME NEW k \in Key
        PROVE  /\ d.receipts[k] # NoReceipt =>
                    \E b \in Performed(k)' : d.receipts[k] = [request |-> asked'[b], outcome |-> effect'[b]]
               /\ Performed(k)' # {} /\ ~is_expired(k)' => d.receipts[k] # NoReceipt
    <3>1. CASE r.kind = "Mutate" /\ k = r.key
      <4>1. a \in Performed(k)'
        BY <1>1, <2>2, <2>4, <3>1 DEF Performed
      <4>2. d.receipts[k] = [request |-> asked'[a], outcome |-> effect'[a]]
        BY <1>1, <2>2, <2>6, <3>1
      <4>3. d.receipts[k] # NoReceipt
        <5>1. [request |-> r, outcome |-> o] # NoReceipt
          BY <1>4, Constants, SMT DEF NoReceipt
        <5>2. QED
          BY <2>6, <3>1, <5>1
      <4>4. QED
        BY <4>1, <4>2, <4>3
    <3>2. CASE ~(r.kind = "Mutate" /\ k = r.key)
      <4>1. d.receipts[k] = db.receipts[k] \/ (is_expired(k) /\ d.receipts[k] = NoReceipt)
        BY <2>6, <3>2
      <4>2. is_expired(k)' = is_expired(k)
        BY DEF is_expired
      <4>3. Performed(k)' = Performed(k)
        <5>1. a \notin Performed(k)' /\ a \notin Performed(k)
          BY <1>1, <3>2 DEF Performed
        <5>2. ASSUME NEW b, b # a PROVE b \in Performed(k)' <=> b \in Performed(k)
          BY <2>2, <5>2 DEF Performed
        <5>3. \A b : b \in Performed(k)' <=> b \in Performed(k)
          BY <5>1, <5>2
        <5>4. QED
          BY <5>3, SMT
      <4>4. ASSUME d.receipts[k] # NoReceipt
            PROVE  \E b \in Performed(k)' : d.receipts[k] = [request |-> asked'[b], outcome |-> effect'[b]]
        <5>1. d.receipts[k] = db.receipts[k]
          BY <4>1, <4>4
        <5>2. PICK b \in Performed(k) : db.receipts[k] = [request |-> asked[b], outcome |-> effect[b]]
          BY <4>4, <5>1 DEF StoreInv, Evidence
        <5>3. b \in Attempt /\ effect[b] # None
          BY DEF Performed
        <5>4. effect'[b] = effect[b] /\ asked'[b] = asked[b]
          BY <2>3, <5>3 DEF Grows
        <5>5. QED
          BY <4>3, <5>1, <5>2, <5>4
      <4>5. ASSUME Performed(k)' # {}, ~is_expired(k)' PROVE d.receipts[k] # NoReceipt
        <5>1. d.receipts[k] = db.receipts[k]
          BY <4>1, <4>2, <4>5
        <5>2. QED
          BY <4>2, <4>3, <4>5, <5>1 DEF StoreInv, Evidence
      <4>6. QED
        BY <4>4, <4>5
    <3>3. QED
      BY <3>1, <3>2
  <2>8. Evidence'
    BY <1>2, <2>7 DEF Evidence
  <2>9. QED
    BY <1>2, <2>2, <2>3, <2>5, <2>8
<1>7. QED
  BY <1>5, <1>6

(* A transaction lands; attempts other than its own may go on, and its own *)
(* has an answer, or is lost.                                              *)
LEMMA LandMoves ==
    ASSUME StoreInv, NEW a \in Attempt, phase[a] = "staged", Land(a),
           UNCHANGED <<asked, at, now>>, lock' = NoAttempt, tx' = NoTx,
           phase' \in [Attempt -> Phases], answer' \in [Attempt -> Answers],
           phase'[a] \in {"settled", "lost"},
           phase'[a] = "settled" => answer'[a] \in {tx.outcome, Plain("Unknown"), Plain("Error")},
           \A b \in Attempt \ {a} :
              /\ phase'[b] = phase[b] \/ (phase[b] # "idle" /\ phase'[b] \in {"lost", "done"})
              /\ answer'[b] = answer[b]
    PROVE  StoreInv'
<1>1. PICK o : o = tx.outcome
  OBVIOUS
<1>2. /\ db' \in Db /\ effect' \in [Attempt -> Outcomes] /\ Grows /\ Evidence' /\ True(a, o)'
      /\ \A b \in Attempt \ {a} : effect'[b] = effect[b]
  BY <1>1, LandEffect
<1>3. StoreTypes'
  BY <1>2, NoTxType DEF StoreInv, StoreTypes
<1>4. /\ "staged" \in Writing /\ "staged" # "idle"
      /\ \A x \in {"settled", "lost", "done"} : x \notin Writing /\ x \notin Before /\ x # "idle"
      /\ \A x \in {"lost", "done"} : x \notin {"settled", "unsettled"}
  BY SMT DEF Writing, Before
<1>5. \A b \in Attempt \ {a} : phase[b] \notin Writing
  BY <1>4 DEF StoreInv, OneWriter
<1>6. OneWriter' /\ Staging'
  <2>1. \A b \in Attempt : phase'[b] \notin Writing
    BY <1>4, <1>5
  <2>2. QED
    BY <1>4, <2>1, Constants DEF OneWriter, Staging
<1>7. Calls'
  <2>1. asked[a] \in Request /\ at[a] \in Process
    BY <1>4 DEF StoreInv, Calls
  <2>2. ASSUME NEW b \in Attempt, b # a
        PROVE  /\ phase'[b] = "idle" => asked'[b] = NoRequest
               /\ phase'[b] # "idle" => asked'[b] \in Request /\ at'[b] \in Process
               /\ phase'[b] \in Before => effect'[b] = None
    BY <1>2, <1>4, <2>2 DEF StoreInv, Calls
  <2>3. QED
    BY <1>4, <2>1, <2>2 DEF Calls
<1>8. Claims'
  <2>1. ASSUME NEW b \in Attempt, b # a, phase'[b] \in {"settled", "unsettled"}
        PROVE  True(b, answer[b])'
    <3>1. PICK t : t = answer[b]
      OBVIOUS
    <3>2. True(b, t) /\ t = answer'[b]
      BY <1>4, <2>1, <3>1 DEF StoreInv, Claims
    <3>3. True(b, t)'
      BY <1>2, <2>1, <3>2, TrueStays
    <3>4. QED
      BY <3>2, <3>3 DEF True
  <2>2. ASSUME phase'[a] \in {"settled", "unsettled"} PROVE True(a, answer[a])'
    <3>1. phase'[a] = "settled"
      BY <1>4, <2>2
    <3>2. CASE answer'[a] = tx.outcome
      BY <1>1, <1>2, <3>2 DEF True
    <3>3. CASE answer'[a] \in {Plain("Unknown"), Plain("Error")}
      BY <3>3 DEF True
    <3>4. QED
      BY <3>1, <3>2, <3>3
  <2>3. QED
    BY <2>1, <2>2 DEF Claims
<1>9. QED
  BY <1>2, <1>3, <1>6, <1>7, <1>8 DEF StoreInv

LEMMA CommitStep ==
    ASSUME StoreInv, NEW a \in Attempt, Commit(a) PROVE StoreInv'
<1>1. phase[a] = "staged" /\ "staged" \in Writing
  BY DEF Commit, Writing
<1>2. PICK u, o : u = from_dispatch_error(a, "Unknown") /\ o = tx.outcome
  OBVIOUS
<1>3. /\ u \in Answers /\ True(a, u) /\ u \in {Plain("Unknown"), Plain("Error")}
      /\ o \in Outcomes /\ o \in Answers
  <2>1. "Unknown" # "NotCommitted"
    OBVIOUS
  <2>2. u \in Answers /\ True(a, u)
    BY <1>2, <2>1, Dispatched
  <2>3. o \in Outcomes
    BY <1>2, SMT DEF StoreInv, StoreTypes, Tx
  <2>4. QED
    BY <1>2, <2>2, <2>3 DEF from_dispatch_error, Answers
<1>4. \/ \E t \in {o, u} : EndTx(a, t) /\ Land(a)
      \/ /\ EndTx(a, u) \/ (LeaveOpen(a) /\ answer' = [answer EXCEPT ![a] = u])
         /\ UNCHANGED <<db, effect>>
  BY <1>2 DEF Commit, LeaveOpen
<1>5. CASE \E t \in {o, u} : EndTx(a, t) /\ Land(a)
  <2>1. PICK t \in {o, u} : EndTx(a, t) /\ Land(a)
    BY <1>5
  <2>2. /\ lock' = NoAttempt /\ tx' = NoTx /\ phase' = [phase EXCEPT ![a] = "settled"]
        /\ answer' = [answer EXCEPT ![a] = t] /\ UNCHANGED <<asked, at, now>>
    BY <2>1 DEF EndTx, Job, calls
  <2>3. /\ phase' \in [Attempt -> Phases] /\ phase'[a] = "settled"
        /\ \A b \in Attempt \ {a} : phase'[b] = phase[b]
    <3>1. "settled" \in Phases
      BY DEF Phases, InJob
    <3>2. QED
      BY <2>2, <3>1, Put DEF StoreInv, StoreTypes
  <2>4. /\ answer' \in [Attempt -> Answers] /\ answer'[a] = t
        /\ \A b \in Attempt \ {a} : answer'[b] = answer[b]
    <3>1. t \in Answers /\ answer \in [Attempt -> Answers]
      BY <1>3, <2>1 DEF StoreInv, StoreTypes
    <3>2. QED
      BY <2>2, <3>1, Put
  <2>5. answer'[a] \in {tx.outcome, Plain("Unknown"), Plain("Error")}
    BY <1>2, <1>3, <2>1, <2>4
  <2>6. QED
    BY <1>1, <2>1, <2>2, <2>3, <2>4, <2>5, LandMoves
<1>6. CASE /\ EndTx(a, u) \/ (LeaveOpen(a) /\ answer' = [answer EXCEPT ![a] = u])
           /\ UNCHANGED <<db, effect>>
  BY <1>1, <1>3, <1>6, UndoneMoves
<1>7. QED
  BY <1>4, <1>5, <1>6

-----------------------------------------------------------------------------
(* Calls, crashes and the clock *)

LEMMA CallStep ==
    ASSUME StoreInv, NEW a \in Attempt, NEW p \in Process, NEW r \in Request, Call(a, p, r)
    PROVE  StoreInv'
<1>1. /\ phase[a] = "idle" /\ asked' = [asked EXCEPT ![a] = r] /\ at' = [at EXCEPT ![a] = p]
      /\ phase' = [phase EXCEPT ![a] = "called"] /\ UNCHANGED <<db, lock, tx, effect, answer, now>>
  BY DEF Call, storage
<1>2. /\ asked' \in [Attempt -> Request \cup {NoRequest}] /\ asked'[a] = r
      /\ \A b \in Attempt \ {a} : asked'[b] = asked[b]
  <2>1. r \in Request \cup {NoRequest} /\ asked \in [Attempt -> Request \cup {NoRequest}]
    BY DEF StoreInv, StoreTypes
  <2>2. QED
    BY <1>1, <2>1, Put
<1>3. /\ at' \in [Attempt -> Process \cup {NoProcess}] /\ at'[a] = p
      /\ \A b \in Attempt \ {a} : at'[b] = at[b]
  <2>1. p \in Process \cup {NoProcess} /\ at \in [Attempt -> Process \cup {NoProcess}]
    BY DEF StoreInv, StoreTypes
  <2>2. QED
    BY <1>1, <2>1, Put
<1>4. /\ phase' \in [Attempt -> Phases] /\ phase'[a] = "called"
      /\ \A b \in Attempt \ {a} : phase'[b] = phase[b]
  <2>1. "called" \in Phases /\ phase \in [Attempt -> Phases]
    BY DEF Phases, StoreInv, StoreTypes
  <2>2. QED
    BY <1>1, <2>1, Put
<1>5. effect[a] = None /\ "called" # "idle" /\ "called" \notin Writing /\ "idle" \notin Writing
      /\ "called" # "staged" /\ "called" \notin {"settled", "unsettled"}
  <2>1. "idle" \in Before
    BY DEF Before
  <2>2. QED
    BY <1>1, <2>1 DEF StoreInv, Calls, Writing
<1>6. StoreTypes'
  BY <1>1, <1>2, <1>3, <1>4 DEF StoreInv, StoreTypes
<1>7. Calls' /\ OneWriter'
  BY <1>1, <1>2, <1>3, <1>4, <1>5 DEF StoreInv, Calls, OneWriter
<1>8. Grows
  BY <1>1, <1>2, <1>5 DEF Grows
<1>9. \A k : Performed(k)' = Performed(k) /\ is_expired(k)' = is_expired(k)
  <2>1. ASSUME NEW k PROVE Performed(k)' = Performed(k)
    <3>1. \A b : b \in Performed(k)' <=> b \in Performed(k)
      BY <1>1, <1>2, <1>5 DEF Performed
    <3>2. QED
      BY ONLY <3>1, SMT
  <2>2. QED
    BY <1>1, <2>1 DEF is_expired
<1>10. Evidence'
  <2>1. ASSUME NEW k \in Key, db.receipts[k] # NoReceipt
        PROVE  \E b \in Performed(k)' : db'.receipts[k] = [request |-> asked'[b], outcome |-> effect'[b]]
    <3>1. PICK b \in Performed(k) : db.receipts[k] = [request |-> asked[b], outcome |-> effect[b]]
      BY <2>1 DEF StoreInv, Evidence
    <3>2. b \in Attempt /\ effect[b] # None
      BY DEF Performed
    <3>3. QED
      BY <1>1, <1>8, <1>9, <3>1, <3>2 DEF Grows
  <2>2. QED
    BY <1>1, <1>9, <2>1 DEF StoreInv, Evidence
<1>11. Claims'
  <2>1. ASSUME NEW b \in Attempt, phase'[b] \in {"settled", "unsettled"} PROVE True(b, answer[b])'
    <3>1. b # a
      BY <1>4, <1>5, <2>1
    <3>2. PICK t : t = answer[b]
      OBVIOUS
    <3>3. True(b, t) /\ t = answer'[b]
      BY <1>1, <1>4, <2>1, <3>1, <3>2 DEF StoreInv, Claims
    <3>4. True(b, t)'
      BY <1>1, <1>2, <1>8, <3>1, <3>3, TrueStays
    <3>5. QED
      BY <3>3, <3>4 DEF True
  <2>2. QED
    BY <2>1 DEF Claims
<1>12. Staging'
  <2>1. ASSUME NEW b \in Attempt, phase'[b] = "staged" PROVE Staged(b)'
    <3>1. b # a
      BY <1>4, <1>5, <2>1
    <3>2. PICK d, o, fresh : d = tx.db /\ o = tx.outcome /\ fresh = tx.fresh
      OBVIOUS
    <3>3. StagedAs(b, d, o, fresh)
      BY <1>4, <2>1, <3>1, <3>2 DEF StoreInv, Staging, Staged
    <3>4. True(b, o) => True(b, o)'
      BY <1>1, <1>2, <1>8, <3>1, TrueStays
    <3>5. StagedAs(b, d, o, fresh)'
      <4>1. asked'[b] = asked[b] /\ db' = db /\ \A k : is_expired(k)' = is_expired(k)
        BY <1>1, <1>2, <1>9, <3>1
      <4>2. PICK q, e : q = asked[b] /\ e = db
        OBVIOUS
      <4>3. CASE ~fresh /\ d = db /\ True(b, o)
        BY <3>4, <4>1, <4>3 DEF StagedAs
      <4>4. CASE ~(~fresh /\ d = db /\ True(b, o))
        <5>1. /\ fresh /\ q.kind \in {"Mutate", "Unkeyed"} /\ Applied(e, q, d.entries, d.revision, o)
              /\ \A k \in Key :
                  IF q.kind = "Mutate" /\ k = q.key
                  THEN /\ e.receipts[k] = NoReceipt
                       /\ d.receipts[k] = [request |-> q, outcome |-> o]
                  ELSE \/ d.receipts[k] = e.receipts[k]
                       \/ is_expired(k)' /\ d.receipts[k] = NoReceipt
          BY <3>3, <4>1, <4>2, <4>4 DEF StagedAs
        <5>2. q = asked'[b] /\ e = db'
          BY <4>1, <4>2
        <5>3. QED
          BY ONLY <5>1, <5>2 DEF StagedAs, Applied, is_satisfied_by
      <4>5. QED
        BY <4>3, <4>4
    <3>6. d = tx'.db /\ o = tx'.outcome /\ fresh = tx'.fresh
      BY <1>1, <3>2
    <3>7. QED
      BY <3>5, <3>6 DEF Staged
  <2>2. QED
    BY <2>1 DEF Staging
<1>13. QED
  BY <1>6, <1>7, <1>10, <1>11, <1>12 DEF StoreInv

LEMMA CrashStep ==
    ASSUME StoreInv, NEW p \in Process, Crash(p) PROVE StoreInv'
<1>0. /\ \A x \in {"done", "lost"} : /\ x \in Phases /\ x \notin Writing /\ x \notin Before
                                     /\ x \notin {"idle", "staged", "settled", "unsettled"}
  BY SMT DEF Phases, Writing, Before
<1>1. /\ phase' = [a \in Attempt |->
            IF at[a] # p \/ phase[a] \in {"idle", "done"} THEN phase[a]
            ELSE IF phase[a] = "answered" THEN "done" ELSE "lost"]
      /\ UNCHANGED <<asked, at, answer, now>>
  BY DEF Crash, calls
<1>2. ASSUME NEW a \in Attempt
      PROVE  /\ phase'[a] \in Phases
             /\ phase'[a] = phase[a] \/ (phase[a] # "idle" /\ phase'[a] \in {"lost", "done"})
             /\ at[a] # p => phase'[a] = phase[a]
             /\ at[a] = p /\ phase[a] \in Writing => phase'[a] = "lost"
  <2>1. phase'[a] = IF at[a] # p \/ phase[a] \in {"idle", "done"} THEN phase[a]
                    ELSE IF phase[a] = "answered" THEN "done" ELSE "lost"
    BY <1>1
  <2>2. phase[a] \in Phases /\ \A x \in Writing : x \notin {"idle", "done", "answered"}
    BY DEF StoreInv, StoreTypes, Writing
  <2>3. QED
    BY <1>0, <2>1, <2>2
<1>3. phase' \in [Attempt -> Phases] /\ answer' \in [Attempt -> Answers]
  BY <1>1, <1>2 DEF StoreInv, StoreTypes
<1>4. \A a \in Attempt : lock = a <=> phase[a] \in Writing
  BY DEF StoreInv, OneWriter
<1>5. lock \in Attempt \cup {NoAttempt} /\ now \in Nat
  BY Constants, SMT DEF StoreInv, StoreTypes
<1>6. CASE lock # NoAttempt /\ at[lock] = p /\ phase[lock] = "staged" /\ Land(lock)
  <2>1. PICK a \in Attempt : a = lock
    BY <1>5, <1>6
  <2>2. /\ phase[a] = "staged" /\ Land(a) /\ lock' = NoAttempt /\ tx' = NoTx
        /\ at[a] = p
    BY <1>6, <2>1 DEF Crash
  <2>3. phase'[a] = "lost"
    BY <1>2, <1>4, <2>1, <2>2
  <2>4. QED
    BY <1>0, <1>1, <1>2, <1>3, <2>2, <2>3, LandMoves
<1>7. CASE UNCHANGED <<db, effect>> /\ (UNCHANGED <<lock, tx>> \/
               (lock # NoAttempt /\ at[lock] = p /\ lock' = NoAttempt /\ tx' = NoTx))
           /\ (UNCHANGED <<lock, tx>> => lock = NoAttempt \/ at[lock] # p)
  <2>1. \A a \in Attempt : lock' = a <=> phase'[a] \in Writing
    <3>1. CASE lock = NoAttempt \/ at[lock] # p
      <4>1. lock' = lock
        BY <1>7, <3>1
      <4>2. ASSUME NEW a \in Attempt PROVE lock' = a <=> phase'[a] \in Writing
        BY <1>0, <1>2, <1>4, <3>1, <4>1, Constants
      <4>3. QED
        BY <4>2
    <3>2. CASE lock # NoAttempt /\ at[lock] = p /\ lock' = NoAttempt /\ tx' = NoTx
      <4>1. ASSUME NEW a \in Attempt PROVE phase'[a] \notin Writing
        BY <1>0, <1>2, <1>4, <3>2
      <4>2. QED
        BY <3>2, <4>1, Constants
    <3>3. QED
      BY <1>7, <3>1, <3>2
  <2>2. OneWriter'
    BY <2>1 DEF OneWriter
  <2>3. tx' \in Tx /\ lock' \in Attempt \cup {NoAttempt}
    BY <1>5, <1>7, NoTxType DEF StoreInv, StoreTypes
  <2>4. StoreTypes'
    BY <1>1, <1>3, <1>7, <2>3 DEF StoreInv, StoreTypes
  <2>5. ASSUME NEW a \in Attempt, phase'[a] = "staged" PROVE phase[a] = "staged" /\ tx' = tx
    <3>1. phase[a] = "staged" /\ "staged" \in Writing
      BY <1>0, <1>2, <2>5 DEF Writing
    <3>2. lock = a /\ lock' = a
      BY <1>4, <2>1, <2>5, <3>1
    <3>3. QED
      BY <1>7, <3>1, <3>2, Constants
  <2>6. now <= now'
    BY <1>1, <1>5, SMT
  <2>7. \A b \in Attempt :
              /\ phase'[b] = "idle" <=> phase[b] = "idle"
              /\ phase'[b] \in Before => phase[b] \in Before
              /\ phase'[b] \in {"settled", "unsettled"} => phase[b] \in {"settled", "unsettled"}
              /\ answer'[b] = answer[b]
    BY <1>0, <1>1, <1>2
  <2>8. QED
    BY <1>1, <1>7, <2>2, <2>4, <2>5, <2>6, <2>7, StoreKept
<1>8. \/ lock # NoAttempt /\ at[lock] = p /\ phase[lock] = "staged" /\ Land(lock)
      \/ /\ lock # NoAttempt /\ at[lock] = p /\ UNCHANGED <<db, effect>>
         /\ lock' = NoAttempt /\ tx' = NoTx
      \/ (lock = NoAttempt \/ at[lock] # p) /\ UNCHANGED <<db, effect, lock, tx>>
  BY DEF Crash, storage
<1>9. QED
  BY <1>6, <1>7, <1>8

LEMMA HeadQueued ==
    ASSUME QueueInv, NEW p \in Process, queue[p] # <<>>
    PROVE  Head(queue[p]) = queue[p][1] /\ 1 \in 1 .. Len(queue[p]) /\ Head(queue[p]) \in Queued(p)
<1>1. PICK s, S : s = queue[p] /\ S = Queued(p)
  OBVIOUS
<1>2. Lists(s, S) /\ s # <<>>
  BY <1>1 DEF QueueInv
<1>3. s \in Seq(Attempt) /\ \A i \in 1 .. Len(s) : s[i] \in S
  BY <1>2 DEF Lists
<1>4. Head(s) = s[1] /\ 1 \in 1 .. Len(s)
  BY <1>2, <1>3, SMT
<1>5. QED
  BY <1>1, <1>3, <1>4

LEMMA DropJobStep ==
    ASSUME StoreInv, QueueInv, NEW p \in Process, DropJob(p) PROVE StoreInv'
<1>1. PICK a : a = Head(queue[p])
  OBVIOUS
<1>2. a \in Attempt /\ phase[a] = "queued"
  BY <1>1, HeadQueued DEF DropJob, Queued
<1>3. PICK t : t = from_dispatch_error(a, "Unknown")
  OBVIOUS
<1>4. /\ phase' = [phase EXCEPT ![a] = "done"] /\ answer' = [answer EXCEPT ![a] = t]
      /\ UNCHANGED <<db, effect, asked, at, now, tx, lock>>
  BY <1>1, <1>3 DEF DropJob, storage, calls
<1>5. t \in Answers
  <2>1. "Unknown" # "NotCommitted"
    OBVIOUS
  <2>2. QED
    BY <1>2, <1>3, <2>1, Dispatched
<1>6. answer' \in [Attempt -> Answers] /\ \A b \in Attempt \ {a} : answer'[b] = answer[b]
  BY <1>2, <1>4, <1>5, Put DEF StoreInv, StoreTypes
<1>7. /\ "done" \in Phases \ {"idle", "staged"} /\ "done" \notin Writing /\ "done" \notin Before
      /\ "done" \notin {"settled", "unsettled"} /\ "queued" # "idle" /\ "queued" \notin Writing
  BY SMT DEF Phases, Writing, Before
<1>8. tx' \in Tx
  BY <1>4 DEF StoreInv, StoreTypes
<1>9. QED
  BY <1>2, <1>4, <1>6, <1>7, <1>8, OneMoves

(* Time passes, a caller goes away or a process starts again.              *)
LEMMA IdleSteps ==
    ASSUME StoreInv,
           \/ Tick \/ (\E p \in Process : Restart(p)) \/ (\E a \in Attempt : DropCaller(a))
           \/ UNCHANGED vars
    PROVE  StoreInv'
<1>1. /\ UNCHANGED <<db, lock, tx, effect, asked, at, phase, answer>>
      /\ now' = now \/ (now < MaxTime /\ now' = now + 1)
  BY DEF Tick, Restart, DropCaller, storage, calls, vars
<1>2. now <= now' /\ now' \in 0 .. MaxTime
  BY <1>1, Constants, SMT DEF StoreInv, StoreTypes
<1>3. StoreTypes' /\ OneWriter'
  BY <1>1, <1>2 DEF StoreInv, StoreTypes, OneWriter
<1>4. QED
  BY <1>1, <1>2, <1>3, StoreKept

LEMMA StoreStep ==
    ASSUME StoreInv, QueueInv, [Next]_vars PROVE StoreInv'
<1>1. ASSUME NEW a \in Attempt, Step(a) PROVE StoreInv'
  BY <1>1, EarlySteps, ReplySteps, OpenSteps, StageSteps, CommitStep DEF Step
<1>2. ASSUME NEW a \in Attempt, NEW o \in Offers[a], Call(a, o[1], o[2]) PROVE StoreInv'
  <2>1. o[1] \in Process /\ o[2] \in Request
    BY MemoryAssumption, SMT
  <2>2. QED
    BY <1>2, <2>1, CallStep
<1>3. QED
  BY <1>1, <1>2, IdleSteps, DropJobStep, CrashStep DEF Next

LEMMA StoreInitially == Init => StoreInv
<1> SUFFICES ASSUME Init PROVE StoreInv
  OBVIOUS
<1>1. /\ db = EmptyDb /\ lock = NoAttempt /\ tx = NoTx /\ now = 0
      /\ asked = [a \in Attempt |-> NoRequest] /\ at = [a \in Attempt |-> NoProcess]
      /\ phase = [a \in Attempt |-> "idle"]
      /\ answer = [a \in Attempt |-> None] /\ effect = [a \in Attempt |-> None]
  BY DEF Init
<1>2. None \in Answers /\ "idle" \in Phases /\ now \in 0 .. MaxTime
  <2>1. now \in 0 .. MaxTime
    BY <1>1, Constants, SMT
  <2>2. QED
    BY <2>1, NoneOutcome DEF Answers, Phases
<1>3. StoreTypes
  BY <1>1, <1>2, NoneOutcome, NoTxType DEF StoreTypes
<1>4. \A a \in Attempt : phase[a] = "idle" /\ asked[a] = NoRequest /\ effect[a] = None
  BY <1>1
<1>5. "idle" \notin Writing /\ "idle" # "staged" /\ "idle" \notin {"settled", "unsettled"}
  BY DEF Writing
<1>6. Calls /\ OneWriter /\ Staging /\ Claims
  BY <1>1, <1>4, <1>5, Constants DEF Calls, OneWriter, Staging, Claims
<1>7. Evidence
  <2>1. \A k : Performed(k) = {}
    BY <1>4 DEF Performed
  <2>2. \A k \in Key : db.receipts[k] = NoReceipt
    <3>1. PICK q, e : q = [k \in Key |-> NoReceipt] /\ e = [x \in Entry |-> Absent]
      OBVIOUS
    <3>2. db = [entries |-> e, revision |-> 0, receipts |-> q]
      BY <1>1, <3>1 DEF EmptyDb
    <3>3. db.receipts = q
      BY <3>2, SMT
    <3>4. QED
      BY <3>1, <3>3
  <2>3. QED
    BY <2>1, <2>2 DEF Evidence
<1>8. QED
  BY <1>3, <1>6, <1>7 DEF StoreInv

-----------------------------------------------------------------------------
(* Capacity and the channel *)

LEMMA ListAppend ==
    ASSUME NEW s, NEW S, Lists(s, S), IsFiniteSet(S), NEW a \in Attempt, a \notin S
    PROVE  Lists(Append(s, a), S \cup {a})
<1>1. s \in Seq(Attempt) /\ Len(s) \in Nat /\ Len(s) = Cardinality(S)
  BY LenProperties DEF Lists
<1>2. PICK t : t = Append(s, a)
  OBVIOUS
<1>3. /\ t \in Seq(Attempt) /\ Len(t) = Len(s) + 1
      /\ \A i \in 1 .. Len(s) : t[i] = s[i]
      /\ t[Len(s) + 1] = a
  BY <1>1, <1>2, SMT
<1>4. Len(t) = Cardinality(S \cup {a})
  BY <1>1, <1>3, FS_AddElement
<1>5. ASSUME NEW i \in 1 .. Len(t)
      PROVE  i \in 1 .. Len(s) \/ i = Len(s) + 1
  BY <1>1, <1>3, SMT
<1>6. \A i \in 1 .. Len(s) : s[i] \in S
  BY DEF Lists
<1>7. \A i \in 1 .. Len(t) : t[i] \in S \cup {a}
  BY <1>3, <1>5, <1>6
<1>8. ASSUME NEW i \in 1 .. Len(t), NEW j \in 1 .. Len(t), t[i] = t[j] PROVE i = j
  <2>1. \A m, n \in 1 .. Len(s) : s[m] = s[n] => m = n
    BY DEF Lists
  <2>2. QED
    BY <1>3, <1>5, <1>6, <1>8, <2>1
<1>9. Lists(t, S \cup {a})
  BY <1>3, <1>4, <1>7, <1>8 DEF Lists
<1>10. QED
  BY <1>2, <1>9

LEMMA ListTail ==
    ASSUME NEW s, NEW S, Lists(s, S), IsFiniteSet(S), s # <<>>, NEW a, a = Head(s)
    PROVE  a \in S /\ Lists(Tail(s), S \ {a})
<1>1. s \in Seq(Attempt) /\ Len(s) \in Nat /\ Len(s) = Cardinality(S)
  BY LenProperties DEF Lists
<1>2. PICK t : t = Tail(s)
  OBVIOUS
<1>3. t \in Seq(Attempt) /\ Len(t) = Len(s) - 1 /\ Len(s) > 0 /\ a = s[1]
  BY <1>1, <1>2, SMT
<1>4. \A i \in 1 .. Len(t) : t[i] = s[i + 1]
  BY <1>1, <1>2, SMT
<1>5. \A i \in 1 .. Len(s) : s[i] \in S
  BY DEF Lists
<1>6. \A i, j \in 1 .. Len(s) : s[i] = s[j] => i = j
  BY DEF Lists
<1>7. a \in S
  <2>1. 1 \in 1 .. Len(s)
    BY <1>1, <1>3, SMT
  <2>2. QED
    BY <1>3, <1>5, <2>1
<1>8. Len(t) = Cardinality(S \ {a})
  BY <1>1, <1>3, <1>7, FS_RemoveElement
<1>9. \A i \in 1 .. Len(t) : i + 1 \in 1 .. Len(s) /\ i + 1 # 1
  BY <1>1, <1>3, SMT
<1>10. 1 \in 1 .. Len(s)
  BY <1>1, <1>3, SMT
<1>11. ASSUME NEW i \in 1 .. Len(t) PROVE t[i] \in S \ {a}
  <2>1. s[i + 1] \in S /\ s[i + 1] # a
    BY <1>3, <1>5, <1>6, <1>9, <1>10
  <2>2. QED
    BY <1>4, <2>1
<1>12. ASSUME NEW i \in 1 .. Len(t), NEW j \in 1 .. Len(t), t[i] = t[j] PROVE i = j
  <2>1. i + 1 = j + 1
    BY <1>4, <1>6, <1>9, <1>12
  <2>2. QED
    BY <1>3, <2>1, SMT
<1>13. Lists(t, S \ {a})
  BY <1>3, <1>8, <1>11, <1>12 DEF Lists
<1>14. QED
  BY <1>2, <1>7, <1>13

(* The phases in which an attempt holds capacity.                          *)
Holds == InJob \cup {"queued", "answered"}

LEMMA HeldAndQueued ==
    ASSUME NEW p
    PROVE  /\ Held(p) \subseteq Attempt /\ IsFiniteSet(Held(p)) /\ Cardinality(Held(p)) \in Nat
           /\ Queued(p) \subseteq Held(p) /\ IsFiniteSet(Queued(p))
           /\ \A a \in Attempt : a \in Held(p) <=> at[a] = p /\ phase[a] \in Holds
           /\ \A a \in Attempt : a \in Queued(p) <=> at[a] = p /\ phase[a] = "queued"
<1>1. Held(p) \subseteq Attempt /\ Queued(p) \subseteq Held(p)
  BY DEF Held, Queued, Holding
<1>2. IsFiniteSet(Held(p))
  BY <1>1, Constants, FS_Subset
<1>3. IsFiniteSet(Queued(p))
  BY <1>1, <1>2, FS_Subset
<1>4. Cardinality(Held(p)) \in Nat
  BY <1>2, FS_CardinalityType
<1>5. QED
  BY <1>1, <1>2, <1>3, <1>4 DEF Held, Queued, Holding, Holds

(* One attempt moves on: it takes, keeps or gives back its permit.         *)
LEMMA PermitMoves ==
    ASSUME QueueInv, NEW a \in Attempt, NEW q \in Process, at[a] = q, at' = at, NEW x,
           phase \in [Attempt -> Phases], phase' = [phase EXCEPT ![a] = x],
           \/ (phase[a] \in Holds <=> x \in Holds) /\ pending' = pending
           \/ /\ phase[a] \notin Holds /\ x \in Holds /\ pending[q] < MaxPending
              /\ pending' = [pending EXCEPT ![q] = @ + 1]
           \/ /\ phase[a] \in Holds /\ x \notin Holds
              /\ pending' = [pending EXCEPT ![q] = @ - 1]
    PROVE  /\ pending' \in [Process -> 0 .. MaxPending]
           /\ \A p \in Process : pending'[p] = Cardinality(Held(p)')
<1>1. phase'[a] = x /\ \A b \in Attempt \ {a} : phase'[b] = phase[b]
  BY SMT
<1>2. /\ pending \in [Process -> 0 .. MaxPending] /\ MaxPending \in Nat
      /\ \A p \in Process : pending[p] = Cardinality(Held(p))
  BY Constants DEF QueueInv
<1>3. /\ \A p, b : b \in Held(p)' <=> b \in Attempt /\ at[b] = p /\ phase'[b] \in Holds
      /\ \A p, b : b \in Held(p) <=> b \in Attempt /\ at[b] = p /\ phase[b] \in Holds
  BY DEF Held, Holding, Holds
<1>4. ASSUME NEW p \in Process \ {q} PROVE Held(p)' = Held(p)
  <2>1. p # q /\ at[a] = q
    OBVIOUS
  <2>2. \A b : b \in Held(p)' <=> b \in Held(p)
    BY ONLY <1>1, <1>3, <2>1
  <2>3. QED
    BY ONLY <2>2, SMT
<1>5. PICK H, G : H = Held(q) /\ G = Held(q)'
  OBVIOUS
<1>6. IsFiniteSet(H) /\ pending[q] = Cardinality(H) /\ Cardinality(H) \in Nat
  BY <1>2, <1>5, HeldAndQueued
<1>7. /\ \A b \in Attempt \ {a} : b \in G <=> b \in H
      /\ a \in G <=> x \in Holds
      /\ a \in H <=> phase[a] \in Holds
      /\ G \subseteq Attempt /\ H \subseteq Attempt
  BY <1>1, <1>3, <1>5
<1>8. CASE (phase[a] \in Holds <=> x \in Holds) /\ pending' = pending
  <2>1. \A b : b \in G <=> b \in H
    BY <1>7, <1>8
  <2>2. G = H
    BY ONLY <2>1, SMT
  <2>3. QED
    BY <1>2, <1>4, <1>5, <1>8, <2>2
<1>9. CASE /\ phase[a] \notin Holds /\ x \in Holds /\ pending[q] < MaxPending
           /\ pending' = [pending EXCEPT ![q] = @ + 1]
  <2>1. \A b : b \in G <=> b \in H \cup {a}
    BY <1>7, <1>9
  <2>2. G = H \cup {a} /\ a \notin H
    <3>1. G = H \cup {a}
      BY ONLY <2>1, SMT
    <3>2. QED
      BY <1>7, <1>9, <3>1
  <2>3. Cardinality(G) = Cardinality(H) + 1
    BY <1>6, <2>2, FS_AddElement
  <2>4. PICK n : n = pending[q] + 1
    OBVIOUS
  <2>5. n \in 0 .. MaxPending /\ n = Cardinality(G)
    BY <1>2, <1>6, <1>9, <2>3, <2>4, SMT
  <2>6. pending' = [pending EXCEPT ![q] = n]
    BY <1>9, <2>4
  <2>7. /\ pending' \in [Process -> 0 .. MaxPending] /\ pending'[q] = n
        /\ \A p \in Process \ {q} : pending'[p] = pending[p]
    BY <1>2, <2>5, <2>6, Put
  <2>8. QED
    BY ONLY <1>2, <1>4, <1>5, <2>5, <2>7
<1>10. CASE /\ phase[a] \in Holds /\ x \notin Holds
            /\ pending' = [pending EXCEPT ![q] = @ - 1]
  <2>1. \A b : b \in G <=> b \in H \ {a}
    BY <1>7, <1>10
  <2>2. G = H \ {a} /\ a \in H
    <3>1. G = H \ {a}
      BY ONLY <2>1, SMT
    <3>2. QED
      BY <1>7, <1>10, <3>1
  <2>3. Cardinality(G) = Cardinality(H) - 1 /\ IsFiniteSet(G)
    BY <1>6, <2>2, FS_RemoveElement
  <2>4. PICK n : n = pending[q] - 1
    OBVIOUS
  <2>5. n \in 0 .. MaxPending /\ n = Cardinality(G)
    <3>1. Cardinality(G) \in Nat
      BY <2>3, FS_CardinalityType
    <3>2. QED
      BY <1>2, <1>6, <2>3, <2>4, <3>1, SMT
  <2>6. pending' = [pending EXCEPT ![q] = n]
    BY <1>10, <2>4
  <2>7. /\ pending' \in [Process -> 0 .. MaxPending] /\ pending'[q] = n
        /\ \A p \in Process \ {q} : pending'[p] = pending[p]
    BY <1>2, <2>5, <2>6, Put
  <2>8. QED
    BY ONLY <1>2, <1>4, <1>5, <2>5, <2>7
<1>11. QED
  BY <1>8, <1>9, <1>10

(* One attempt moves on: it enters the channel, leaves it or does neither. *)
LEMMA ChannelMoves ==
    ASSUME QueueInv, NEW a \in Attempt, NEW q \in Process, at[a] = q, at' = at, NEW x,
           phase \in [Attempt -> Phases], phase' = [phase EXCEPT ![a] = x],
           \/ (phase[a] = "queued" <=> x = "queued") /\ queue' = queue
           \/ /\ phase[a] # "queued" /\ x = "queued"
              /\ queue' = [queue EXCEPT ![q] = Append(@, a)]
           \/ /\ phase[a] = "queued" /\ x # "queued" /\ Head(queue[q]) = a
              /\ queue' = [queue EXCEPT ![q] = Tail(@)]
    PROVE  /\ queue' \in [Process -> Seq(Attempt)]
           /\ \A p \in Process : Lists(queue'[p], Queued(p)')
<1>1. phase'[a] = x /\ \A b \in Attempt \ {a} : phase'[b] = phase[b]
  BY SMT
<1>2. queue \in [Process -> Seq(Attempt)] /\ \A p \in Process : Lists(queue[p], Queued(p))
  BY DEF QueueInv
<1>3. /\ \A p, b : b \in Queued(p)' <=> b \in Attempt /\ at[b] = p /\ phase'[b] = "queued"
      /\ \A p, b : b \in Queued(p) <=> b \in Attempt /\ at[b] = p /\ phase[b] = "queued"
  BY DEF Queued
<1>4. ASSUME NEW p \in Process \ {q} PROVE Queued(p)' = Queued(p)
  <2>1. p # q /\ at[a] = q
    OBVIOUS
  <2>2. \A b : b \in Queued(p)' <=> b \in Queued(p)
    BY ONLY <1>1, <1>3, <2>1
  <2>3. QED
    BY ONLY <2>2, SMT
<1>5. PICK H, G, s : H = Queued(q) /\ G = Queued(q)' /\ s = queue[q]
  OBVIOUS
<1>6. IsFiniteSet(H) /\ Lists(s, H) /\ s \in Seq(Attempt)
  BY <1>2, <1>5, HeldAndQueued
<1>7. /\ \A b \in Attempt \ {a} : b \in G <=> b \in H
      /\ a \in G <=> x = "queued"
      /\ a \in H <=> phase[a] = "queued"
      /\ G \subseteq Attempt /\ H \subseteq Attempt
  <2>1. at[a] = q /\ a \in Attempt
    OBVIOUS
  <2>2. QED
    BY ONLY <1>1, <1>3, <1>5, <2>1
<1>8. CASE (phase[a] = "queued" <=> x = "queued") /\ queue' = queue
  <2>1. \A b : b \in G <=> b \in H
    BY <1>7, <1>8
  <2>2. G = H
    BY ONLY <2>1, SMT
  <2>3. QED
    BY <1>2, <1>4, <1>5, <1>8, <2>2
<1>9. CASE /\ phase[a] # "queued" /\ x = "queued"
           /\ queue' = [queue EXCEPT ![q] = Append(@, a)]
  <2>1. \A b : b \in G <=> b \in H \cup {a}
    BY <1>7, <1>9
  <2>2. G = H \cup {a} /\ a \notin H
    <3>1. G = H \cup {a}
      BY ONLY <2>1, SMT
    <3>2. QED
      BY <1>7, <1>9, <3>1
  <2>3. PICK t : t = Append(s, a)
    OBVIOUS
  <2>4. Lists(t, G) /\ t \in Seq(Attempt)
    <3>1. a \in Attempt
      OBVIOUS
    <3>2. Lists(t, G)
      BY ONLY <1>6, <2>2, <2>3, <3>1, ListAppend
    <3>3. QED
      BY <3>2 DEF Lists
  <2>5. queue' = [queue EXCEPT ![q] = t]
    BY <1>5, <1>9, <2>3
  <2>6. /\ queue' \in [Process -> Seq(Attempt)] /\ queue'[q] = t
        /\ \A p \in Process \ {q} : queue'[p] = queue[p]
    BY <1>2, <2>4, <2>5, Put
  <2>7. QED
    BY <1>2, <1>4, <1>5, <2>4, <2>6
<1>10. CASE /\ phase[a] = "queued" /\ x # "queued" /\ Head(queue[q]) = a
            /\ queue' = [queue EXCEPT ![q] = Tail(@)]
  <2>1. \A b : b \in G <=> b \in H \ {a}
    BY <1>7, <1>10
  <2>2. G = H \ {a}
    BY ONLY <2>1, SMT
  <2>3. s # <<>>
    <3>1. SUFFICES ASSUME s = <<>> PROVE FALSE
      OBVIOUS
    <3>2. Cardinality(H) = 0
      BY <1>6, <3>1, SMT DEF Lists
    <3>3. H = {}
      BY <1>6, <3>2, FS_EmptySet
    <3>4. QED
      BY <1>7, <1>10, <3>3
  <2>4. PICK t : t = Tail(s)
    OBVIOUS
  <2>5. Lists(t, G) /\ t \in Seq(Attempt)
    <3>1. a = Head(s)
      BY <1>5, <1>10
    <3>2. Lists(t, G)
      BY ONLY <1>6, <2>2, <2>3, <2>4, <3>1, ListTail
    <3>3. QED
      BY <3>2 DEF Lists
  <2>6. queue' = [queue EXCEPT ![q] = t]
    BY <1>5, <1>10, <2>4
  <2>7. /\ queue' \in [Process -> Seq(Attempt)] /\ queue'[q] = t
        /\ \A p \in Process \ {q} : queue'[p] = queue[p]
    BY <1>2, <2>5, <2>6, Put
  <2>8. QED
    BY <1>2, <1>4, <1>5, <2>5, <2>7
<1>11. QED
  BY <1>8, <1>9, <1>10

(* An attempt that moves on to phase x takes, keeps or gives back its      *)
(* permit, and enters or leaves the channel, as it should.                 *)
Permit(a, x) ==
    \/ (phase[a] \in Holds <=> x \in Holds) /\ pending' = pending
    \/ /\ phase[a] \notin Holds /\ x \in Holds /\ pending[at[a]] < MaxPending
       /\ pending' = [pending EXCEPT ![at[a]] = @ + 1]
    \/ /\ phase[a] \in Holds /\ x \notin Holds
       /\ pending' = [pending EXCEPT ![at[a]] = @ - 1]
Channel(a, x) ==
    \/ (phase[a] = "queued" <=> x = "queued") /\ queue' = queue
    \/ /\ phase[a] # "queued" /\ x = "queued"
       /\ queue' = [queue EXCEPT ![at[a]] = Append(@, a)]
    \/ /\ phase[a] = "queued" /\ x # "queued" /\ Head(queue[at[a]]) = a
       /\ queue' = [queue EXCEPT ![at[a]] = Tail(@)]
Moves(a) ==
    /\ phase[a] # "idle" /\ UNCHANGED <<at, gone>>
    /\ worker' \in [Process -> {"up", "quarantined", "down"}]
    /\ \E x : phase' = [phase EXCEPT ![a] = x] /\ Permit(a, x) /\ Channel(a, x)

LEMMA QueueMoves ==
    ASSUME StoreInv, QueueInv, NEW a \in Attempt, Moves(a) PROVE QueueInv'
<1>1. PICK x : phase' = [phase EXCEPT ![a] = x] /\ Permit(a, x) /\ Channel(a, x)
  BY DEF Moves
<1>2. PICK q \in Process : at[a] = q
  BY DEF Moves, StoreInv, Calls
<1>3. at' = at /\ gone' = gone /\ worker' \in [Process -> {"up", "quarantined", "down"}]
  BY DEF Moves
<1>4. phase \in [Attempt -> Phases] /\ gone \subseteq Attempt
  BY DEF StoreInv, StoreTypes, QueueInv
<1>5. /\ pending' \in [Process -> 0 .. MaxPending]
      /\ \A p \in Process : pending'[p] = Cardinality(Held(p)')
  <2>1. \/ (phase[a] \in Holds <=> x \in Holds) /\ pending' = pending
        \/ /\ phase[a] \notin Holds /\ x \in Holds /\ pending[q] < MaxPending
           /\ pending' = [pending EXCEPT ![q] = @ + 1]
        \/ /\ phase[a] \in Holds /\ x \notin Holds
           /\ pending' = [pending EXCEPT ![q] = @ - 1]
    BY <1>1, <1>2 DEF Permit
  <2>2. QED
    BY <1>1, <1>2, <1>3, <1>4, <2>1, PermitMoves
<1>6. /\ queue' \in [Process -> Seq(Attempt)]
      /\ \A p \in Process : Lists(queue'[p], Queued(p)')
  <2>1. \/ (phase[a] = "queued" <=> x = "queued") /\ queue' = queue
        \/ /\ phase[a] # "queued" /\ x = "queued"
           /\ queue' = [queue EXCEPT ![q] = Append(@, a)]
        \/ /\ phase[a] = "queued" /\ x # "queued" /\ Head(queue[q]) = a
           /\ queue' = [queue EXCEPT ![q] = Tail(@)]
    BY <1>1, <1>2 DEF Channel
  <2>2. QED
    BY <1>1, <1>2, <1>3, <1>4, <2>1, ChannelMoves
<1>7. QED
  BY <1>3, <1>4, <1>5, <1>6 DEF QueueInv

(* The phases, told apart.                                                 *)
LEMMA HoldingPhases ==
    /\ InJob \subseteq Holds /\ "queued" \in Holds /\ "answered" \in Holds
    /\ "called" \notin Holds /\ "done" \notin Holds /\ "idle" \notin Holds /\ "lost" \notin Holds
    /\ "queued" \notin InJob /\ "idle" \notin InJob
    /\ "validated" \in InJob /\ "locked" \in InJob /\ "staged" \in InJob
    /\ "aborting" \in InJob /\ "unsettled" \in InJob /\ "settled" \in InJob
BY DEF Holds, InJob

LEMMA ReplyPermit ==
    ASSUME NEW a \in Attempt, NEW t, Reply(a, t), phase[a] \in Holds
    PROVE  \E x : /\ phase' = [phase EXCEPT ![a] = x] /\ Permit(a, x)
                  /\ x \in {"done", "answered"}
<1>1. CASE a \in gone
  BY <1>1, HoldingPhases DEF Reply, Permit
<1>2. CASE a \notin gone
  BY <1>2, HoldingPhases DEF Reply, Permit
<1>3. QED
  BY <1>1, <1>2

LEMMA StepMoves ==
    ASSUME StoreInv, QueueInv, NEW a \in Attempt, Step(a) PROVE Moves(a)
<1>0. worker \in [Process -> {"up", "quarantined", "down"}]
  BY DEF QueueInv
<1>1. CASE Admit(a)
  <2>1. /\ phase' = [phase EXCEPT ![a] = "queued"] /\ Permit(a, "queued") /\ Channel(a, "queued")
        /\ phase[a] # "idle" /\ UNCHANGED <<at, gone, worker>>
    BY <1>1, HoldingPhases DEF Admit, Permit, Channel, calls
  <2>2. QED
    BY <1>0, <2>1 DEF Moves
<1>2. CASE Refuse(a)
  <2>1. /\ phase' = [phase EXCEPT ![a] = "done"] /\ Permit(a, "done") /\ Channel(a, "done")
        /\ phase[a] # "idle" /\ UNCHANGED <<at, gone, worker>>
    BY <1>2, HoldingPhases DEF Refuse, Permit, Channel, calls
  <2>2. QED
    BY <1>0, <2>1 DEF Moves
<1>3. CASE Deliver(a)
  <2>1. /\ phase' = [phase EXCEPT ![a] = "done"] /\ Permit(a, "done") /\ Channel(a, "done")
        /\ phase[a] # "idle" /\ UNCHANGED <<at, gone, worker>>
    BY <1>3, HoldingPhases DEF Deliver, Permit, Channel, calls
  <2>2. QED
    BY <1>0, <2>1 DEF Moves
<1>4. CASE Decline(a) \/ Get(a) \/ Window(a)
  <2>1. /\ phase[a] = "queued" /\ Head(queue[at[a]]) = a /\ phase[a] # "idle"
        /\ queue' = [queue EXCEPT ![at[a]] = Tail(@)] /\ UNCHANGED <<at, gone, worker>>
    BY <1>4 DEF Decline, Get, Window, Take, calls
  <2>2. \/ \E t : Reply(a, t)
        \/ phase' = [phase EXCEPT ![a] = "validated"] /\ pending' = pending
    BY <1>4 DEF Decline, Get, Window
  <2>3. PICK x : phase' = [phase EXCEPT ![a] = x] /\ Permit(a, x) /\ x # "queued"
    <3>1. CASE \E t : Reply(a, t)
      <4>1. PICK x : /\ phase' = [phase EXCEPT ![a] = x] /\ Permit(a, x)
                     /\ x \in {"done", "answered"}
        BY <2>1, <3>1, ReplyPermit, HoldingPhases
      <4>2. QED
        BY <4>1
    <3>2. CASE phase' = [phase EXCEPT ![a] = "validated"] /\ pending' = pending
      <4>1. Permit(a, "validated")
        BY <2>1, <3>2, HoldingPhases DEF Permit
      <4>2. QED
        BY <3>2, <4>1
    <3>3. QED
      BY <2>2, <3>1, <3>2
  <2>4. Channel(a, x)
    BY <2>1, <2>3 DEF Channel
  <2>5. QED
    BY <1>0, <2>1, <2>3, <2>4 DEF Moves
<1>5. CASE \/ Reconcile(a) \/ BeginFails(a) \/ Finish(a) \/ Quarantine(a)
  <2>1. /\ phase[a] \in InJob /\ phase[a] # "queued" /\ phase[a] # "idle"
        /\ queue' = queue /\ UNCHANGED <<at, gone>>
        /\ \E t : Reply(a, t)
    BY <1>5, HoldingPhases DEF Reconcile, BeginFails, Finish, Quarantine, calls, Job
  <2>2. worker' \in [Process -> {"up", "quarantined", "down"}]
    <3>1. CASE Quarantine(a)
      <4>1. worker' = [worker EXCEPT ![at[a]] = "quarantined"]
        BY <3>1 DEF Quarantine
      <4>2. at[a] \in Process /\ "quarantined" \in {"up", "quarantined", "down"}
        BY <2>1 DEF StoreInv, Calls
      <4>3. QED
        BY <1>0, <4>1, <4>2, Put
    <3>2. CASE worker' = worker
      BY <1>0, <3>2
    <3>3. QED
      BY <1>5, <3>1, <3>2 DEF Reconcile, BeginFails, Finish, Job
  <2>3. PICK x : /\ phase' = [phase EXCEPT ![a] = x] /\ Permit(a, x)
                 /\ x \in {"done", "answered"}
    BY <2>1, ReplyPermit, HoldingPhases
  <2>4. Channel(a, x)
    BY <2>1, <2>3 DEF Channel
  <2>5. QED
    BY <2>1, <2>2, <2>3, <2>4 DEF Moves
<1>6. CASE \/ Begin(a) \/ StageUnkeyed(a) \/ Replay(a) \/ LookupFails(a) \/ Stage(a)
           \/ StageFails(a) \/ Rollback(a) \/ Commit(a) \/ Settle(a)
  <2>1. phase[a] \in InJob /\ phase[a] # "queued" /\ phase[a] # "idle"
    BY <1>6, HoldingPhases DEF Begin, StageUnkeyed, Replay, LookupFails, Stage, StageFails,
           Rollback, Commit, Settle
  <2>2. /\ \E x \in {"locked", "staged", "aborting", "settled", "unsettled"} :
              phase' = [phase EXCEPT ![a] = x]
        /\ UNCHANGED <<at, gone, queue, worker, pending>>
    BY <1>6 DEF Begin, StageUnkeyed, Replay, LookupFails, Stage, StageFails, StageAs,
           Rollback, Commit, Settle, EndTx, LeaveOpen, Job, calls
  <2>3. PICK x \in {"locked", "staged", "aborting", "settled", "unsettled"} :
            phase' = [phase EXCEPT ![a] = x]
    BY <2>2
  <2>4. x \in Holds /\ phase[a] \in Holds /\ x # "queued"
    BY <2>1, <2>3, HoldingPhases
  <2>5. Permit(a, x) /\ Channel(a, x)
    BY <2>1, <2>2, <2>4 DEF Permit, Channel
  <2>6. QED
    BY <1>0, <2>1, <2>2, <2>3, <2>5 DEF Moves
<1>7. QED
  BY <1>1, <1>2, <1>3, <1>4, <1>5, <1>6 DEF Step

LEMMA QueueKept ==
    ASSUME QueueInv, UNCHANGED <<at, phase, queue, pending>>, gone' \subseteq Attempt,
           worker' \in [Process -> {"up", "quarantined", "down"}]
    PROVE  QueueInv'
<1>1. ASSUME NEW p \in Process PROVE Held(p)' = Held(p) /\ Queued(p)' = Queued(p)
  BY DEF Held, Queued, Holding
<1>2. QED
  BY <1>1 DEF QueueInv

LEMMA QueueIdleSteps ==
    ASSUME QueueInv,
           \/ Tick \/ (\E p \in Process : Restart(p)) \/ (\E a \in Attempt : DropCaller(a))
           \/ UNCHANGED vars
    PROVE  QueueInv'
<1>1. UNCHANGED <<at, phase, queue, pending>>
  BY DEF Tick, Restart, DropCaller, calls, vars
<1>2. gone' \subseteq Attempt
  <2>1. gone' = gone \/ \E a \in Attempt : gone' = gone \cup {a}
    BY DEF Tick, Restart, DropCaller, calls, vars
  <2>2. QED
    BY <2>1 DEF QueueInv
<1>3. worker' \in [Process -> {"up", "quarantined", "down"}]
  <2>1. worker' = worker \/ \E p \in Process : worker' = [worker EXCEPT ![p] = "up"]
    BY DEF Tick, Restart, DropCaller, vars
  <2>2. QED
    BY <2>1, Put DEF QueueInv
<1>4. QED
  BY <1>1, <1>2, <1>3, QueueKept

LEMMA QueueCallStep ==
    ASSUME StoreInv, QueueInv, NEW a \in Attempt, NEW p \in Process, NEW r \in Request,
           Call(a, p, r)
    PROVE  QueueInv'
<1>1. /\ phase[a] = "idle" /\ phase' = [phase EXCEPT ![a] = "called"]
      /\ at' = [at EXCEPT ![a] = p] /\ UNCHANGED <<worker, queue, pending, gone>>
  BY DEF Call
<1>2. /\ phase'[a] = "called" /\ \A b \in Attempt \ {a} : phase'[b] = phase[b] /\ at'[b] = at[b]
  BY <1>1, SMT DEF StoreInv, StoreTypes
<1>3. ASSUME NEW q \in Process PROVE Held(q)' = Held(q) /\ Queued(q)' = Queued(q)
  <2>1. ASSUME NEW b PROVE b \in Held(q)' <=> b \in Held(q)
    <3>1. b \in Held(q)' <=> b \in Attempt /\ at'[b] = q /\ phase'[b] \in Holds
      BY DEF Held, Holding, Holds
    <3>2. b \in Held(q) <=> b \in Attempt /\ at[b] = q /\ phase[b] \in Holds
      BY DEF Held, Holding, Holds
    <3>3. QED
      BY ONLY <1>1, <1>2, <3>1, <3>2, HoldingPhases
  <2>2. ASSUME NEW b PROVE b \in Queued(q)' <=> b \in Queued(q)
    <3>1. "called" # "queued" /\ "idle" # "queued"
      OBVIOUS
    <3>2. QED
      BY <1>1, <1>2, <3>1 DEF Queued
  <2>3. Held(q)' = Held(q)
    BY ONLY <2>1, SMT
  <2>4. Queued(q)' = Queued(q)
    BY ONLY <2>2, SMT
  <2>5. QED
    BY <2>3, <2>4
<1>4. QED
  BY <1>1, <1>3 DEF QueueInv

LEMMA QueueDropJobStep ==
    ASSUME StoreInv, QueueInv, NEW p \in Process, DropJob(p) PROVE QueueInv'
<1>1. PICK a : a = Head(queue[p])
  OBVIOUS
<1>2. a \in Attempt /\ phase[a] = "queued" /\ at[a] = p
  BY <1>1, HeadQueued DEF DropJob, Queued
<1>3. /\ phase' = [phase EXCEPT ![a] = "done"]
      /\ queue' = [queue EXCEPT ![at[a]] = Tail(@)]
      /\ pending' = [pending EXCEPT ![at[a]] = @ - 1]
      /\ UNCHANGED <<at, gone, worker>>
  BY <1>1, <1>2 DEF DropJob, calls
<1>4. Permit(a, "done") /\ Channel(a, "done")
  BY <1>1, <1>2, <1>3, HoldingPhases DEF Permit, Channel
<1>5. Moves(a)
  <2>1. phase[a] # "idle" /\ worker \in [Process -> {"up", "quarantined", "down"}]
    BY <1>2 DEF QueueInv
  <2>2. QED
    BY <1>3, <1>4, <2>1 DEF Moves
<1>6. QED
  BY <1>2, <1>5, QueueMoves

(* A process that dies takes its jobs with it.                             *)
LEMMA QueueCrashStep ==
    ASSUME StoreInv, QueueInv, NEW p \in Process, Crash(p) PROVE QueueInv'
<1>1. /\ worker' = [worker EXCEPT ![p] = "down"]
      /\ queue' = [queue EXCEPT ![p] = <<>>]
      /\ pending' = [pending EXCEPT ![p] = 0]
      /\ UNCHANGED <<at, gone>>
  BY DEF Crash, calls
<1>2. ASSUME NEW a \in Attempt
      PROVE  /\ at[a] # p => phase'[a] = phase[a]
             /\ at[a] = p => phase'[a] \in {"idle", "done", "lost"}
  <2>1. phase'[a] = IF at[a] # p \/ phase[a] \in {"idle", "done"} THEN phase[a]
                    ELSE IF phase[a] = "answered" THEN "done" ELSE "lost"
    BY DEF Crash
  <2>2. QED
    BY <2>1
<1>3. /\ 0 \in 0 .. MaxPending /\ <<>> \in Seq(Attempt)
      /\ worker \in [Process -> {"up", "quarantined", "down"}]
      /\ queue \in [Process -> Seq(Attempt)] /\ pending \in [Process -> 0 .. MaxPending]
  <2>1. 0 \in 0 .. MaxPending
    BY Constants, SMT
  <2>2. <<>> \in Seq(Attempt)
    BY SMT
  <2>3. QED
    BY <2>1, <2>2 DEF QueueInv
<1>4. worker' \in [Process -> {"up", "quarantined", "down"}]
  BY <1>1, <1>3, Put
<1>5. /\ queue' \in [Process -> Seq(Attempt)] /\ queue'[p] = <<>>
      /\ \A q \in Process \ {p} : queue'[q] = queue[q]
  BY <1>1, <1>3, Put
<1>6. /\ pending' \in [Process -> 0 .. MaxPending] /\ pending'[p] = 0
      /\ \A q \in Process \ {p} : pending'[q] = pending[q]
  BY <1>1, <1>3, Put
<1>7. /\ \A q, b : b \in Held(q)' <=> b \in Attempt /\ at[b] = q /\ phase'[b] \in Holds
      /\ \A q, b : b \in Held(q) <=> b \in Attempt /\ at[b] = q /\ phase[b] \in Holds
      /\ \A q, b : b \in Queued(q)' <=> b \in Attempt /\ at[b] = q /\ phase'[b] = "queued"
      /\ \A q, b : b \in Queued(q) <=> b \in Attempt /\ at[b] = q /\ phase[b] = "queued"
  BY <1>1 DEF Held, Queued, Holding, Holds
<1>8. Held(p)' = {} /\ Queued(p)' = {}
  <2>1. \A b : b \notin Held(p)' /\ b \notin Queued(p)'
    BY ONLY <1>2, <1>7, HoldingPhases
  <2>2. QED
    BY <2>1
<1>9. ASSUME NEW q \in Process \ {p} PROVE Held(q)' = Held(q) /\ Queued(q)' = Queued(q)
  <2>1. q # p
    OBVIOUS
  <2>2. \A b : b \in Held(q)' <=> b \in Held(q)
    BY ONLY <1>2, <1>7, <2>1
  <2>3. \A b : b \in Queued(q)' <=> b \in Queued(q)
    BY ONLY <1>2, <1>7, <2>1
  <2>4. Held(q)' = Held(q)
    BY ONLY <2>2, SMT
  <2>5. Queued(q)' = Queued(q)
    BY ONLY <2>3, SMT
  <2>6. QED
    BY <2>4, <2>5
<1>10. Cardinality({}) = 0 /\ Lists(<<>>, {})
  <2>1. Cardinality({}) = 0
    BY FS_EmptySet
  <2>2. QED
    BY <2>1, SMT DEF Lists
<1>11. ASSUME NEW q \in Process
       PROVE  pending'[q] = Cardinality(Held(q)') /\ Lists(queue'[q], Queued(q)')
  <2>1. CASE q = p
    BY <1>5, <1>6, <1>8, <1>10, <2>1
  <2>2. CASE q # p
    <3>1. pending[q] = Cardinality(Held(q)) /\ Lists(queue[q], Queued(q))
      BY DEF QueueInv
    <3>2. q \in Process \ {p}
      BY <2>2
    <3>3. QED
      BY <1>5, <1>6, <1>9, <3>1, <3>2
  <2>3. QED
    BY <2>1, <2>2
<1>12. gone' \subseteq Attempt
  BY <1>1 DEF QueueInv
<1>13. QED
  BY <1>4, <1>5, <1>6, <1>11, <1>12 DEF QueueInv

LEMMA QueueStep ==
    ASSUME StoreInv, QueueInv, [Next]_vars PROVE QueueInv'
<1>1. ASSUME NEW a \in Attempt, NEW o \in Offers[a], Call(a, o[1], o[2]) PROVE QueueInv'
  <2>1. o[1] \in Process /\ o[2] \in Request
    BY MemoryAssumption, SMT
  <2>2. QED
    BY <1>1, <2>1, QueueCallStep
<1>2. ASSUME NEW a \in Attempt, Step(a) PROVE QueueInv'
  BY <1>2, StepMoves, QueueMoves
<1>3. QED
  BY <1>1, <1>2, QueueIdleSteps, QueueDropJobStep, QueueCrashStep DEF Next

LEMMA QueueInitially == Init => QueueInv
<1> SUFFICES ASSUME Init PROVE QueueInv
  OBVIOUS
<1>1. /\ worker = [p \in Process |-> "up"] /\ queue = [p \in Process |-> <<>>]
      /\ pending = [p \in Process |-> 0] /\ gone = {}
      /\ phase = [a \in Attempt |-> "idle"]
  BY DEF Init
<1>2. 0 \in 0 .. MaxPending /\ <<>> \in Seq(Attempt)
  <2>1. 0 \in 0 .. MaxPending
    BY Constants, SMT
  <2>2. <<>> \in Seq(Attempt)
    BY SMT
  <2>3. QED
    BY <2>1, <2>2
<1>3. \A p : Held(p) = {} /\ Queued(p) = {}
  BY <1>1, HoldingPhases DEF Held, Queued, Holding, Holds
<1>4. Cardinality({}) = 0 /\ Lists(<<>>, {})
  <2>1. Cardinality({}) = 0
    BY FS_EmptySet
  <2>2. QED
    BY <2>1, SMT DEF Lists
<1>5. QED
  BY <1>1, <1>2, <1>3, <1>4 DEF QueueInv

-----------------------------------------------------------------------------
MemoryInv == StoreInv /\ QueueInv

LEMMA MemoryInvariant == Spec => []MemoryInv
<1>1. Init => MemoryInv
  BY StoreInitially, QueueInitially DEF MemoryInv
<1>2. MemoryInv /\ [Next]_vars => MemoryInv'
  BY StoreStep, QueueStep DEF MemoryInv
<1>3. QED
  BY <1>1, <1>2, PTL DEF Spec

LEMMA InvariantTypes == MemoryInv => TypeOK
<1> SUFFICES ASSUME MemoryInv PROVE TypeOK
  OBVIOUS
<1>1. /\ db \in Db /\ tx \in Tx /\ lock \in Attempt \cup {NoAttempt}
      /\ asked \in [Attempt -> Request \cup {NoRequest}]
      /\ at \in [Attempt -> Process \cup {NoProcess}]
      /\ phase \in [Attempt -> Phases] /\ now \in 0 .. MaxTime
      /\ effect \in [Attempt -> Outcomes] /\ answer \in [Attempt -> Answers]
  BY DEF MemoryInv, StoreInv, StoreTypes
<1>2. /\ db.revision \in 0 .. MaxRevision /\ db.entries \in [Entry -> Slot]
      /\ db.receipts \in [Key -> Receipt]
  BY <1>1, SMT DEF Db
<1>3. tx.db.revision \in 0 .. MaxRevision
  <2>1. PICK d : d = tx.db
    OBVIOUS
  <2>2. d \in Db
    BY <1>1, <2>1, SMT DEF Tx
  <2>3. d.revision \in 0 .. MaxRevision
    BY <2>2, SMT DEF Db
  <2>4. QED
    BY <2>1, <2>3
<1>4. DOMAIN db.entries = Entry /\ DOMAIN db.receipts = Key
  BY <1>2
<1>5. ASSUME NEW k \in Key PROVE db.receipts[k].outcome \in Outcomes
  <2>1. PICK c : c = db.receipts[k]
    OBVIOUS
  <2>2. c \in Receipt
    BY <1>2, <2>1
  <2>3. c.outcome \in Outcomes
    BY <2>2, SMT DEF Receipt
  <2>4. QED
    BY <2>1, <2>3
<1>6. ASSUME NEW a \in Attempt PROVE answer[a].kind = "Read" \/ answer[a] \in Outcomes
  <2>1. PICK t : t = answer[a]
    OBVIOUS
  <2>2. t \in Outcomes \/ t \in [kind : {"Read"}, entry : Slot]
    BY <1>1, <2>1 DEF Answers
  <2>3. t \in [kind : {"Read"}, entry : Slot] => t.kind = "Read"
    BY SMT
  <2>4. QED
    BY <2>1, <2>2, <2>3
<1>7. /\ worker \in [Process -> {"up", "quarantined", "down"}] /\ gone \subseteq Attempt
      /\ queue \in [Process -> Seq(Attempt)] /\ pending \in [Process -> 0 .. MaxPending]
  BY DEF MemoryInv, QueueInv
<1>8. QED
  BY <1>1, <1>2, <1>3, <1>4, <1>5, <1>6, <1>7 DEF TypeOK, Phases

(* In every reachable state each receipt tells the outcome of a mutation   *)
(* that was performed, and a performed operation has its receipt until its *)
(* key expires, whatever fails or dies: persist, execute_write.            *)
THEOREM ReceiptsTellTheTruth == Spec => []ReceiptsAreEvidence
<1>1. MemoryInv => ReceiptsAreEvidence
  BY InvariantTypes DEF MemoryInv, StoreInv, Evidence, ReceiptsAreEvidence
<1>2. QED
  BY <1>1, MemoryInvariant, PTL

(* In every reachable state the permits in use are those of the jobs that  *)
(* wait, run or have an answer nobody took, and a job with a permit finds  *)
(* room in the channel: Admission, Reservation, SqliteWorker::execute.     *)
THEOREM CapacityIsKept == Spec => []CapacityIsConserved
<1>1. MemoryInv => CapacityIsConserved
  <2> SUFFICES ASSUME MemoryInv, NEW p \in Process
               PROVE  pending[p] = Cardinality(Held(p)) /\ Len(queue[p]) <= pending[p]
    BY DEF CapacityIsConserved, Held
  <2>1. pending[p] = Cardinality(Held(p)) /\ Len(queue[p]) = Cardinality(Queued(p))
    BY DEF MemoryInv, QueueInv, Lists
  <2>2. Cardinality(Queued(p)) <= Cardinality(Held(p))
    BY HeldAndQueued, FS_Subset
  <2>3. QED
    BY <2>1, <2>2
<1>2. QED
  BY <1>1, MemoryInvariant, PTL

-----------------------------------------------------------------------------
(* Every step is one that VersionedStore allows, or changes nothing that   *)
(* its callers see.                                                        *)

Spoken == {"answered", "done"}

LEMMA ToldSame ==
    ASSUME \A b \in Attempt : phase'[b] \in Spoken <=> phase[b] \in Spoken,
           \A b \in Attempt : phase[b] \in Spoken => answer'[b] = answer[b]
    PROVE  Told' = Told
<1>1. \A b \in Attempt : (IF phase'[b] \in Spoken THEN answer'[b] ELSE None)
                       = IF phase[b] \in Spoken THEN answer[b] ELSE None
  OBVIOUS
<1>2. QED
  BY <1>1 DEF Told, Spoken

LEMMA ToldOne ==
    ASSUME NEW a \in Attempt, NEW t, phase[a] \notin Spoken, phase'[a] \in Spoken, answer'[a] = t,
           \A b \in Attempt \ {a} : phase'[b] = phase[b] /\ answer'[b] = answer[b]
    PROVE  Told[a] = None /\ Told' = [Told EXCEPT ![a] = t]
<1>1. PICK f, g : f = Told /\ g = Told'
  OBVIOUS
<1>2. /\ f = [b \in Attempt |-> IF phase[b] \in Spoken THEN answer[b] ELSE None]
      /\ g = [b \in Attempt |-> IF phase'[b] \in Spoken THEN answer'[b] ELSE None]
  BY <1>1 DEF Told, Spoken
<1>3. g[a] = t /\ f[a] = None /\ \A b \in Attempt \ {a} : g[b] = f[b]
  BY <1>2
<1>4. f = [b \in Attempt |-> f[b]] /\ g = [b \in Attempt |-> g[b]]
  BY <1>2
<1>5. g = [f EXCEPT ![a] = t]
  BY ONLY <1>3, <1>4, a \in Attempt, SMT
<1>6. QED
  BY <1>1, <1>3, <1>5

LEMMA SaysTheTruth ==
    ASSUME StoreInv, NEW a \in Attempt, NEW t, True(a, t) PROVE t \in Promise!Sayable(a)
<1>1. CASE t \in {Plain("Unknown"), Plain("Error"), Plain("Unresolved"), Plain("Expired")}
  BY <1>1 DEF Promise!Sayable, Promise!Plain, Plain
<1>2. CASE t = effect[a] /\ t # None
  BY <1>2 DEF Promise!Sayable, Promise!None, Promise!Plain, None, Plain
<1>3. CASE /\ asked[a].kind \in {"Mutate", "Reconcile"}
           /\ \E b \in Performed(asked[a].key) : t = effect[b]
  <2>1. PICK b \in Performed(asked[a].key) : t = effect[b]
    BY <1>3
  <2>2. b \in Attempt /\ effect[b] # None /\ asked[b].kind = "Mutate" /\ asked[b].key = asked[a].key
    BY DEF Performed
  <2>3. phase[b] # "idle"
    BY <2>2 DEF StoreInv, Calls, Before
  <2>4. asked[b] # NoRequest
    BY <2>2, <2>3, Constants DEF StoreInv, Calls
  <2>5. t \in Promise!Done(asked[a].key)
    BY <2>1, <2>2, <2>4 DEF Promise!Done, Promise!None, Promise!Plain, None, Plain
  <2>6. QED
    BY <1>3, <2>5 DEF Promise!Sayable
<1>4. CASE t = Plain("NotCommitted") /\ effect[a] = None
  BY <1>4 DEF Promise!Sayable, Promise!None, Promise!Plain, None, Plain
<1>5. QED
  BY <1>1, <1>2, <1>3, <1>4 DEF True

Seen == <<db, asked, effect, now>>
Allowed == [Promise!Next]_(Promise!storeVars)

LEMMA Unseen ==
    ASSUME UNCHANGED Seen, Told' = Told PROVE Allowed
BY DEF Seen, Allowed, Promise!storeVars

LEMMA SentRequest ==
    ASSUME StoreInv, NEW a \in Attempt, phase[a] # "idle" PROVE asked[a] # NoRequest
BY Constants DEF StoreInv, Calls

(* An attempt is told something that is true.                              *)
LEMMA Tells ==
    ASSUME StoreInv, NEW a \in Attempt, NEW t, True(a, t), UNCHANGED Seen,
           phase[a] # "idle", Told[a] = None, Told' = [Told EXCEPT ![a] = t]
    PROVE  Allowed
<1>1. asked[a] # NoRequest /\ t \in Promise!Sayable(a)
  BY SentRequest, SaysTheTruth
<1>2. UNCHANGED <<db.entries, db.revision, asked, effect, now>>
  BY DEF Seen
<1>3. Promise!Tell(a)
  BY <1>1, <1>2 DEF Promise!Tell, Promise!None, Promise!Plain, None, Plain
<1>4. QED
  BY <1>3 DEF Promise!Next, Allowed

(* Answers: the phase moves to answered or done, with the answer t.        *)
LEMMA ReplyTold ==
    ASSUME StoreInv, NEW a \in Attempt, NEW t, NEW x \in Spoken, phase[a] \notin Spoken,
           phase' = [phase EXCEPT ![a] = x], answer' = [answer EXCEPT ![a] = t]
    PROVE  Told[a] = None /\ Told' = [Told EXCEPT ![a] = t]
<1>1. /\ phase'[a] = x /\ answer'[a] = t
      /\ \A b \in Attempt \ {a} : phase'[b] = phase[b] /\ answer'[b] = answer[b]
  BY SMT DEF StoreInv, StoreTypes
<1>2. phase[a] \notin Spoken /\ phase'[a] \in Spoken /\ a \in Attempt
  BY <1>1
<1>3. QED
  BY ONLY <1>1, <1>2, ToldOne

LEMMA SpokenPhases ==
    /\ \A x \in InJob \cup {"idle", "called", "queued", "lost"} : x \notin Spoken
    /\ \A x \in InJob \cup {"called", "queued", "lost"} : x # "idle"
BY DEF Spoken, InJob

LEMMA ReplyAllowed ==
    ASSUME StoreInv, NEW a \in Attempt, NEW t, Reply(a, t), UNCHANGED Seen,
           phase[a] \in InJob \cup {"queued"}, True(a, t)
    PROVE  Allowed
<1>1. PICK x \in Spoken : phase' = [phase EXCEPT ![a] = x]
  BY DEF Reply, Spoken
<1>2. phase[a] \notin Spoken /\ phase[a] # "idle"
  BY SpokenPhases
<1>3. Told[a] = None /\ Told' = [Told EXCEPT ![a] = t]
  <2>1. answer' = [answer EXCEPT ![a] = t]
    BY DEF Reply
  <2>2. QED
    BY <1>1, <1>2, <2>1, ReplyTold
<1>4. QED
  BY <1>2, <1>3, Tells

LEMMA ReplyStepsAllowed ==
    ASSUME StoreInv, NEW a \in Attempt,
           \/ Decline(a) \/ Get(a) \/ Reconcile(a) \/ BeginFails(a) \/ Quarantine(a) \/ Finish(a)
    PROVE  Allowed
<1>0. /\ \A x \in {"queued", "validated"} : x \in Before /\ x \in InJob \cup {"queued"}
      /\ "unsettled" \in InJob /\ "settled" \in InJob
  BY DEF Before, InJob
<1>1. ASSUME phase[a] \in Before PROVE effect[a] = None
  BY <1>1 DEF StoreInv, Calls
<1>2. CASE Decline(a) \/ BeginFails(a)
  <2>1. PICK t : t = from_dispatch_error(a, "NotCommitted")
    OBVIOUS
  <2>2. phase[a] \in {"queued", "validated"} /\ Reply(a, t) /\ UNCHANGED Seen
    BY <1>2, <2>1 DEF Decline, BeginFails, Take, storage, calls, Job, Seen
  <2>3. True(a, t)
    BY <1>0, <1>1, <2>1, <2>2, Dispatched
  <2>4. QED
    BY <1>0, <2>2, <2>3, ReplyAllowed
<1>3. CASE Get(a)
  <2>1. phase[a] = "queued" /\ UNCHANGED Seen /\ asked[a].kind = "Get"
    BY <1>3 DEF Get, Take, storage, calls, Seen
  <2>2. CASE Reply(a, Plain("Error"))
    <3>1. True(a, Plain("Error"))
      BY DEF True
    <3>2. QED
      BY <1>0, <2>1, <2>2, <3>1, ReplyAllowed
  <2>3. CASE Reply(a, [kind |-> "Read", entry |-> db.entries[asked[a].entry]])
    <3>1. PICK t : t = [kind |-> "Read", entry |-> db.entries[asked[a].entry]]
      OBVIOUS
    <3>2. PICK x \in Spoken : phase' = [phase EXCEPT ![a] = x]
      BY <2>3 DEF Reply, Spoken
    <3>3. answer' = [answer EXCEPT ![a] = t]
      BY <2>3, <3>1 DEF Reply
    <3>4. Told[a] = None /\ Told' = [Told EXCEPT ![a] = t]
      BY <2>1, <3>2, <3>3, ReplyTold, SpokenPhases
    <3>5. asked[a] # NoRequest
      BY <2>1, SentRequest
    <3>6. UNCHANGED <<db.entries, db.revision, asked, effect, now>>
      BY <2>1 DEF Seen
    <3>7. Promise!Read(a)
      BY <2>1, <3>1, <3>4, <3>5, <3>6 DEF Promise!Read, Promise!None, Promise!Plain, None, Plain
    <3>8. QED
      BY <3>7 DEF Promise!Next, Allowed
  <2>4. QED
    BY <1>3, <2>2, <2>3 DEF Get
<1>4. CASE Reconcile(a)
  <2>1. /\ phase[a] = "validated" /\ UNCHANGED Seen /\ asked[a].kind = "Reconcile"
    BY <1>4 DEF Reconcile, storage, Job, calls, Seen
  <2>2. PICK k, c : k = asked[a].key /\ c = db.receipts[k]
    OBVIOUS
  <2>3. PICK t : /\ t \in {Plain("Unresolved"), Plain("Error")} \/ (c # NoReceipt /\ t = c.outcome)
                 /\ Reply(a, t)
    BY <1>4, <2>2 DEF Reconcile
  <2>4. ASSUME c # NoReceipt, t = c.outcome PROVE True(a, t)
    <3>1. k \in Key
      <4>1. asked[a] \in Request
        BY <2>1 DEF StoreInv, Calls
      <4>2. QED
        BY <2>2, <4>1, Constants
    <3>2. PICK b \in Performed(k) : c = [request |-> asked[b], outcome |-> effect[b]]
      BY <2>2, <2>4, <3>1 DEF StoreInv, Evidence
    <3>3. t = effect[b]
      <4>1. PICK r, o : r = asked[b] /\ o = effect[b]
        OBVIOUS
      <4>2. c = [request |-> r, outcome |-> o]
        BY <3>2, <4>1
      <4>3. c.outcome = o
        BY <4>2, SMT
      <4>4. QED
        BY <2>4, <4>1, <4>3
    <3>4. QED
      BY <2>1, <2>2, <3>3 DEF True
  <2>5. True(a, t)
    BY <2>3, <2>4 DEF True
  <2>6. QED
    BY <1>0, <2>1, <2>3, <2>5, ReplyAllowed
<1>5. CASE Quarantine(a)
  <2>1. PICK t : t = answer[a]
    OBVIOUS
  <2>2. phase[a] = "unsettled" /\ Reply(a, t) /\ UNCHANGED Seen
    BY <1>5, <2>1 DEF Quarantine, calls, Seen
  <2>3. True(a, t)
    BY <2>1, <2>2 DEF StoreInv, Claims
  <2>4. QED
    BY <1>0, <2>2, <2>3, ReplyAllowed
<1>6. CASE Finish(a)
  <2>1. phase[a] = "settled" /\ UNCHANGED Seen
    BY <1>6 DEF Finish, storage, Job, calls, Seen
  <2>2. PICK u, t : /\ u = from_dispatch_error(a, "Unknown") /\ t \in {answer[a], u} /\ Reply(a, t)
    BY <1>6 DEF Finish
  <2>3. True(a, t)
    <3>1. ASSUME t = answer[a] PROVE True(a, t)
      BY <2>1, <3>1 DEF StoreInv, Claims
    <3>2. "Unknown" # "NotCommitted"
      OBVIOUS
    <3>3. True(a, u)
      BY <2>2, <3>2, Dispatched
    <3>4. QED
      BY <2>2, <3>1, <3>3
  <2>4. QED
    BY <1>0, <2>1, <2>2, <2>3, ReplyAllowed
<1>7. QED
  BY <1>2, <1>3, <1>4, <1>5, <1>6

(* Steps that answer nobody and write nothing.                             *)
LEMMA SilentMoves ==
    ASSUME StoreInv, NEW a \in Attempt, UNCHANGED Seen, NEW x,
           phase' = [phase EXCEPT ![a] = x], phase[a] \notin Spoken, x \notin Spoken,
           \A b \in Attempt \ {a} : answer'[b] = answer[b]
    PROVE  Allowed
<1>1. phase'[a] = x /\ \A b \in Attempt \ {a} : phase'[b] = phase[b]
  BY SMT DEF StoreInv, StoreTypes
<1>2. Told' = Told
  BY <1>1, ToldSame
<1>3. QED
  BY <1>2, Unseen

LEMMA EarlyStepsAllowed ==
    ASSUME StoreInv, NEW a \in Attempt, Admit(a) \/ Refuse(a) \/ Deliver(a) \/ Window(a)
    PROVE  Allowed
<1>1. CASE Admit(a)
  <2>1. /\ UNCHANGED Seen /\ phase' = [phase EXCEPT ![a] = "queued"] /\ answer' = answer
        /\ phase[a] = "called"
    BY <1>1 DEF Admit, storage, calls, Seen
  <2>2. QED
    BY <2>1, SpokenPhases, SilentMoves
<1>2. CASE Refuse(a)
  <2>1. PICK t : t = from_dispatch_error(a, "NotCommitted")
    OBVIOUS
  <2>2. /\ UNCHANGED Seen /\ phase' = [phase EXCEPT ![a] = "done"] /\ phase[a] = "called"
        /\ answer' = [answer EXCEPT ![a] = t] /\ "done" \in Spoken
    BY <1>2, <2>1 DEF Refuse, storage, calls, Seen, Spoken
  <2>3. effect[a] = None
    BY <2>2 DEF StoreInv, Calls, Before
  <2>4. True(a, t)
    BY <2>1, <2>3, Dispatched
  <2>5. Told[a] = None /\ Told' = [Told EXCEPT ![a] = t]
    BY <2>2, ReplyTold, SpokenPhases
  <2>6. QED
    BY <2>2, <2>4, <2>5, Tells
<1>3. CASE Deliver(a)
  <2>1. /\ UNCHANGED Seen /\ phase' = [phase EXCEPT ![a] = "done"] /\ answer' = answer
        /\ phase[a] \in Spoken /\ "done" \in Spoken
    BY <1>3 DEF Deliver, storage, calls, Seen, Spoken
  <2>2. phase'[a] = "done" /\ \A b \in Attempt \ {a} : phase'[b] = phase[b]
    BY <2>1, SMT DEF StoreInv, StoreTypes
  <2>3. Told' = Told
    BY <2>1, <2>2, ToldSame
  <2>4. QED
    BY <2>1, <2>3, Unseen
<1>4. CASE Window(a)
  <2>1. UNCHANGED Seen /\ phase[a] = "queued" /\ "validated" \notin Spoken
    BY <1>4 DEF Window, Take, storage, calls, Seen, Spoken
  <2>2. \/ phase' = [phase EXCEPT ![a] = "validated"] /\ answer' = answer
        \/ \E t \in {Plain("Error"), Plain("Expired")} : Reply(a, t)
    BY <1>4 DEF Window
  <2>3. \A t \in {Plain("Error"), Plain("Expired")} : True(a, t)
    BY DEF True
  <2>4. CASE phase' = [phase EXCEPT ![a] = "validated"] /\ answer' = answer
    BY <2>1, <2>4, SpokenPhases, SilentMoves
  <2>5. CASE \E t \in {Plain("Error"), Plain("Expired")} : Reply(a, t)
    BY <2>1, <2>3, <2>5, ReplyAllowed
  <2>6. QED
    BY <2>2, <2>4, <2>5
<1>5. QED
  BY <1>1, <1>2, <1>3, <1>4

LEMMA TransactionStepsAllowed ==
    ASSUME StoreInv, NEW a \in Attempt,
           \/ Begin(a) \/ StageUnkeyed(a) \/ Replay(a) \/ LookupFails(a) \/ Stage(a)
           \/ StageFails(a) \/ Rollback(a) \/ Settle(a)
    PROVE  Allowed
<1>1. phase[a] \in InJob /\ UNCHANGED Seen
  BY DEF Begin, StageUnkeyed, Replay, LookupFails, Stage, StageFails, StageAs, Rollback, Settle,
         EndTx, LeaveOpen, Job, calls, storage, Seen, InJob
<1>2. \E x \in InJob : phase' = [phase EXCEPT ![a] = x]
  BY DEF Begin, StageUnkeyed, Replay, LookupFails, Stage, StageFails, StageAs, Rollback, Settle,
         EndTx, LeaveOpen, InJob
<1>3. answer' = answer \/ \E t : answer' = [answer EXCEPT ![a] = t]
  BY DEF Begin, StageUnkeyed, Replay, LookupFails, Stage, StageFails, StageAs, Rollback, Settle,
         EndTx, LeaveOpen
<1>4. \A b \in Attempt \ {a} : answer'[b] = answer[b]
  BY <1>3, SMT DEF StoreInv, StoreTypes
<1>5. QED
  BY <1>1, <1>2, <1>4, SpokenPhases, SilentMoves

(* A transaction that lands performs the mutation of its attempt, once for *)
(* a key that has not expired, or changes nothing.                         *)
LEMMA LandAllowed ==
    ASSUME StoreInv, NEW a \in Attempt, phase[a] = "staged", Land(a), UNCHANGED <<asked, now>>,
           Told' = Told
    PROVE  Allowed
<1>1. PICK d, o, fresh, r, e :
          d = tx.db /\ o = tx.outcome /\ fresh = tx.fresh /\ r = asked[a] /\ e = db
  OBVIOUS
<1>2. db' = d /\ effect' = IF fresh THEN [effect EXCEPT ![a] = o] ELSE effect
  BY <1>1 DEF Land
<1>3. StagedAs(a, d, o, fresh)
  BY <1>1 DEF StoreInv, Staging, Staged
<1>4. r \in Request /\ r # NoRequest /\ effect[a] = None
  <2>1. "staged" \in Before /\ "staged" # "idle"
    BY DEF Before, Writing
  <2>2. QED
    BY <1>1, <2>1, Constants DEF StoreInv, Calls
<1>5. Told[a] = None
  BY DEF Told
<1>6. CASE ~fresh
  <2>1. UNCHANGED Seen
    BY <1>2, <1>3, <1>6 DEF StagedAs, Seen
  <2>2. QED
    BY <2>1, Unseen
<1>7. CASE fresh
  <2>1. effect' = [effect EXCEPT ![a] = o]
    BY <1>2, <1>7
  <2>2. /\ r.kind \in {"Mutate", "Unkeyed"} /\ Applied(e, r, d.entries, d.revision, o)
        /\ r.kind = "Mutate" => db.receipts[r.key] = NoReceipt
    <3>1. r.key \in Key
      BY <1>4, Constants
    <3>2. QED
      BY <1>1, <1>3, <1>7, <3>1 DEF StagedAs
  <2>3. r.kind = "Mutate" => Promise!Done(r.key) = {} \/ Expiry[r.key] <= now
    <3>1. PICK k : k = r.key
      OBVIOUS
    <3>2. SUFFICES ASSUME r.kind = "Mutate" PROVE Promise!Done(k) = {} \/ Expiry[k] <= now
      BY <3>1
    <3>3. Performed(k) = {} \/ is_expired(k)
      <4>1. k \in Key
        BY <1>4, <3>1, Constants
      <4>2. QED
        BY <2>2, <3>1, <3>2, <4>1 DEF StoreInv, Evidence
    <3>4. ASSUME NEW t \in Promise!Done(k) PROVE Performed(k) # {}
      BY <3>4 DEF Promise!Done, Performed, Promise!None, Promise!Plain, None, Plain
    <3>5. QED
      BY <3>3, <3>4 DEF is_expired
  <2>4. Promise!Perform(a)
    <3>1. e = db /\ r = asked[a] /\ d.entries = db'.entries /\ d.revision = db'.revision
      BY <1>1, <1>2
    <3>2. /\ asked[a] # NoRequest /\ asked[a].kind \in {"Mutate", "Unkeyed"}
          /\ effect[a] = Promise!None /\ Told[a] = Promise!None
          /\ asked[a].kind = "Mutate" =>
                Promise!Done(asked[a].key) = {} \/ Expiry[asked[a].key] <= now
      BY <1>1, <1>4, <1>5, <2>2, <2>3 DEF Promise!None, Promise!Plain, None, Plain
    <3>3. \/ /\ Promise!Changes(asked[a])
             /\ db'.revision = db.revision + 1
             /\ db'.entries = [db.entries EXCEPT ![asked[a].entry] =
                  IF asked[a].value = Absent THEN Absent
                  ELSE [value |-> asked[a].value, version |-> db.revision + 1]]
             /\ effect' = [effect EXCEPT ![a] = [kind |-> "Committed", version |-> db.revision + 1]]
          \/ /\ ~Promise!Changes(asked[a])
             /\ effect' = [effect EXCEPT ![a] =
                  [kind |-> IF Promise!Holds(asked[a].cond, db.entries[asked[a].entry])
                            THEN "Unchanged" ELSE "Conflict",
                   version |-> 0]]
             /\ UNCHANGED <<db.entries, db.revision>>
      <4>1. /\ Promise!Changes(asked[a]) <=>
                 /\ is_satisfied_by(r.cond, e.entries[r.entry])
                 /\ ~(r.value = Absent /\ e.entries[r.entry] = Absent)
            /\ Promise!Holds(asked[a].cond, db.entries[asked[a].entry]) <=>
                 is_satisfied_by(r.cond, e.entries[r.entry])
        BY <3>1 DEF Promise!Changes, Promise!Holds, is_satisfied_by
      <4>2. CASE /\ ~is_satisfied_by(r.cond, e.entries[r.entry])
                 /\ d.entries = e.entries /\ d.revision = e.revision /\ o = Plain("Conflict")
        BY <2>1, <3>1, <4>1, <4>2 DEF Plain
      <4>3. CASE /\ is_satisfied_by(r.cond, e.entries[r.entry])
                 /\ r.value = Absent /\ e.entries[r.entry] = Absent
                 /\ d.entries = e.entries /\ d.revision = e.revision /\ o = Plain("Unchanged")
        BY <2>1, <3>1, <4>1, <4>3 DEF Plain
      <4>4. CASE /\ is_satisfied_by(r.cond, e.entries[r.entry])
                 /\ ~(r.value = Absent /\ e.entries[r.entry] = Absent)
                 /\ d.revision = e.revision + 1
                 /\ d.entries = [e.entries EXCEPT ![r.entry] =
                        IF r.value = Absent THEN Absent
                        ELSE [value |-> r.value, version |-> d.revision]]
                 /\ o = [kind |-> "Committed", version |-> d.revision]
        BY <2>1, <3>1, <4>1, <4>4
      <4>5. QED
        BY <2>2, <4>2, <4>3, <4>4 DEF Applied
    <3>4. QED
      BY <3>2, <3>3 DEF Promise!Perform
  <2>5. QED
    BY <2>4 DEF Promise!Next, Allowed
<1>8. QED
  BY <1>6, <1>7

LEMMA CommitAllowed ==
    ASSUME StoreInv, NEW a \in Attempt, Commit(a) PROVE Allowed
<1>1. PICK x \in InJob : phase' = [phase EXCEPT ![a] = x]
  BY DEF Commit, EndTx, LeaveOpen, InJob
<1>2. PICK t : answer' = [answer EXCEPT ![a] = t]
  BY DEF Commit, EndTx, LeaveOpen
<1>3. phase[a] = "staged" /\ phase[a] \notin Spoken /\ x \notin Spoken
  BY <1>1, SpokenPhases DEF Commit, InJob
<1>4. \A b \in Attempt \ {a} : answer'[b] = answer[b]
  BY <1>2, SMT DEF StoreInv, StoreTypes
<1>5. CASE Land(a)
  <2>1. phase'[a] = x /\ \A b \in Attempt \ {a} : phase'[b] = phase[b]
    BY <1>1, SMT DEF StoreInv, StoreTypes
  <2>2. Told' = Told
    BY <1>3, <1>4, <2>1, ToldSame
  <2>3. UNCHANGED <<asked, now>>
    BY DEF Commit, EndTx, LeaveOpen, Job, calls
  <2>4. QED
    BY <1>3, <1>5, <2>2, <2>3, LandAllowed
<1>6. CASE ~Land(a)
  <2>1. UNCHANGED Seen
    BY <1>6 DEF Commit, EndTx, LeaveOpen, Job, calls, Seen
  <2>2. QED
    BY <1>1, <1>3, <1>4, <2>1, SilentMoves
<1>7. QED
  BY <1>5, <1>6

LEMMA CallAllowed ==
    ASSUME StoreInv, NEW a \in Attempt, NEW p \in Process, NEW r \in Request, Call(a, p, r)
    PROVE  Allowed
<1>1. /\ phase[a] = "idle" /\ phase' = [phase EXCEPT ![a] = "called"] /\ answer' = answer
      /\ asked' = [asked EXCEPT ![a] = r]
      /\ UNCHANGED <<db, effect, now>>
  BY DEF Call, storage
<1>2. phase'[a] = "called" /\ \A b \in Attempt \ {a} : phase'[b] = phase[b]
  BY <1>1, SMT DEF StoreInv, StoreTypes
<1>3. Told' = Told
  BY <1>1, <1>2, SpokenPhases, ToldSame
<1>4. asked[a] = NoRequest
  BY <1>1 DEF StoreInv, Calls
<1>5. Promise!Ask(a, r)
  BY <1>1, <1>3, <1>4 DEF Promise!Ask
<1>6. QED
  BY <1>5 DEF Promise!Next, Allowed

LEMMA CrashAllowed ==
    ASSUME StoreInv, NEW p \in Process, Crash(p) PROVE Allowed
<1>1. UNCHANGED <<asked, at, answer, now>>
  BY DEF Crash, calls
<1>2. ASSUME NEW b \in Attempt PROVE phase'[b] \in Spoken <=> phase[b] \in Spoken
  <2>1. phase'[b] = IF at[b] # p \/ phase[b] \in {"idle", "done"} THEN phase[b]
                    ELSE IF phase[b] = "answered" THEN "done" ELSE "lost"
    BY DEF Crash
  <2>2. "done" \in Spoken /\ "answered" \in Spoken /\ "lost" \notin Spoken
        /\ \A x \in Spoken : x = "done" \/ x = "answered"
    BY DEF Spoken
  <2>3. QED
    BY <2>1, <2>2
<1>3. Told' = Told
  BY <1>1, <1>2, ToldSame
<1>4. CASE lock # NoAttempt /\ phase[lock] = "staged" /\ Land(lock)
  <2>1. PICK a \in Attempt : a = lock
    BY <1>4 DEF StoreInv, StoreTypes
  <2>2. QED
    BY <1>1, <1>3, <1>4, <2>1, LandAllowed
<1>5. CASE UNCHANGED <<db, effect>>
  <2>1. UNCHANGED Seen
    BY <1>1, <1>5 DEF Seen
  <2>2. QED
    BY <1>3, <2>1, Unseen
<1>6. QED
  BY <1>4, <1>5 DEF Crash, storage

LEMMA DropJobAllowed ==
    ASSUME StoreInv, QueueInv, NEW p \in Process, DropJob(p) PROVE Allowed
<1>1. PICK a : a = Head(queue[p])
  OBVIOUS
<1>2. a \in Attempt /\ phase[a] = "queued"
  BY <1>1, HeadQueued DEF DropJob, Queued
<1>3. PICK t : t = from_dispatch_error(a, "Unknown")
  OBVIOUS
<1>4. /\ phase' = [phase EXCEPT ![a] = "done"] /\ answer' = [answer EXCEPT ![a] = t]
      /\ UNCHANGED Seen /\ "done" \in Spoken
  BY <1>1, <1>3 DEF DropJob, storage, calls, Seen, Spoken
<1>5. True(a, t)
  <2>1. "Unknown" # "NotCommitted"
    OBVIOUS
  <2>2. QED
    BY <1>2, <1>3, <2>1, Dispatched
<1>6. phase[a] \notin Spoken /\ phase[a] # "idle"
  BY <1>2, SpokenPhases
<1>7. Told[a] = None /\ Told' = [Told EXCEPT ![a] = t]
  BY <1>2, <1>4, <1>6, ReplyTold
<1>8. QED
  BY <1>2, <1>4, <1>5, <1>6, <1>7, Tells

LEMMA IdleStepsAllowed ==
    ASSUME StoreInv,
           \/ Tick \/ (\E p \in Process : Restart(p)) \/ (\E a \in Attempt : DropCaller(a))
           \/ UNCHANGED vars
    PROVE  Allowed
<1>1. UNCHANGED <<db, effect, asked, phase, answer>> /\ (now' = now \/ now' = now + 1)
  BY DEF Tick, Restart, DropCaller, storage, calls, vars
<1>2. Told' = Told
  BY <1>1, ToldSame
<1>3. CASE now' = now
  <2>1. UNCHANGED Seen
    BY <1>1, <1>3 DEF Seen
  <2>2. QED
    BY <1>2, <2>1, Unseen
<1>4. CASE now' = now + 1
  <2>1. Promise!Tick
    BY <1>1, <1>2, <1>4 DEF Promise!Tick
  <2>2. QED
    BY <2>1 DEF Promise!Next, Allowed
<1>5. QED
  BY <1>1, <1>3, <1>4

LEMMA StepAllowed ==
    ASSUME StoreInv, QueueInv, [Next]_vars PROVE Allowed
<1>1. ASSUME NEW a \in Attempt, Step(a) PROVE Allowed
  BY <1>1, EarlyStepsAllowed, ReplyStepsAllowed, TransactionStepsAllowed, CommitAllowed DEF Step
<1>2. ASSUME NEW a \in Attempt, NEW o \in Offers[a], Call(a, o[1], o[2]) PROVE Allowed
  <2>1. o[1] \in Process /\ o[2] \in Request
    BY MemoryAssumption, SMT
  <2>2. QED
    BY <1>2, <2>1, CallAllowed
<1>3. QED
  BY <1>1, <1>2, IdleStepsAllowed, DropJobAllowed, CrashAllowed DEF Next

LEMMA PromiseInitially == Init => Promise!Init
<1> SUFFICES ASSUME Init PROVE Promise!Init
  OBVIOUS
<1>1. /\ db = EmptyDb /\ asked = [a \in Attempt |-> NoRequest] /\ now = 0
      /\ effect = [a \in Attempt |-> None] /\ phase = [a \in Attempt |-> "idle"]
  BY DEF Init
<1>2. db.entries = [e \in Entry |-> Absent] /\ db.revision = 0
  <2>1. PICK q, e : q = [k \in Key |-> NoReceipt] /\ e = [x \in Entry |-> Absent]
    OBVIOUS
  <2>2. db = [entries |-> e, revision |-> 0, receipts |-> q]
    BY <1>1, <2>1 DEF EmptyDb
  <2>3. db.entries = e /\ db.revision = 0
    BY <2>2, SMT
  <2>4. QED
    BY <2>1, <2>3
<1>3. Told = [a \in Attempt |-> None]
  <2>1. \A a \in Attempt : (IF phase[a] \in {"answered", "done"} THEN answer[a] ELSE None) = None
    BY <1>1
  <2>2. QED
    BY <2>1 DEF Told
<1>4. QED
  BY <1>1, <1>2, <1>3 DEF Promise!Init, Promise!None, Promise!Plain, None, Plain

(* The SQLite store implements VersionedStore: whatever fails, is dropped  *)
(* or dies between any two steps, a mutation takes effect in one step or   *)
(* not at all, a key that has not expired takes effect once, and no answer *)
(* says more than is true (worker.rs, transaction.rs, receipt.rs).         *)
THEOREM KeepsItsPromise == Spec => KeepsPromise
<1>1. MemoryInv /\ [Next]_vars => [Promise!Next]_(Promise!storeVars)
  BY StepAllowed DEF MemoryInv, Allowed
<1>2. QED
  BY <1>1, PromiseInitially, MemoryInvariant, PTL DEF Spec, KeepsPromise, Promise!Spec

=============================================================================
