-------------------------- MODULE SessionStoreProofs --------------------------
(***************************************************************************)
(* The properties of the session store, proved for any callers, readers,   *)
(* keys, messages and limits, and for both clients.                        *)
(*                                                                         *)
(* What a caller or a reader brings back is judged by the fence in it, so  *)
(* the invariant says of every fence in circulation what it proves about   *)
(* the session; and it ties every receipt to the caller whose transaction  *)
(* wrote it.                                                               *)
(***************************************************************************)
EXTENDS SessionStore, FiniteSetTheorems, SequenceTheorems, TLAPS

(* Most leaves are first-order; the ones that need more name SMT.          *)
USE Zenon

SessionFields == {"config", "generation", "last", "messages", "dedup", "version", "published",
                  "receipts"}

(* The dedup key has no message, or the one that the map names.            *)
OneTarget(s, d) ==
    \/ s.dedup[d] = Null /\ \A o \in Stored(s) : s.messages[o].dedup # d
    \/ \E o \in Stored(s) : /\ s.messages[o].dedup = d /\ s.dedup[d] = s.messages[o].id
                            /\ \A p \in Stored(s) : s.messages[p].dedup = d => p = o

SessionOK(s) ==
    /\ s = [f \in SessionFields |-> s[f]]
    /\ s.config \in Config \cup {Null} /\ s.generation \in Nat /\ s.version \in Nat
    /\ s.last \in -1 .. MaxOrdinal
    /\ s.messages \in [Ordinal -> Message \cup {Null}]
    /\ \A o \in Stored(s) : o <= s.last
    /\ s.dedup = [d \in DedupKey |-> s.dedup[d]]
    /\ s.receipts = [t \in Table |-> [k \in Key |-> s.receipts[t][k]]]
    /\ \A d \in DedupKey : OneTarget(s, d)

(* A fence: while its generation lasts, the history up to it stands.       *)
FenceOK(f, s) ==
    /\ f.upper \in -1 .. s.last /\ f.generation \in 0 .. s.generation
    /\ f.history \in [Ordinal -> Message \cup {Null}]
    /\ \A o \in Ordinal : o > f.upper => f.history[o] = Null
    /\ f.generation = s.generation => \A o \in Ordinal : o <= f.upper => s.messages[o] = f.history[o]

(* A request that a caller may have made by now.                           *)
Asked(r, s) ==
    /\ r.kind \in {"Resolve", "Append", "Publish", "Retain"} /\ r.key \in Key /\ r.after \in Int
    /\ r.kind = "Resolve" => r.arg \in Config
    /\ r.kind = "Append" => r.arg \in Message
    /\ r.kind \in {"Publish", "Retain"} => FenceOK(r.fence, s)

(* The end of what a batch of a sweep has gone over, and that it is clean. *)
EndOf(rc) == IF rc.next = Null THEN rc.request.fence.upper ELSE rc.next

Swept(rc, s) ==
    rc.kind = "Retained" =>
        /\ rc.request.kind = "Retain" /\ rc.next \in Int \cup {Null}
        /\ EndOf(rc) \in Int /\ EndOf(rc) <= s.last
        /\ \A o \in Stored(s) : rc.request.after < o /\ o <= EndOf(rc) =>
              ~expired(rc.request.fence.cutoff, s.messages[o])

(* A receipt under a key was written by a transaction for that key.        *)
Written(rc, k) == \E b \in Caller : did[b] = rc /\ wanted[b].key = k

CallerInv(c) ==
    /\ stage[c] \in {"idle", "asking", "called", "validated", "done"}
    /\ \/ stage[c] = "idle" /\ wanted[c] = Null
       \/ Asked(wanted[c], session)
    /\ stage[c] # "done" => told[c] = Null /\ did[c] = Null
    /\ stage[c] = "validated" => backend = "sqlite"
    /\ told[c] # Null => told[c].request = wanted[c] /\ Written(told[c], wanted[c].key)
    /\ did[c] # Null =>
          /\ did[c].request = wanted[c] /\ Swept(did[c], session)
          /\ ~is_expired(wanted[c].key) => lookup(session, wanted[c]) = did[c]

ReaderFields == {"state", "fence", "after", "got"}

ReaderInv(r) ==
    /\ reader[r] = [f \in ReaderFields |-> reader[r][f]]
    /\ reader[r].state \in {"idle", "paging", "finished", "failed"}
    /\ IF reader[r].state = "idle" THEN reader[r].fence = Null ELSE FenceOK(reader[r].fence, session)

SessionInv ==
    /\ SessionOK(session) /\ now \in Nat
    /\ wanted = [c \in Caller |-> wanted[c]] /\ stage = [c \in Caller |-> stage[c]]
    /\ told = [c \in Caller |-> told[c]] /\ did = [c \in Caller |-> did[c]]
    /\ reader = [r \in Reader |-> reader[r]]
    /\ \A r \in Reader : ReaderInv(r)
    /\ \A c \in Caller : CallerInv(c)
    /\ \A t \in Table, k \in Key : session.receipts[t][k] # Null => Written(session.receipts[t][k], k)
    /\ \A c, d \in Caller : c # d /\ did[c] # Null /\ did[d] # Null /\ wanted[c].key = wanted[d].key =>
          backend = "sqlite" /\ is_expired(wanted[c].key)

-----------------------------------------------------------------------------
(* Sets of ordinals *)

(* Every set of ordinals is finite and, unless it is empty, has a least    *)
(* and a greatest element.                                                 *)
LEMMA OrdinalsFinite ==
    ASSUME NEW S \in SUBSET Ordinal PROVE IsFiniteSet(S) /\ Cardinality(S) \in Nat
<1>1. IsFiniteSet(Ordinal)
  BY SessionAssumption, FS_Interval, SMT DEF Ordinal
<1>2. QED
  BY <1>1, FS_Subset, FS_CardinalityType

LEMMA LeastOrdinal ==
    ASSUME NEW S \in SUBSET Ordinal, S # {} PROVE \E x \in S : \A y \in S : x <= y
<1>1. S \subseteq Nat
  BY SessionAssumption, SMT DEF Ordinal
<1>2. PICK x \in S : \A y \in S : ~(<<y, x>> \in OpToRel(<, Nat))
  BY <1>1, NatLessThanWellFounded, WFMin
<1>3. ASSUME NEW y \in S, y < x PROVE FALSE
  <2>1. <<y, x>> \in OpToRel(<, Nat)
    BY <1>1, <1>2, <1>3, SMT DEF OpToRel
  <2>2. QED
    BY <1>2, <2>1
<1>4. \A y \in S : ~(y < x) /\ x \in Nat /\ y \in Nat
  BY <1>1, <1>2, <1>3
<1>5. \A y \in S : x <= y
  BY ONLY <1>4, SMT
<1>6. QED
  BY <1>5

LEMMA GreatestOrdinal ==
    ASSUME NEW S \in SUBSET Ordinal, S # {} PROVE \E x \in S : \A y \in S : y <= x
<1>1. PICK T : T = {i \in Ordinal : MaxOrdinal - i \in S}
  OBVIOUS
<1>2. MaxOrdinal \in Nat /\ Ordinal = 0 .. MaxOrdinal
  BY SessionAssumption DEF Ordinal
<1>3. \A y \in S : MaxOrdinal - y \in T /\ MaxOrdinal - (MaxOrdinal - y) = y
  BY <1>1, <1>2, SMT
<1>4. T \in SUBSET Ordinal /\ T # {}
  BY <1>1, <1>3
<1>5. PICK z \in T : \A i \in T : z <= i
  BY <1>4, LeastOrdinal
<1>6. MaxOrdinal - z \in S /\ z \in Ordinal
  BY <1>1
<1>7. \A y \in S : y <= MaxOrdinal - z
  BY <1>2, <1>3, <1>5, <1>6, SMT
<1>8. QED
  BY <1>6, <1>7

LEMMA MaxOfIsGreatest ==
    ASSUME NEW S \in SUBSET Ordinal, S # {}
    PROVE  MaxOf(S) \in S /\ \A y \in S : y <= MaxOf(S)
BY GreatestOrdinal DEF MaxOf

(* Oldest(n, S) is a beginning of S of n elements, or all of S.            *)
LEMMA OldestIsBeginning ==
    ASSUME NEW S \in SUBSET Ordinal, NEW n \in Nat, NEW o \in Oldest(n, S), NEW p \in S, p <= o
    PROVE  p \in Oldest(n, S)
<1>1. Ordinal \subseteq Nat
  BY SessionAssumption, SMT DEF Ordinal
<1>2. PICK A, B : A = {q \in S : q <= p} /\ B = {q \in S : q <= o}
  OBVIOUS
<1>3. o \in S /\ Cardinality(B) <= n
  BY <1>2 DEF Oldest
<1>4. A \in SUBSET B /\ B \in SUBSET Ordinal
  <2>1. \A q \in S : q <= p => q <= o
    BY <1>1, <1>3, SMT
  <2>2. QED
    BY <1>2, <2>1
<1>5. Cardinality(A) <= Cardinality(B) /\ Cardinality(A) \in Nat /\ Cardinality(B) \in Nat
  <2>1. IsFiniteSet(B) /\ Cardinality(B) \in Nat
    BY <1>4, OrdinalsFinite
  <2>2. QED
    BY <1>4, <2>1, FS_Subset, FS_CardinalityType
<1>6. Cardinality(A) <= n
  BY <1>3, <1>5, SMT
<1>7. QED
  BY <1>2, <1>6 DEF Oldest

LEMMA OldestBound ==
    ASSUME NEW S \in SUBSET Ordinal, NEW n \in Nat
    PROVE  /\ Oldest(n, S) \in SUBSET S /\ Cardinality(Oldest(n, S)) <= n
           /\ Cardinality(Oldest(n, S)) < n => Oldest(n, S) = S
<1>0. Ordinal \subseteq Nat
  BY SessionAssumption, SMT DEF Ordinal
<1>1. PICK R : R = Oldest(n, S)
  OBVIOUS
<1>2. R \in SUBSET S /\ R \in SUBSET Ordinal
  BY <1>1 DEF Oldest
<1>3. IsFiniteSet(R) /\ Cardinality(R) \in Nat
  BY <1>2, OrdinalsFinite
<1>4. Cardinality(R) <= n
  <2>1. CASE R = {}
    BY <1>3, <2>1, FS_EmptySet, SMT
  <2>2. CASE R # {}
    <3>1. PICK x \in R : \A y \in R : y <= x
      BY <1>2, <2>2, GreatestOrdinal
    <3>2. PICK B : B = {q \in S : q <= x}
      OBVIOUS
    <3>3. Cardinality(B) <= n
      BY <1>1, <3>2 DEF Oldest
    <3>4. R \in SUBSET B /\ B \in SUBSET Ordinal
      BY <1>2, <3>1, <3>2
    <3>5. IsFiniteSet(B) /\ Cardinality(B) \in Nat
      BY <3>4, OrdinalsFinite
    <3>6. Cardinality(R) <= Cardinality(B)
      BY <3>4, <3>5, FS_Subset
    <3>7. QED
      BY <1>3, <3>3, <3>5, <3>6, SMT
  <2>3. QED
    BY <2>1, <2>2
<1>5. ASSUME Cardinality(R) < n, R # S PROVE FALSE
  <2>1. S \ R # {} /\ S \ R \in SUBSET Ordinal
    BY <1>2, <1>5
  <2>2. PICK x \in S \ R : \A y \in S \ R : x <= y
    BY <2>1, LeastOrdinal
  <2>3. PICK B : B = {q \in S : q <= x}
    OBVIOUS
  <2>4. ASSUME NEW q \in B PROVE q \in R \cup {x}
    <3>1. q \in S /\ q <= x
      BY <2>3
    <3>2. q \notin R => x <= q
      BY <2>2, <3>1
    <3>3. QED
      BY <1>0, <2>2, <3>1, <3>2, SMT
  <2>5. B \in SUBSET (R \cup {x})
    BY <2>4
  <2>6. IsFiniteSet(R \cup {x}) /\ Cardinality(R \cup {x}) = Cardinality(R) + 1
    BY <1>3, <2>2, FS_AddElement
  <2>7. Cardinality(B) <= Cardinality(R) + 1 /\ Cardinality(B) \in Nat
    BY <2>5, <2>6, FS_Subset, FS_CardinalityType
  <2>8. Cardinality(B) <= n
    BY <1>3, <1>5, <2>7, SMT
  <2>9. x \in R
    BY <1>1, <2>2, <2>3, <2>8 DEF Oldest
  <2>10. QED
    BY <2>2, <2>9
<1>6. QED
  BY <1>1, <1>2, <1>4, <1>5

-----------------------------------------------------------------------------
(* What every operation leaves true of the history *)

(* Ordinals and generations grow; what is stored below last stays or goes, *)
(* and goes only with a new generation.                                    *)
Evolves(s, t) ==
    /\ s.last <= t.last /\ s.generation <= t.generation
    /\ \A o \in Ordinal : o <= s.last => t.messages[o] \in {s.messages[o], Null}
    /\ t.generation = s.generation => \A o \in Ordinal : o <= s.last => t.messages[o] = s.messages[o]

LEMMA SameEvolves == ASSUME NEW s, SessionOK(s) PROVE Evolves(s, s)
<1>1. s.last \in Int /\ s.generation \in Int
  BY SessionAssumption, SMT DEF SessionOK
<1>2. s.last <= s.last /\ s.generation <= s.generation
  BY <1>1, SMT
<1>3. QED
  BY <1>2 DEF Evolves

LEMMA FenceStands ==
    ASSUME NEW s, NEW t, NEW f, SessionOK(s), SessionOK(t), Evolves(s, t), FenceOK(f, s)
    PROVE  FenceOK(f, t)
<1>1. /\ s.last \in Int /\ s.generation \in Int /\ t.last \in Int /\ t.generation \in Int
      /\ f.upper \in -1 .. s.last /\ f.generation \in 0 .. s.generation
      /\ s.last <= t.last /\ s.generation <= t.generation
  BY SessionAssumption, SMT DEF SessionOK, FenceOK, Evolves
<1>2. f.upper \in -1 .. t.last /\ f.generation \in 0 .. t.generation
  BY ONLY <1>1, SMT
<1>3. f.generation = t.generation => f.generation = s.generation /\ t.generation = s.generation
  BY ONLY <1>1, SMT
<1>4. \A o \in Ordinal : o <= f.upper => o <= s.last
  BY <1>1, SessionAssumption, SMT DEF Ordinal
<1>5. QED
  BY <1>2, <1>3, <1>4 DEF FenceOK, Evolves

LEMMA AskedStands ==
    ASSUME NEW s, NEW t, NEW r, SessionOK(s), SessionOK(t), Evolves(s, t), Asked(r, s)
    PROVE  Asked(r, t)
BY FenceStands DEF Asked

LEMMA SweptStands ==
    ASSUME NEW s, NEW t, NEW rc, SessionOK(s), SessionOK(t), Evolves(s, t), Swept(rc, s)
    PROVE  Swept(rc, t)
<1>1. SUFFICES ASSUME rc.kind = "Retained"
               PROVE  /\ rc.request.kind = "Retain" /\ rc.next \in Int \cup {Null}
                      /\ EndOf(rc) \in Int /\ EndOf(rc) <= t.last
                      /\ \A o \in Stored(t) : rc.request.after < o /\ o <= EndOf(rc) =>
                            ~expired(rc.request.fence.cutoff, t.messages[o])
  BY DEF Swept
<1>2. /\ rc.request.kind = "Retain" /\ rc.next \in Int \cup {Null}
      /\ EndOf(rc) \in Int /\ EndOf(rc) <= s.last
      /\ \A o \in Stored(s) : rc.request.after < o /\ o <= EndOf(rc) =>
            ~expired(rc.request.fence.cutoff, s.messages[o])
  BY <1>1 DEF Swept
<1>3. s.last \in Int /\ t.last \in Int /\ s.last <= t.last
  BY SessionAssumption, SMT DEF SessionOK, Evolves
<1>4. EndOf(rc) <= t.last
  BY <1>2, <1>3, SMT
<1>5. ASSUME NEW o \in Stored(t), rc.request.after < o, o <= EndOf(rc)
      PROVE  ~expired(rc.request.fence.cutoff, t.messages[o])
  <2>1. o \in Ordinal /\ t.messages[o] # Null
    BY DEF Stored
  <2>2. o <= s.last
    BY <1>2, <1>3, <1>5, <2>1, SessionAssumption, SMT DEF Ordinal
  <2>3. t.messages[o] = s.messages[o] /\ o \in Stored(s)
    BY <2>1, <2>2 DEF Evolves, Stored
  <2>4. QED
    BY <1>2, <1>5, <2>3
<1>6. QED
  BY <1>2, <1>4, <1>5

(* The fields of what an operation returns.                                *)
LEMMA DoneFields ==
    ASSUME NEW s, NEW rc
    PROVE  Done(s, rc).ok /\ Done(s, rc).session = s /\ Done(s, rc).receipt = rc
BY SMT DEF Done

LEMMA FailedFields ==
    ASSUME NEW s PROVE ~Failed(s).ok /\ Failed(s).session = s /\ Failed(s).receipt = Null
BY SMT DEF Failed

(* What the rest of the proof uses of an operation that succeeds.          *)
Outcome(s, r, t, rc) ==
    /\ SessionOK(t) /\ Evolves(s, t) /\ t.receipts = s.receipts
    /\ rc.request = r /\ Swept(rc, t)
    /\ t.version # s.version =>
          /\ t.version = s.version + 1 /\ is_current(r.fence, s) /\ FenceOK(r.fence, s)
          /\ t.published.fence = r.fence

LEMMA ResolveOutcome ==
    ASSUME NEW s, NEW r, SessionOK(s), r.arg \in Config, apply_resolve(s, r).ok
    PROVE  Outcome(s, r, apply_resolve(s, r).session, apply_resolve(s, r).receipt)
<1>1. PICK t, rc : t = [s EXCEPT !.config = r.arg] /\ rc = Receipt(r, "Resolved", 0, Null, s.config = Null, Null)
  OBVIOUS
<1>2. apply_resolve(s, r) = Done(t, rc)
  BY <1>1, FailedFields DEF apply_resolve
<1>3. apply_resolve(s, r).session = t /\ apply_resolve(s, r).receipt = rc
  BY ONLY <1>2, DoneFields
<1>4. rc.request = r /\ rc.kind = "Resolved"
  BY ONLY <1>1, SMT DEF Receipt
<1>5. s = [f \in SessionFields |-> s[f]]
  BY DEF SessionOK
<1>6. /\ t = [f \in SessionFields |-> t[f]] /\ t.config = r.arg
      /\ t.generation = s.generation /\ t.last = s.last /\ t.messages = s.messages
      /\ t.dedup = s.dedup /\ t.version = s.version /\ t.published = s.published
      /\ t.receipts = s.receipts
  BY <1>1, <1>5 DEF SessionFields
<1>7. Stored(t) = Stored(s)
  BY <1>6 DEF Stored
<1>8. SessionOK(t)
  <2>1. ASSUME NEW d \in DedupKey PROVE OneTarget(t, d)
    <3>1. OneTarget(s, d)
      BY DEF SessionOK
    <3>2. QED
      BY ONLY <1>6, <1>7, <3>1 DEF OneTarget
  <2>2. t.config \in Config \cup {Null}
    BY <1>6
  <2>3. QED
    BY ONLY <1>6, <1>7, <2>1, <2>2, SessionOK(s), Zenon DEF SessionOK
<1>9. Evolves(s, t)
  BY <1>6, SameEvolves DEF Evolves
<1>10. Swept(rc, t)
  BY <1>4 DEF Swept
<1>11. QED
  BY <1>3, <1>4, <1>6, <1>8, <1>9, <1>10 DEF Outcome

LEMMA NothingOutcome ==
    ASSUME NEW s, NEW r, NEW rc, SessionOK(s), rc.request = r, rc.kind # "Retained"
    PROVE  Outcome(s, r, s, rc)
BY SameEvolves DEF Outcome, Swept

(* A dedup key with no message is free for a new one, in either client.    *)
LEMMA TargetsAfterAppend ==
    ASSUME NEW s, NEW t, NEW m \in Message, NEW o \in Ordinal, NEW d \in DedupKey,
           OneTarget(s, d), s.messages[o] = Null,
           s.messages \in [Ordinal -> Message \cup {Null}],
           s.dedup = [e \in DedupKey |-> s.dedup[e]],
           existing(s, m.dedup) = {},
           t.messages = [s.messages EXCEPT ![o] = m],
           t.dedup = IF m.dedup = Null THEN s.dedup ELSE [s.dedup EXCEPT ![m.dedup] = m.id]
    PROVE  OneTarget(t, d)
<1>1. m # Null /\ d # Null
  BY SessionAssumption
<1>2. \A p \in Ordinal : t.messages[p] = IF p = o THEN m ELSE s.messages[p]
  OBVIOUS
<1>3. \A p : p \in Stored(t) <=> p \in Stored(s) \/ p = o
  BY <1>1, <1>2 DEF Stored
<1>4. o \notin Stored(s) /\ \A p \in Stored(s) : p # o /\ t.messages[p] = s.messages[p]
  BY <1>2 DEF Stored
<1>5. t.messages[o] = m /\ o \in Stored(t)
  BY <1>2, <1>3
<1>6. CASE m.dedup = d
  <2>1. t.dedup[d] = m.id
    BY <1>1, <1>6
  <2>2. existing(s, d) = {}
    BY <1>6
  <2>3. \A p \in Stored(s) : s.messages[p].dedup # d
    <3>1. ASSUME NEW p \in Stored(s), s.messages[p].dedup = d, s.dedup[d] = s.messages[p].id
          PROVE  FALSE
      BY <1>1, <2>2, <3>1 DEF existing
    <3>2. QED
      BY <3>1 DEF OneTarget
  <2>4. QED
    BY ONLY <1>3, <1>4, <1>5, <1>6, <2>1, <2>3 DEF OneTarget
<1>7. CASE m.dedup # d
  <2>1. t.dedup[d] = s.dedup[d]
    BY <1>7
  <2>2. QED
    BY ONLY <1>3, <1>4, <1>5, <1>7, <2>1, OneTarget(s, d) DEF OneTarget
<1>8. QED
  BY <1>6, <1>7

LEMMA AppendOutcome ==
    ASSUME NEW s, NEW r, SessionOK(s), r.arg \in Message, apply_append(s, r).ok
    PROVE  Outcome(s, r, apply_append(s, r).session, apply_append(s, r).receipt)
<1>1. PICK m, o, x : m = r.arg /\ o = s.last + 1 /\ x = apply_append(s, r)
  OBVIOUS
<1>2. PICK t, rc : /\ t = [s EXCEPT !.last = o, !.messages[o] = m,
                            !.dedup = IF m.dedup = Null THEN @ ELSE [@ EXCEPT ![m.dedup] = m.id]]
                   /\ rc = Receipt(r, "Appended", o, m.id, FALSE, Null)
  OBVIOUS
<1>3. \/ \E p : x = Deduplicated(s, r, p)
      \/ existing(s, m.dedup) = {} /\ s.last # MaxOrdinal /\ x = Done(t, rc)
  BY <1>1, <1>2, FailedFields DEF apply_append, next_ordinal, exhausted
<1>4. ASSUME NEW p, x = Deduplicated(s, r, p) PROVE Outcome(s, r, x.session, x.receipt)
  <2>1. PICK d : d = Receipt(r, "Appended", p, s.messages[p].id, TRUE, Null)
    OBVIOUS
  <2>2. x = Done(s, d)
    BY <1>4, <2>1 DEF Deduplicated
  <2>3. x.session = s /\ x.receipt = d
    BY ONLY <2>2, DoneFields
  <2>4. d.request = r /\ d.kind # "Retained"
    BY ONLY <2>1, SMT DEF Receipt
  <2>5. QED
    BY <2>3, <2>4, NothingOutcome
<1>5. ASSUME existing(s, m.dedup) = {}, s.last # MaxOrdinal, x = Done(t, rc)
      PROVE  Outcome(s, r, x.session, x.receipt)
  <2>1. x.session = t /\ x.receipt = rc
    BY ONLY <1>5, DoneFields
  <2>2. rc.request = r /\ rc.kind = "Appended"
    BY ONLY <1>2, SMT DEF Receipt
  <2>3. s = [f \in SessionFields |-> s[f]]
    BY DEF SessionOK
  <2>4. /\ t = [f \in SessionFields |-> t[f]] /\ t.config = s.config
        /\ t.generation = s.generation /\ t.last = o
        /\ t.messages = [s.messages EXCEPT ![o] = m]
        /\ t.dedup = IF m.dedup = Null THEN s.dedup ELSE [s.dedup EXCEPT ![m.dedup] = m.id]
        /\ t.version = s.version /\ t.published = s.published
        /\ t.receipts = s.receipts
    BY <1>2, <2>3 DEF SessionFields
  <2>5. /\ s.last \in -1 .. MaxOrdinal /\ s.generation \in Nat
        /\ s.messages \in [Ordinal -> Message \cup {Null}]
        /\ \A p \in Stored(s) : p <= s.last
        /\ s.dedup = [d \in DedupKey |-> s.dedup[d]]
        /\ \A d \in DedupKey : OneTarget(s, d)
    BY DEF SessionOK
  <2>6. o \in Ordinal /\ s.last < o /\ o \in -1 .. MaxOrdinal /\ ~(o <= s.last) /\ s.last <= o
        /\ \A p \in Ordinal : p <= s.last => p <= o /\ p # o
    BY <1>1, <1>5, <2>5, SessionAssumption, SMT DEF Ordinal
  <2>7. m \in Message /\ m # Null
    BY <1>1, SessionAssumption
  <2>8. t.messages \in [Ordinal -> Message \cup {Null}]
    BY <2>4, <2>5, <2>7
  <2>9. \A p \in Ordinal : t.messages[p] = IF p = o THEN m ELSE s.messages[p]
    BY <2>4, <2>5
  <2>10. s.messages[o] = Null
    BY <2>5, <2>6 DEF Stored
  <2>11. ASSUME NEW d \in DedupKey PROVE OneTarget(t, d)
    <3>1. /\ OneTarget(s, d) /\ s.messages[o] = Null
          /\ s.messages \in [Ordinal -> Message \cup {Null}]
          /\ s.dedup = [e \in DedupKey |-> s.dedup[e]]
          /\ existing(s, m.dedup) = {}
          /\ t.messages = [s.messages EXCEPT ![o] = m]
          /\ t.dedup = IF m.dedup = Null THEN s.dedup ELSE [s.dedup EXCEPT ![m.dedup] = m.id]
          /\ m \in Message /\ o \in Ordinal /\ d \in DedupKey
      BY <1>5, <2>4, <2>5, <2>6, <2>7, <2>10
    <3>2. QED
      BY ONLY <3>1, TargetsAfterAppend
  <2>12. \A p \in Stored(t) : p <= t.last
    <3>1. o <= o
      BY <2>6, SessionAssumption, SMT DEF Ordinal
    <3>2. QED
      BY <2>4, <2>5, <2>6, <2>9, <3>1 DEF Stored
  <2>13. t.dedup = [d \in DedupKey |-> t.dedup[d]]
    BY <2>4, <2>5
  <2>14. SessionOK(t)
    <3>1. /\ t.config \in Config \cup {Null} /\ t.generation \in Nat /\ t.version \in Nat
          /\ t.last \in -1 .. MaxOrdinal
          /\ t.receipts = [c \in Table |-> [k \in Key |-> t.receipts[c][k]]]
      <4>1. /\ t.config = s.config /\ t.generation = s.generation /\ t.version = s.version
            /\ t.last = o /\ t.receipts = s.receipts
        BY <2>4
      <4>2. /\ s.config \in Config \cup {Null} /\ s.generation \in Nat /\ s.version \in Nat
            /\ s.receipts = [c \in Table |-> [k \in Key |-> s.receipts[c][k]]]
        BY DEF SessionOK
      <4>3. QED
        BY ONLY <2>6, <4>1, <4>2
    <3>2. QED
      BY ONLY <2>4, <2>8, <2>11, <2>12, <2>13, <3>1 DEF SessionOK
  <2>15. Evolves(s, t)
    <3>1. \A p \in Ordinal : p <= s.last => t.messages[p] = s.messages[p]
      BY <2>6, <2>9
    <3>2. s.generation <= t.generation
      BY <2>4, <2>5, SMT
    <3>3. QED
      BY ONLY <2>4, <2>6, <3>1, <3>2 DEF Evolves
  <2>16. QED
    BY <2>1, <2>2, <2>4, <2>14, <2>15 DEF Outcome, Swept
<1>6. QED
  BY <1>1, <1>3, <1>4, <1>5

LEMMA PublishOutcome ==
    ASSUME NEW s, NEW r, SessionOK(s), FenceOK(r.fence, s), publish(s, r).ok
    PROVE  Outcome(s, r, publish(s, r).session, publish(s, r).receipt)
<1>1. PICK x, st, rc : /\ x = publish(s, r)
                       /\ st = Receipt(r, "Stale", 0, Null, FALSE, Null)
                       /\ rc = Receipt(r, "Published", s.version + 1, Null, TRUE, Null)
  OBVIOUS
<1>2. PICK p, t : /\ p = [content |-> r.arg, fence |-> r.fence]
                  /\ t = [s EXCEPT !.version = @ + 1, !.generation = @ + 1, !.published = p]
  OBVIOUS
<1>3. x = Done(s, st) \/ (is_current(r.fence, s) /\ x = Done(t, rc))
  BY <1>1, <1>2, FailedFields DEF publish
<1>4. CASE x = Done(s, st)
  <2>1. x.session = s /\ x.receipt = st
    BY ONLY <1>4, DoneFields
  <2>2. st.request = r /\ st.kind # "Retained"
    BY ONLY <1>1, SMT DEF Receipt
  <2>3. QED
    BY <1>1, <2>1, <2>2, NothingOutcome
<1>5. CASE is_current(r.fence, s) /\ x = Done(t, rc)
  <2>1. x.session = t /\ x.receipt = rc
    BY ONLY <1>5, DoneFields
  <2>2. rc.request = r /\ rc.kind # "Retained"
    BY ONLY <1>1, SMT DEF Receipt
  <2>3. s = [f \in SessionFields |-> s[f]]
    BY DEF SessionOK
  <2>4. /\ t = [f \in SessionFields |-> t[f]] /\ t.config = s.config
        /\ t.generation = s.generation + 1 /\ t.last = s.last /\ t.messages = s.messages
        /\ t.dedup = s.dedup /\ t.version = s.version + 1 /\ t.published = p
        /\ t.receipts = s.receipts
    BY <1>2, <2>3 DEF SessionFields
  <2>5. t.published.fence = r.fence
    BY ONLY <1>2, <2>4, SMT
  <2>6. Stored(t) = Stored(s)
    BY <2>4 DEF Stored
  <2>7. s.generation \in Nat /\ s.version \in Nat /\ s.last \in Int
    BY SessionAssumption, SMT DEF SessionOK
  <2>8. /\ t.generation \in Nat /\ t.version \in Nat /\ s.generation <= t.generation
        /\ t.generation # s.generation /\ s.last <= t.last
    BY <2>4, <2>7, SMT
  <2>9. SessionOK(t)
    <3>1. ASSUME NEW d \in DedupKey PROVE OneTarget(t, d)
      <4>1. OneTarget(s, d)
        BY DEF SessionOK
      <4>2. QED
        BY ONLY <2>4, <2>6, <4>1 DEF OneTarget
    <3>2. /\ t.config = s.config /\ t.last = s.last /\ t.messages = s.messages
          /\ t.dedup = s.dedup /\ t.receipts = s.receipts /\ t = [f \in SessionFields |-> t[f]]
      BY <2>4
    <3>3. QED
      BY ONLY <2>6, <2>8, <3>1, <3>2, SessionOK(s) DEF SessionOK
  <2>10. Evolves(s, t)
    BY <2>4, <2>8 DEF Evolves
  <2>11. QED
    <3>1. t.version = s.version + 1 /\ t.receipts = s.receipts
      BY <2>4
    <3>2. Swept(rc, t)
      BY <2>2 DEF Swept
    <3>3. Outcome(s, r, t, rc)
      BY ONLY <1>5, <2>2, <2>5, <2>9, <2>10, <3>1, <3>2, FenceOK(r.fence, s) DEF Outcome
    <3>4. QED
      BY <1>1, <2>1, <3>3
<1>6. QED
  BY <1>3, <1>4, <1>5

(* Deletion leaves no dedup key without its message.                       *)
LEMMA DeleteKeeps ==
    ASSUME NEW s, NEW gone \in SUBSET Stored(s), SessionOK(s)
    PROVE  /\ SessionOK(Delete(s, gone)) /\ Evolves(s, Delete(s, gone))
           /\ Delete(s, gone).receipts = s.receipts /\ Delete(s, gone).version = s.version
           /\ Delete(s, gone).last = s.last
           /\ \A o \in Stored(Delete(s, gone)) :
                 o \in Stored(s) \ gone /\ Delete(s, gone).messages[o] = s.messages[o]
<1>1. PICK t : t = Delete(s, gone)
  OBVIOUS
<1>2. s = [f \in SessionFields |-> s[f]]
  BY DEF SessionOK
<1>3. /\ t = [f \in SessionFields |-> t[f]] /\ t.config = s.config
      /\ t.generation = (IF gone = {} THEN s.generation ELSE s.generation + 1)
      /\ t.last = s.last
      /\ t.messages = [o \in Ordinal |-> IF o \in gone THEN Null ELSE s.messages[o]]
      /\ t.dedup = [d \in DedupKey |->
                      IF \E o \in gone : s.messages[o].dedup = d THEN Null ELSE s.dedup[d]]
      /\ t.version = s.version /\ t.receipts = s.receipts
  BY <1>1, <1>2 DEF Delete, SessionFields
<1>4. \A o \in Ordinal : t.messages[o] = IF o \in gone THEN Null ELSE s.messages[o]
  BY <1>3
<1>5. \A o : o \in Stored(t) <=> o \in Stored(s) \ gone
  BY <1>4 DEF Stored
<1>6. \A o \in Stored(t) : t.messages[o] = s.messages[o]
  BY <1>4, <1>5 DEF Stored
<1>7. /\ s.config \in Config \cup {Null} /\ s.generation \in Nat /\ s.version \in Nat
      /\ s.last \in -1 .. MaxOrdinal
      /\ s.messages \in [Ordinal -> Message \cup {Null}]
      /\ \A o \in Stored(s) : o <= s.last
      /\ s.receipts = [c \in Table |-> [k \in Key |-> s.receipts[c][k]]]
      /\ \A d \in DedupKey : OneTarget(s, d)
  BY DEF SessionOK
<1>8. ASSUME NEW d \in DedupKey PROVE OneTarget(t, d)
  <2>1. OneTarget(s, d)
    BY <1>7
  <2>2. CASE \E o \in gone : s.messages[o].dedup = d
    <3>1. t.dedup[d] = Null
      BY <1>3, <2>2
    <3>2. \A o \in Stored(t) : t.messages[o].dedup # d
      BY <1>5, <1>6, <2>1, <2>2 DEF OneTarget
    <3>3. QED
      BY <3>1, <3>2 DEF OneTarget
  <2>3. CASE ~\E o \in gone : s.messages[o].dedup = d
    <3>1. t.dedup[d] = s.dedup[d]
      BY <1>3, <2>3
    <3>2. QED
      BY ONLY <1>5, <1>6, <2>1, <2>3, <3>1 DEF OneTarget
  <2>4. QED
    BY <2>2, <2>3
<1>9. t.messages \in [Ordinal -> Message \cup {Null}]
  <2>1. t.messages = [o \in Ordinal |-> IF o \in gone THEN Null ELSE s.messages[o]]
    BY <1>3
  <2>2. QED
    BY <1>7, <2>1, SMT
<1>10. t.generation \in Nat /\ s.generation <= t.generation /\ (t.generation = s.generation => gone = {})
       /\ s.last <= t.last
  <2>1. t.generation = IF gone = {} THEN s.generation ELSE s.generation + 1
    BY <1>3
  <2>2. t.last = s.last /\ s.last \in Int
    BY <1>3, <1>7, SessionAssumption, SMT
  <2>3. QED
    BY <1>7, <2>1, <2>2, SMT
<1>11. SessionOK(t)
  <2>1. t.dedup = [d \in DedupKey |-> t.dedup[d]]
    BY <1>3
  <2>2. \A o \in Stored(t) : o <= t.last
    BY <1>3, <1>5, <1>7
  <2>3. /\ t.config = s.config /\ t.last = s.last /\ t.version = s.version
        /\ t.receipts = s.receipts /\ t = [f \in SessionFields |-> t[f]]
    BY <1>3
  <2>4. QED
    BY ONLY <1>7, <1>8, <1>9, <1>10, <2>1, <2>2, <2>3 DEF SessionOK
<1>12. Evolves(s, t)
  <2>1. \A o \in Ordinal : t.messages[o] \in {s.messages[o], Null}
    BY <1>4
  <2>2. gone = {} => \A o \in Ordinal : t.messages[o] = s.messages[o]
    BY <1>4
  <2>3. QED
    BY ONLY <1>10, <2>1, <2>2 DEF Evolves
<1>13. t.last = s.last /\ t.receipts = s.receipts /\ t.version = s.version
  BY <1>3
<1>14. QED
  BY ONLY <1>1, <1>5, <1>6, <1>11, <1>12, <1>13

(* A batch of a sweep has looked at every row up to where it stopped: it   *)
(* stops at the last row of a full batch, or at the end of the selection.  *)
LEMMA ScannedAll ==
    ASSUME NEW s, NEW r, NEW rows, NEW after, NEW more, SessionOK(s), FenceOK(r.fence, s),
           r.after \in Int, rows = Scanned(s, r),
           after = IF rows = {} THEN r.after ELSE MaxOf(rows),
           more = (Cardinality(rows) = ScanLimit /\ after < r.fence.upper)
    PROVE  /\ rows \in SUBSET Stored(s)
           /\ more => after \in Int /\ after <= s.last
           /\ \A o \in Stored(s) : r.after < o /\ o <= (IF more THEN after ELSE r.fence.upper)
                 => o \in rows
<1>1. PICK S : S = {o \in Stored(s) : r.after < o /\ o <= r.fence.upper}
  OBVIOUS
<1>2. rows = Oldest(ScanLimit, S)
  BY <1>1 DEF Scanned
<1>3. S \in SUBSET Stored(s) /\ S \in SUBSET Ordinal
  BY <1>1 DEF Stored
<1>4. ScanLimit \in Nat /\ ScanLimit # 0
  BY SessionAssumption
<1>5. /\ rows \in SUBSET S /\ Cardinality(rows) <= ScanLimit
      /\ Cardinality(rows) < ScanLimit => rows = S
  BY <1>2, <1>3, <1>4, OldestBound
<1>6. rows \in SUBSET Ordinal /\ Cardinality(rows) \in Nat /\ (rows = {} => Cardinality(rows) = 0)
  BY <1>3, <1>5, OrdinalsFinite, FS_EmptySet
<1>7. /\ r.fence.upper \in Int /\ s.last \in Int /\ r.fence.upper <= s.last
      /\ \A o \in Ordinal : o \in Int
  BY SessionAssumption, SMT DEF FenceOK, SessionOK, Ordinal
<1>8. CASE Cardinality(rows) < ScanLimit
  <2>1. rows = S /\ ~more
    <3>1. Cardinality(rows) # ScanLimit
      BY <1>4, <1>6, <1>8, SMT
    <3>2. QED
      BY <1>5, <1>8, <3>1
  <2>2. QED
    BY <1>1, <1>3, <2>1
<1>9. CASE Cardinality(rows) = ScanLimit
  <2>1. rows # {}
    BY <1>4, <1>6, <1>9
  <2>2. after \in rows /\ \A p \in rows : p <= after
    BY <1>6, <2>1, MaxOfIsGreatest
  <2>3. after \in Int /\ after \in S /\ r.after < after /\ after <= r.fence.upper
    BY <1>1, <1>5, <1>6, <1>7, <2>2
  <2>4. after <= s.last
    BY <1>7, <2>3, SMT
  <2>5. ASSUME NEW o \in Stored(s), r.after < o, o <= (IF more THEN after ELSE r.fence.upper)
        PROVE  o \in rows
    <3>1. o \in Int
      BY <1>7 DEF Stored
    <3>2. more <=> after < r.fence.upper
      BY <1>9
    <3>3. o <= after /\ o <= r.fence.upper
      BY <1>7, <2>3, <2>5, <3>1, <3>2, SMT
    <3>4. o \in S
      BY <1>1, <2>5, <3>3
    <3>5. after \in Oldest(ScanLimit, S)
      BY <1>2, <2>2
    <3>6. QED
      BY ONLY <1>2, <1>3, <1>4, <3>3, <3>4, <3>5, OldestIsBeginning
  <2>6. QED
    BY <1>3, <1>5, <2>3, <2>4, <2>5
<1>10. QED
  BY <1>4, <1>5, <1>6, <1>8, <1>9, SMT

LEMMA RetainOutcome ==
    ASSUME NEW s, NEW r, SessionOK(s), FenceOK(r.fence, s), r.after \in Int, r.kind = "Retain",
           retain(s, r).ok
    PROVE  Outcome(s, r, retain(s, r).session, retain(s, r).receipt)
<1>1. PICK x, rows : x = retain(s, r) /\ rows = Scanned(s, r)
  OBVIOUS
<1>2. PICK gone, after : /\ gone = {o \in rows : expired(r.fence.cutoff, s.messages[o])}
                         /\ after = IF rows = {} THEN r.after ELSE MaxOf(rows)
  OBVIOUS
<1>3. PICK more : more = (Cardinality(rows) = ScanLimit /\ after < r.fence.upper)
  OBVIOUS
<1>4. PICK t, rc : /\ t = Delete(s, gone)
                   /\ rc = Receipt(r, "Retained", 0, Null, gone # {}, IF more THEN after ELSE Null)
  OBVIOUS
<1>5. x = Done(t, rc)
  BY <1>1, <1>2, <1>3, <1>4, FailedFields DEF retain
<1>6. x.session = t /\ x.receipt = rc
  BY ONLY <1>5, DoneFields
<1>7. rc.request = r /\ rc.kind = "Retained" /\ rc.next = IF more THEN after ELSE Null
  BY ONLY <1>4, SMT DEF Receipt
<1>8. /\ rows \in SUBSET Stored(s)
      /\ more => after \in Int /\ after <= s.last
      /\ \A o \in Stored(s) : r.after < o /\ o <= (IF more THEN after ELSE r.fence.upper)
            => o \in rows
  <2>1. /\ SessionOK(s) /\ FenceOK(r.fence, s) /\ r.after \in Int /\ rows = Scanned(s, r)
        /\ after = (IF rows = {} THEN r.after ELSE MaxOf(rows))
        /\ more = (Cardinality(rows) = ScanLimit /\ after < r.fence.upper)
    BY <1>1, <1>2, <1>3
  <2>2. QED
    BY ONLY <2>1, ScannedAll, Zenon
<1>9. gone \in SUBSET Stored(s)
  BY <1>2, <1>8
<1>10. /\ SessionOK(t) /\ Evolves(s, t) /\ t.receipts = s.receipts /\ t.version = s.version
       /\ t.last = s.last
       /\ \A o \in Stored(t) : o \in Stored(s) \ gone /\ t.messages[o] = s.messages[o]
  <2>1. t = Delete(s, gone)
    BY <1>4
  <2>2. QED
    BY ONLY <1>9, <2>1, SessionOK(s), DeleteKeeps
<1>11. r.fence.upper \in Int /\ r.fence.upper <= s.last
  BY SessionAssumption, SMT DEF FenceOK, SessionOK
<1>12. EndOf(rc) = (IF more THEN after ELSE r.fence.upper) /\ rc.next \in Int \cup {Null}
  BY <1>7, <1>8, SessionAssumption DEF EndOf
<1>13. EndOf(rc) \in Int /\ EndOf(rc) <= t.last
  BY <1>8, <1>10, <1>11, <1>12
<1>14. ASSUME NEW o \in Stored(t), r.after < o, o <= EndOf(rc)
       PROVE  ~expired(r.fence.cutoff, t.messages[o])
  BY <1>2, <1>8, <1>10, <1>12, <1>14
<1>15. Swept(rc, t)
  BY ONLY <1>7, <1>12, <1>13, <1>14, r.kind = "Retain" DEF Swept
<1>16. QED
  BY <1>1, <1>6, <1>7, <1>10, <1>15 DEF Outcome

LEMMA PerformOutcome ==
    ASSUME NEW s, NEW r, SessionOK(s), Asked(r, s), perform(s, r).ok
    PROVE  Outcome(s, r, perform(s, r).session, perform(s, r).receipt)
<1>1. CASE r.kind = "Resolve"
  BY <1>1, ResolveOutcome DEF perform, Asked
<1>2. CASE r.kind = "Append"
  BY <1>2, AppendOutcome DEF perform, Asked
<1>3. CASE r.kind = "Publish"
  BY <1>3, PublishOutcome DEF perform, Asked
<1>4. CASE r.kind = "Retain"
  BY <1>4, RetainOutcome DEF perform, Asked
<1>5. QED
  BY <1>1, <1>2, <1>3, <1>4 DEF Asked

-----------------------------------------------------------------------------
(* Receipts *)

LEMMA EvictKeeps ==
    ASSUME NEW s, SessionOK(s)
    PROVE  /\ SessionOK(evict(s)) /\ Evolves(s, evict(s))
           /\ evict(s).last = s.last /\ evict(s).generation = s.generation
           /\ evict(s).version = s.version /\ evict(s).messages = s.messages
           /\ \A c \in Table, k \in Key :
                 evict(s).receipts[c][k] = IF is_expired(k) THEN Null ELSE s.receipts[c][k]
<1>1. PICK t : t = evict(s)
  OBVIOUS
<1>2. s = [f \in SessionFields |-> s[f]]
  BY DEF SessionOK
<1>3. /\ t = [f \in SessionFields |-> t[f]] /\ t.config = s.config
      /\ t.generation = s.generation /\ t.last = s.last /\ t.messages = s.messages
      /\ t.dedup = s.dedup /\ t.version = s.version
      /\ t.receipts = [c \in Table |-> [k \in Key |->
                          IF is_expired(k) THEN Null ELSE s.receipts[c][k]]]
  BY <1>1, <1>2 DEF evict, SessionFields
<1>4. ASSUME NEW c \in Table, NEW k \in Key
      PROVE  t.receipts[c][k] = IF is_expired(k) THEN Null ELSE s.receipts[c][k]
  <2>1. t.receipts[c] = [i \in Key |-> IF is_expired(i) THEN Null ELSE s.receipts[c][i]]
    BY <1>3
  <2>2. QED
    BY <2>1
<1>5. t.receipts = [c \in Table |-> [k \in Key |-> t.receipts[c][k]]]
  BY <1>3
<1>6. Stored(t) = Stored(s)
  BY <1>3 DEF Stored
<1>7. /\ t = [f \in SessionFields |-> t[f]] /\ t.config = s.config
      /\ t.generation = s.generation /\ t.last = s.last /\ t.messages = s.messages
      /\ t.dedup = s.dedup /\ t.version = s.version
  BY <1>3
<1>8. ASSUME NEW d \in DedupKey PROVE OneTarget(t, d)
  <2>1. OneTarget(s, d)
    BY DEF SessionOK
  <2>2. QED
    BY ONLY <1>6, <1>7, <2>1 DEF OneTarget
<1>9. SessionOK(t)
  BY ONLY <1>5, <1>6, <1>7, <1>8, SessionOK(s), Zenon DEF SessionOK
<1>10. Evolves(s, t)
  BY <1>7, SameEvolves DEF Evolves
<1>11. QED
  BY ONLY <1>1, <1>4, <1>7, <1>9, <1>10

(* What a request leaves that is executed for the first time.              *)
Wrote(s, r, t, rc) ==
    /\ SessionOK(t) /\ Evolves(s, t)
    /\ rc.request = r /\ Swept(rc, t)
    /\ \A c \in Table, k \in Key : t.receipts[c][k] =
          IF c = TableOf(r.kind) /\ k = r.key THEN rc
          ELSE IF is_expired(k) THEN Null ELSE s.receipts[c][k]
    /\ t.version # s.version =>
          /\ t.version = s.version + 1 /\ is_current(r.fence, s) /\ FenceOK(r.fence, s)
          /\ t.published.fence = r.fence

LEMMA TableTyped ==
    ASSUME NEW r, NEW s, Asked(r, s) PROVE TableOf(r.kind) \in Table
<1>1. r.kind \in {"Resolve", "Append", "Publish", "Retain"}
  BY DEF Asked
<1>2. QED
  BY <1>1, SMT DEF TableOf, Table

AddReceipt(u, c, k, rc) == [u EXCEPT !.receipts[c][k] = rc]

Added(u, t, c0, k0, rc) ==
    /\ SessionOK(t) /\ t.last = u.last /\ t.generation = u.generation
    /\ t.messages = u.messages /\ t.version = u.version /\ t.published = u.published
    /\ \A c \in Table, k \in Key :
          t.receipts[c][k] = IF c = c0 /\ k = k0 THEN rc ELSE u.receipts[c][k]

LEMMA ReceiptAdded ==
    ASSUME NEW u, NEW rc, NEW c0 \in Table, NEW k0 \in Key, SessionOK(u),
           NEW t, t = AddReceipt(u, c0, k0, rc)
    PROVE  Added(u, t, c0, k0, rc)
<1>1. u = [f \in SessionFields |-> u[f]] /\ u.receipts = [c \in Table |-> [k \in Key |-> u.receipts[c][k]]]
  BY DEF SessionOK
<1>2. /\ t = [f \in SessionFields |-> t[f]] /\ t.config = u.config
      /\ t.generation = u.generation /\ t.last = u.last /\ t.messages = u.messages
      /\ t.dedup = u.dedup /\ t.version = u.version /\ t.published = u.published
      /\ t.receipts = [u.receipts EXCEPT ![c0][k0] = rc]
  BY <1>1 DEF SessionFields, AddReceipt
<1>3. PICK R : R = u.receipts
  OBVIOUS
<1>4. R = [c \in Table |-> [k \in Key |-> R[c][k]]] /\ t.receipts = [R EXCEPT ![c0] = [R[c0] EXCEPT ![k0] = rc]]
  BY <1>1, <1>2, <1>3
<1>5. /\ \A c \in Table, k \in Key : t.receipts[c][k] = IF c = c0 /\ k = k0 THEN rc ELSE R[c][k]
      /\ t.receipts = [c \in Table |-> [k \in Key |-> t.receipts[c][k]]]
  <2>1. PICK V : V = [R[c0] EXCEPT ![k0] = rc]
    OBVIOUS
  <2>2. t.receipts = [R EXCEPT ![c0] = V]
    BY <1>4, <2>1
  <2>3. R[c0] = [k \in Key |-> R[c0][k]]
    BY <1>4
  <2>4. V = [k \in Key |-> V[k]] /\ \A k \in Key : V[k] = IF k = k0 THEN rc ELSE R[c0][k]
    BY <2>1, <2>3
  <2>5. \A c \in Table : t.receipts[c] = IF c = c0 THEN V ELSE R[c]
    BY <1>4, <2>2
  <2>6. ASSUME NEW c \in Table PROVE t.receipts[c] = [k \in Key |-> t.receipts[c][k]]
    <3>1. R[c] = [k \in Key |-> R[c][k]]
      BY <1>4
    <3>2. QED
      BY ONLY <2>4, <2>5, <3>1, c \in Table, Zenon
  <2>7. t.receipts = [c \in Table |-> t.receipts[c]]
    BY <1>4, <2>2
  <2>8. ASSUME NEW c \in Table, NEW k \in Key
        PROVE  t.receipts[c][k] = IF c = c0 /\ k = k0 THEN rc ELSE R[c][k]
    BY ONLY <2>4, <2>5, c \in Table, k \in Key, Zenon
  <2>9. t.receipts = [c \in Table |-> [k \in Key |-> t.receipts[c][k]]]
    BY ONLY <2>6, <2>7, Zenon
  <2>10. QED
    BY <2>8, <2>9
<1>6. Stored(t) = Stored(u)
  BY <1>2 DEF Stored
<1>7. /\ t = [f \in SessionFields |-> t[f]] /\ t.config = u.config
      /\ t.generation = u.generation /\ t.last = u.last /\ t.messages = u.messages
      /\ t.dedup = u.dedup /\ t.version = u.version /\ t.published = u.published
  BY <1>2
<1>8. ASSUME NEW d \in DedupKey PROVE OneTarget(t, d)
  <2>1. OneTarget(u, d)
    BY DEF SessionOK
  <2>2. QED
    BY ONLY <1>6, <1>7, <2>1 DEF OneTarget
<1>9. SessionOK(t)
  BY ONLY <1>5, <1>6, <1>7, <1>8, SessionOK(u), Zenon DEF SessionOK
<1>10. QED
  BY ONLY <1>3, <1>5, <1>7, <1>9 DEF Added

LEMMA ExecuteOutcome ==
    ASSUME NEW s, NEW r, NEW x, SessionOK(s), Asked(r, s), x = execute_write(s, r)
    PROVE  \/ ~x.ok /\ x.session = s /\ x.receipt = Null
           \/ ~mismatch(s, r) /\ lookup(s, r) # Null /\ x.session = s /\ x.receipt = lookup(s, r)
           \/ ~mismatch(s, r) /\ lookup(s, r) = Null /\ x.ok /\ Wrote(s, r, x.session, x.receipt)
<1>1. PICK e, y : e = evict(s) /\ y = perform(e, r)
  OBVIOUS
<1>2. PICK t, u, rc : /\ u = y.session /\ rc = y.receipt
                      /\ t = [u EXCEPT !.receipts[TableOf(r.kind)][r.key] = rc]
  OBVIOUS
<1>3. \/ x = Failed(s)
      \/ ~mismatch(s, r) /\ lookup(s, r) # Null /\ x = Done(s, lookup(s, r))
      \/ ~mismatch(s, r) /\ lookup(s, r) = Null /\ y.ok /\ x = Done(t, rc)
  BY <1>1, <1>2 DEF execute_write
<1>4. CASE x = Failed(s)
  <2>1. ~x.ok /\ x.session = s /\ x.receipt = Null
    BY ONLY <1>4, FailedFields
  <2>2. QED
    BY <2>1
<1>5. CASE ~mismatch(s, r) /\ lookup(s, r) # Null /\ x = Done(s, lookup(s, r))
  <2>1. x.session = s /\ x.receipt = lookup(s, r)
    BY ONLY <1>5, DoneFields
  <2>2. QED
    BY <1>5, <2>1
<1>6. CASE ~mismatch(s, r) /\ lookup(s, r) = Null /\ y.ok /\ x = Done(t, rc)
  <2>1. x.ok /\ x.session = t /\ x.receipt = rc
    BY ONLY <1>6, DoneFields
  <2>2. /\ SessionOK(e) /\ Evolves(s, e)
        /\ e.last = s.last /\ e.generation = s.generation
        /\ e.version = s.version /\ e.messages = s.messages
        /\ \A c \in Table, k \in Key :
              e.receipts[c][k] = IF is_expired(k) THEN Null ELSE s.receipts[c][k]
    <3>1. e = evict(s)
      BY <1>1
    <3>2. QED
      BY ONLY <3>1, SessionOK(s), EvictKeeps
  <2>3. Asked(r, e)
    BY <2>2, AskedStands
  <2>4. Outcome(e, r, u, rc)
    <3>1. perform(e, r).ok /\ u = perform(e, r).session /\ rc = perform(e, r).receipt
      BY <1>1, <1>2, <1>6
    <3>2. QED
      BY ONLY <2>2, <2>3, <3>1, PerformOutcome
  <2>5. /\ SessionOK(u) /\ Evolves(e, u) /\ u.receipts = e.receipts
        /\ rc.request = r /\ Swept(rc, u)
        /\ u.version # e.version =>
              /\ u.version = e.version + 1 /\ is_current(r.fence, e) /\ FenceOK(r.fence, e)
              /\ u.published.fence = r.fence
    BY <2>4 DEF Outcome
  <2>6. TableOf(r.kind) \in Table /\ r.key \in Key
    BY TableTyped DEF Asked
  <2>7. /\ SessionOK(t) /\ t.last = u.last /\ t.generation = u.generation
        /\ t.messages = u.messages /\ t.version = u.version /\ t.published = u.published
        /\ \A c \in Table, k \in Key :
              t.receipts[c][k] = IF c = TableOf(r.kind) /\ k = r.key THEN rc ELSE u.receipts[c][k]
    <3>1. PICK c0, k0 : c0 = TableOf(r.kind) /\ k0 = r.key
      OBVIOUS
    <3>2. /\ SessionOK(u) /\ t = AddReceipt(u, c0, k0, rc)
          /\ c0 \in Table /\ k0 \in Key
      BY <1>2, <2>5, <2>6, <3>1 DEF AddReceipt
    <3>3. Added(u, t, c0, k0, rc)
      BY ONLY <3>2, ReceiptAdded
    <3>4. QED
      BY ONLY <3>1, <3>3 DEF Added
  <2>8. Evolves(s, t)
    BY ONLY <2>2, <2>5, <2>7 DEF Evolves
  <2>9. Swept(rc, t)
    <3>1. Evolves(u, t)
      <4>1. Evolves(u, u)
        BY <2>5, SameEvolves
      <4>2. QED
        BY ONLY <2>7, <4>1 DEF Evolves
    <3>2. QED
      BY ONLY <2>5, <2>7, <3>1, SweptStands
  <2>10. ASSUME NEW c \in Table, NEW k \in Key
         PROVE  t.receipts[c][k] = IF c = TableOf(r.kind) /\ k = r.key THEN rc
                                   ELSE IF is_expired(k) THEN Null ELSE s.receipts[c][k]
    <3>1. u.receipts[c][k] = IF is_expired(k) THEN Null ELSE s.receipts[c][k]
      BY ONLY <2>2, <2>5, c \in Table, k \in Key
    <3>2. QED
      BY ONLY <2>7, <3>1, c \in Table, k \in Key
  <2>11. t.version # s.version =>
            /\ t.version = s.version + 1 /\ is_current(r.fence, s) /\ FenceOK(r.fence, s)
            /\ t.published.fence = r.fence
    BY ONLY <2>2, <2>5, <2>7 DEF is_current, FenceOK
  <2>12. Wrote(s, r, t, rc)
    BY ONLY <2>5, <2>7, <2>8, <2>9, <2>10, <2>11 DEF Wrote
  <2>13. QED
    BY <1>6, <2>1, <2>12
<1>7. QED
  BY <1>3, <1>4, <1>5, <1>6

-----------------------------------------------------------------------------
(* Steps of the session store *)

(* Receipts stay tied to the callers that wrote them.                      *)
LEMMA WrittenKept ==
    ASSUME \A b \in Caller : did[b] # Null => did'[b] = did[b] /\ wanted'[b] = wanted[b],
           NEW rc, NEW k, rc # Null, Written(rc, k)
    PROVE  Written(rc, k)'
<1>1. PICK b \in Caller : did[b] = rc /\ wanted[b].key = k
  BY DEF Written
<1>2. did'[b] = rc /\ wanted'[b].key = k
  BY <1>1
<1>3. QED
  BY <1>2 DEF Written

(* Of a caller that takes no step, the invariant stands.                   *)
LEMMA CallerStands ==
    ASSUME SessionInv, SessionOK(session'), Evolves(session, session'), backend' = backend,
           now' \in Nat, now <= now',
           \A b \in Caller : did[b] # Null => did'[b] = did[b] /\ wanted'[b] = wanted[b],
           NEW b \in Caller, stage'[b] = stage[b], wanted'[b] = wanted[b],
           told'[b] = told[b], did'[b] = did[b],
           did[b] # Null /\ ~is_expired(wanted[b].key) =>
               lookup(session', wanted[b]) = lookup(session, wanted[b])
    PROVE  CallerInv(b)'
<1>1. CallerInv(b) /\ SessionOK(session) /\ now \in Nat
  BY DEF SessionInv
<1>2. (stage'[b] = "idle" /\ wanted'[b] = Null) \/ Asked(wanted'[b], session')
  BY <1>1, AskedStands DEF CallerInv
<1>3. told'[b] # Null => told'[b].request = wanted'[b] /\ Written(told[b], wanted[b].key)'
  BY <1>1, WrittenKept DEF CallerInv
<1>4. ASSUME did'[b] # Null
      PROVE  /\ did'[b].request = wanted'[b] /\ Swept(did'[b], session')
             /\ ~is_expired(wanted[b].key)' => lookup(session', wanted'[b]) = did'[b]
  <2>1. /\ did[b].request = wanted[b] /\ Swept(did[b], session) /\ stage[b] = "done"
        /\ ~is_expired(wanted[b].key) => lookup(session, wanted[b]) = did[b]
    BY <1>1, <1>4 DEF CallerInv
  <2>2. Swept(did[b], session')
    BY <1>1, <2>1, SweptStands
  <2>3. wanted[b].key \in Key
    BY <1>1, <2>1 DEF CallerInv, Asked
  <2>4. is_expired(wanted[b].key) => is_expired(wanted[b].key)'
    <3>1. PICK k : k = wanted[b].key
      OBVIOUS
    <3>2. is_expired(k) => Expiry[k] <= now'
      <4>1. Expiry[k] \in Nat
        BY <2>3, <3>1, ReceiptAssumption
      <4>2. QED
        BY <1>1, <4>1, SMT DEF is_expired
    <3>3. QED
      BY <3>1, <3>2 DEF is_expired
  <2>5. QED
    BY <1>4, <2>1, <2>2, <2>4
<1>5. QED
  BY <1>1, <1>2, <1>3, <1>4 DEF CallerInv

LEMMA ReaderStands ==
    ASSUME SessionInv, SessionOK(session'), Evolves(session, session'), NEW r \in Reader,
           reader'[r] = reader[r]
    PROVE  ReaderInv(r)'
<1>1. ReaderInv(r) /\ SessionOK(session)
  BY DEF SessionInv
<1>2. reader[r].state = "idle" \/ FenceOK(reader[r].fence, session')
  BY <1>1, FenceStands DEF ReaderInv
<1>3. QED
  BY <1>1, <1>2 DEF ReaderInv

(* The session a request meets: as it is, or with the expired receipts     *)
(* gone.                                                                   *)
Near(s) ==
    /\ SessionOK(s) /\ Evolves(session, s)
    /\ s.last = session.last /\ s.generation = session.generation
    /\ s.version = session.version /\ s.messages = session.messages
    /\ \A t \in Table, k \in Key : s.receipts[t][k] \in {session.receipts[t][k], Null}
    /\ \A t \in Table, k \in Key : ~is_expired(k) => s.receipts[t][k] = session.receipts[t][k]

LEMMA NearSession ==
    ASSUME SessionInv PROVE Near(session) /\ Near(evict(session))
<1>1. SessionOK(session) /\ Evolves(session, session)
  BY SameEvolves DEF SessionInv
<1>2. Near(session)
  BY <1>1 DEF Near
<1>3. Near(evict(session))
  BY <1>1, EvictKeeps DEF Near
<1>4. QED
  BY <1>2, <1>3

(* A caller is answered with nothing, or with a receipt of its request     *)
(* that is on record; the session changes by eviction at most.             *)
LEMMA AnswerStep ==
    ASSUME SessionInv, NEW c \in Caller, Asked(wanted[c], session), Near(session'),
           did' = did, NEW a, a # Null => a.request = wanted[c] /\ Written(a, wanted[c].key),
           did[c] = Null, Answer(c, a)
    PROVE  SessionInv'
<1>1. /\ told' = [told EXCEPT ![c] = a] /\ stage' = [stage EXCEPT ![c] = "done"]
      /\ backend' = backend /\ reader' = reader /\ wanted' = wanted /\ now' = now
  BY DEF Answer
<1>2. /\ SessionOK(session) /\ now \in Nat
      /\ told = [b \in Caller |-> told[b]] /\ stage = [b \in Caller |-> stage[b]]
      /\ wanted = [b \in Caller |-> wanted[b]] /\ did = [b \in Caller |-> did[b]]
      /\ reader = [r \in Reader |-> reader[r]]
  BY DEF SessionInv
<1>3. SessionOK(session') /\ Evolves(session, session')
  BY DEF Near
<1>4. now <= now' /\ now' \in Nat
  BY <1>1, <1>2, SMT
<1>5. /\ told' = [b \in Caller |-> told'[b]] /\ stage' = [b \in Caller |-> stage'[b]]
      /\ wanted' = [b \in Caller |-> wanted'[b]] /\ did' = [b \in Caller |-> did'[b]]
      /\ reader' = [r \in Reader |-> reader'[r]]
  BY <1>1, <1>2
<1>6. \A b \in Caller : did[b] # Null => did'[b] = did[b] /\ wanted'[b] = wanted[b]
  BY <1>1
<1>7. \A b \in Caller \ {c} : told'[b] = told[b] /\ stage'[b] = stage[b]
  BY <1>1, <1>2
<1>8. told'[c] = a /\ stage'[c] = "done"
  BY <1>1, <1>2
<1>9. \A r \in Reader : ReaderInv(r)'
  BY <1>1, <1>3, ReaderStands
<1>10. ASSUME NEW b \in Caller PROVE CallerInv(b)'
  <2>1. CASE b = c
    <3>1. Asked(wanted[c], session')
      BY <1>2, <1>3, AskedStands
    <3>2. a # Null => Written(a, wanted[c].key)'
      <4>1. PICK k : k = wanted[c].key
        OBVIOUS
      <4>2. a # Null => Written(a, k)'
        BY <1>6, <4>1, WrittenKept
      <4>3. QED
        BY <1>1, <4>1, <4>2 DEF Written
    <3>3. did'[c] = Null /\ wanted'[c] = wanted[c]
      BY <1>1
    <3>4. Written(told[c], wanted[c].key)' <=> Written(a, wanted[c].key)'
      BY <1>8 DEF Written
    <3>5. QED
      BY ONLY <1>8, <2>1, <3>1, <3>2, <3>3, <3>4,
              a # Null => a.request = wanted[c] /\ Written(a, wanted[c].key) DEF CallerInv
  <2>2. CASE b # c
    <3>1. did[b] # Null /\ ~is_expired(wanted[b].key) =>
             lookup(session', wanted[b]) = lookup(session, wanted[b])
      <4>1. did[b] # Null => Asked(wanted[b], session)
        BY DEF SessionInv, CallerInv
      <4>2. did[b] # Null => wanted[b].key \in Key /\ TableOf(wanted[b].kind) \in Table
        BY <4>1, TableTyped DEF Asked
      <4>3. QED
        BY <4>2 DEF lookup, Near
    <3>2. stage'[b] = stage[b] /\ wanted'[b] = wanted[b] /\ told'[b] = told[b] /\ did'[b] = did[b]
      BY <1>1, <1>7, <2>2
    <3>3. QED
      BY <1>1, <1>3, <1>4, <1>6, <3>1, <3>2, CallerStands
  <2>3. QED
    BY <2>1, <2>2
<1>11. ASSUME NEW t \in Table, NEW k \in Key, session'.receipts[t][k] # Null
       PROVE  Written(session.receipts[t][k], k)'
  <2>1. session'.receipts[t][k] = session.receipts[t][k]
    BY <1>11 DEF Near
  <2>2. Written(session.receipts[t][k], k)
    BY <1>11, <2>1 DEF SessionInv
  <2>3. PICK b \in Caller : did[b] = session.receipts[t][k] /\ wanted[b].key = k
    BY <2>2 DEF Written
  <2>4. did'[b] = session'.receipts[t][k] /\ wanted'[b].key = k
    BY <1>1, <2>1, <2>3
  <2>5. QED
    BY <2>4 DEF Written
<1>12. \A b, d \in Caller : b # d /\ did'[b] # Null /\ did'[d] # Null /\ wanted'[b].key = wanted'[d].key =>
          backend' = "sqlite" /\ is_expired(wanted[b].key)'
  BY <1>1 DEF SessionInv, is_expired
<1>13. QED
  BY ONLY <1>3, <1>4, <1>5, <1>9, <1>10, <1>11, <1>12 DEF SessionInv

(* A request is executed for the first time: nobody has executed its key,  *)
(* unless the key expired after its window was checked.                    *)
LEMMA WriteStep ==
    ASSUME SessionInv, NEW c \in Caller, NEW s, Near(s), NEW rc, NEW a \in {rc, Null},
           Asked(wanted[c], session),
           backend = "sqlite" \/ ~is_expired(wanted[c].key),
           ~mismatch(s, wanted[c]), lookup(s, wanted[c]) = Null,
           Wrote(s, wanted[c], session', rc),
           did' = [did EXCEPT ![c] = rc], did[c] = Null, Answer(c, a)
    PROVE  SessionInv'
<1>1. /\ told' = [told EXCEPT ![c] = a] /\ stage' = [stage EXCEPT ![c] = "done"]
      /\ backend' = backend /\ reader' = reader /\ wanted' = wanted /\ now' = now
  BY DEF Answer
<1>2. /\ SessionOK(session) /\ now \in Nat
      /\ told = [b \in Caller |-> told[b]] /\ stage = [b \in Caller |-> stage[b]]
      /\ wanted = [b \in Caller |-> wanted[b]] /\ did = [b \in Caller |-> did[b]]
      /\ reader = [r \in Reader |-> reader[r]]
  BY DEF SessionInv
<1>3. PICK r, T : r = wanted[c] /\ T = TableOf(r.kind)
  OBVIOUS
<1>4. /\ SessionOK(session') /\ Evolves(s, session') /\ rc.request = r /\ Swept(rc, session')
      /\ \A t \in Table, k \in Key : session'.receipts[t][k] =
            IF t = T /\ k = r.key THEN rc
            ELSE IF is_expired(k) THEN Null ELSE s.receipts[t][k]
  BY <1>3 DEF Wrote
<1>5. Evolves(session, session')
  BY <1>4 DEF Near, Evolves
<1>6. now <= now' /\ now' \in Nat
  BY <1>1, <1>2, SMT
<1>7. /\ told' = [b \in Caller |-> told'[b]] /\ stage' = [b \in Caller |-> stage'[b]]
      /\ wanted' = [b \in Caller |-> wanted'[b]] /\ did' = [b \in Caller |-> did'[b]]
      /\ reader' = [q \in Reader |-> reader'[q]]
  BY <1>1, <1>2
<1>8. \A b \in Caller \ {c} : told'[b] = told[b] /\ stage'[b] = stage[b] /\ did'[b] = did[b]
  BY <1>1, <1>2
<1>9. told'[c] = a /\ stage'[c] = "done" /\ did'[c] = rc /\ wanted'[c] = r
  BY <1>1, <1>2, <1>3
<1>10. \A b \in Caller : did[b] # Null => did'[b] = did[b] /\ wanted'[b] = wanted[b]
  BY <1>1, <1>8
<1>11. r.key \in Key /\ T \in Table /\ s.receipts[T][r.key] = Null
       /\ \A t \in Table \ {T} : s.receipts[t][r.key] = Null
  <2>1. r.key \in Key /\ T \in Table
    BY <1>3, TableTyped DEF Asked
  <2>2. QED
    BY <1>3, <2>1 DEF lookup, mismatch
<1>12. ASSUME NEW b \in Caller, did[b] # Null, ~is_expired(wanted[b].key)
       PROVE  /\ wanted[b].key # r.key
              /\ lookup(session', wanted[b]) = lookup(session, wanted[b])
  <2>1. Asked(wanted[b], session) /\ lookup(session, wanted[b]) = did[b]
    BY <1>12 DEF SessionInv, CallerInv
  <2>2. PICK k, t : k = wanted[b].key /\ t = TableOf(wanted[b].kind)
    OBVIOUS
  <2>3. k \in Key /\ t \in Table
    BY <2>1, <2>2, TableTyped DEF Asked
  <2>4. s.receipts[t][k] = session.receipts[t][k] /\ session.receipts[t][k] = did[b]
    BY <1>12, <2>1, <2>2, <2>3 DEF Near, lookup
  <2>5. k # r.key
    BY <1>11, <1>12, <2>3, <2>4
  <2>6. session'.receipts[t][k] = s.receipts[t][k]
    BY <1>4, <1>12, <2>2, <2>3, <2>5
  <2>7. QED
    BY <2>2, <2>4, <2>5, <2>6 DEF lookup
<1>13. \A q \in Reader : ReaderInv(q)'
  BY <1>1, <1>4, <1>5, ReaderStands
<1>14. Written(rc, r.key)'
  BY <1>9 DEF Written
<1>15. ASSUME NEW b \in Caller PROVE CallerInv(b)'
  <2>1. CASE b = c
    <3>1. Asked(r, session')
      BY <1>2, <1>3, <1>4, <1>5, AskedStands
    <3>2. lookup(session', r) = rc
      BY <1>3, <1>4, <1>11 DEF lookup
    <3>3. told'[c] # Null => told'[c] = rc /\ Written(told[c], wanted[c].key)'
      <4>1. told'[c] # Null => told'[c] = rc
        BY <1>9
      <4>2. QED
        BY <1>9, <4>1 DEF Written
    <3>4. QED
      BY ONLY <1>4, <1>9, <2>1, <3>1, <3>2, <3>3 DEF CallerInv
  <2>2. CASE b # c
    <3>1. stage'[b] = stage[b] /\ wanted'[b] = wanted[b] /\ told'[b] = told[b] /\ did'[b] = did[b]
      BY <1>1, <1>8, <2>2
    <3>2. did[b] # Null /\ ~is_expired(wanted[b].key) =>
             lookup(session', wanted[b]) = lookup(session, wanted[b])
      BY <1>12
    <3>3. QED
      BY <1>1, <1>4, <1>5, <1>6, <1>10, <3>1, <3>2, CallerStands
  <2>3. QED
    BY <2>1, <2>2
<1>16. ASSUME NEW t \in Table, NEW k \in Key, session'.receipts[t][k] # Null
       PROVE  Written(session.receipts[t][k], k)'
  <2>1. CASE t = T /\ k = r.key
    <3>1. session'.receipts[t][k] = rc
      BY <1>4, <2>1
    <3>2. did'[c] = session'.receipts[t][k] /\ wanted'[c].key = k
      BY <1>9, <2>1, <3>1
    <3>3. QED
      BY <3>2 DEF Written
  <2>2. CASE ~(t = T /\ k = r.key)
    <3>1. session'.receipts[t][k] = s.receipts[t][k]
      BY <1>4, <1>16, <2>2
    <3>2. session'.receipts[t][k] = session.receipts[t][k]
      BY <1>16, <3>1 DEF Near
    <3>3. Written(session.receipts[t][k], k)
      BY <1>16, <3>2 DEF SessionInv
    <3>4. PICK b \in Caller : did[b] = session.receipts[t][k] /\ wanted[b].key = k
      BY <3>3 DEF Written
    <3>5. did'[b] = session'.receipts[t][k] /\ wanted'[b].key = k
      BY <1>10, <1>16, <3>2, <3>4
    <3>6. QED
      BY <3>5 DEF Written
  <2>3. QED
    BY <2>1, <2>2
<1>17. ASSUME NEW b \in Caller, NEW d \in Caller, b # d, did'[b] # Null, did'[d] # Null,
              wanted'[b].key = wanted'[d].key
       PROVE  backend' = "sqlite" /\ is_expired(wanted[b].key)'
  <2>1. \A e \in Caller : e # c /\ did'[e] # Null /\ wanted[e].key = r.key =>
            backend = "sqlite" /\ is_expired(r.key)
    BY <1>3, <1>8, <1>12
  <2>2. backend = "sqlite" /\ is_expired(wanted[b].key)
    <3>1. CASE b = c
      BY <1>1, <1>3, <1>17, <2>1, <3>1
    <3>2. CASE d = c
      BY <1>1, <1>3, <1>17, <2>1, <3>2
    <3>3. CASE b # c /\ d # c
      BY <1>1, <1>8, <1>17, <3>3 DEF SessionInv
    <3>4. QED
      BY <3>1, <3>2, <3>3
  <2>3. QED
    BY <1>1, <2>2 DEF is_expired
<1>18. QED
  BY ONLY <1>4, <1>6, <1>7, <1>13, <1>15, <1>16, <1>17 DEF SessionInv

LEMMA OnRecord ==
    ASSUME SessionInv, NEW r, Asked(r, session), NEW s, Near(s), lookup(s, r) # Null, ~mismatch(s, r)
    PROVE  lookup(s, r).request = r /\ Written(lookup(s, r), r.key)
<1>1. r.key \in Key /\ TableOf(r.kind) \in Table
  BY TableTyped DEF Asked
<1>2. lookup(s, r) = session.receipts[TableOf(r.kind)][r.key]
  BY <1>1 DEF Near, lookup
<1>3. Written(lookup(s, r), r.key)
  BY <1>1, <1>2 DEF SessionInv
<1>4. QED
  BY <1>3 DEF mismatch

LEMMA EffectStep ==
    ASSUME SessionInv, NEW c \in Caller, NEW s, Near(s), Asked(wanted[c], session),
           backend = "sqlite" \/ ~is_expired(wanted[c].key), did[c] = Null,
           NEW x, x = execute_write(s, wanted[c]), TakeEffect(c, s, x),
           NEW a \in {x.receipt, Null}, Answer(c, a)
    PROVE  SessionInv'
<1>1. SessionOK(session) /\ SessionOK(s) /\ Evolves(session, s)
  BY DEF SessionInv, Near
<1>2. Asked(wanted[c], s)
  BY <1>1, AskedStands
<1>3. PICK r : r = wanted[c]
  OBVIOUS
<1>4. \/ ~x.ok /\ x.session = s /\ x.receipt = Null
      \/ ~mismatch(s, r) /\ lookup(s, r) # Null /\ x.session = s /\ x.receipt = lookup(s, r)
      \/ ~mismatch(s, r) /\ lookup(s, r) = Null /\ x.ok /\ Wrote(s, r, x.session, x.receipt)
  <2>1. SessionOK(s) /\ Asked(r, s) /\ x = execute_write(s, r)
    BY <1>1, <1>2, <1>3
  <2>2. QED
    BY ONLY <2>1, ExecuteOutcome
<1>5. /\ session' = x.session
      /\ did' = IF x.ok /\ lookup(s, r) = Null THEN [did EXCEPT ![c] = x.receipt] ELSE did
  BY <1>3 DEF TakeEffect
<1>6. CASE ~x.ok /\ x.session = s /\ x.receipt = Null
  <2>1. session' = s /\ did' = did /\ a = Null
    BY <1>5, <1>6
  <2>2. Near(session')
    BY <2>1
  <2>3. QED
    BY <2>1, <2>2, AnswerStep
<1>7. CASE ~mismatch(s, r) /\ lookup(s, r) # Null /\ x.session = s /\ x.receipt = lookup(s, r)
  <2>1. session' = s /\ did' = did
    BY <1>5, <1>7
  <2>2. Near(session')
    BY <2>1
  <2>3. lookup(s, r).request = r /\ Written(lookup(s, r), r.key)
    BY <1>3, <1>7, OnRecord
  <2>4. a # Null => a.request = wanted[c] /\ Written(a, wanted[c].key)
    BY <1>3, <1>7, <2>3
  <2>5. QED
    BY <2>1, <2>2, <2>4, AnswerStep
<1>8. CASE ~mismatch(s, r) /\ lookup(s, r) = Null /\ x.ok /\ Wrote(s, r, x.session, x.receipt)
  <2>1. PICK rc : rc = x.receipt
    OBVIOUS
  <2>2. /\ did' = [did EXCEPT ![c] = rc] /\ a \in {rc, Null} /\ Wrote(s, wanted[c], session', rc)
        /\ ~mismatch(s, wanted[c]) /\ lookup(s, wanted[c]) = Null
    BY <1>3, <1>5, <1>8, <2>1
  <2>3. QED
    BY <2>2, WriteStep
<1>9. QED
  BY <1>4, <1>6, <1>7, <1>8

LEMMA CallerSteps ==
    ASSUME SessionInv, NEW c \in Caller, LockedWrite(c) \/ CheckWindow(c) \/ Transact(c) \/ reconcile(c)
    PROVE  SessionInv'
<1>1. CallerInv(c) /\ Near(session) /\ Near(evict(session))
  BY NearSession DEF SessionInv
<1>2. stage[c] \in {"called", "validated", "asking"}
  BY DEF LockedWrite, CheckWindow, Transact, reconcile
<1>3. Asked(wanted[c], session) /\ did[c] = Null /\ told[c] = Null
  BY <1>1, <1>2 DEF CallerInv
<1>4. ASSUME LockedWrite(c) PROVE SessionInv'
  <2>1. PICK s, x : s = evict(session) /\ x = execute_write(s, wanted[c])
    OBVIOUS
  <2>2. Near(s)
    BY <1>1, <2>1
  <2>3. \/ validate_window(wanted[c].key) /\ TakeEffect(c, s, x) /\ Answer(c, x.receipt)
        \/ session' = s /\ Answer(c, Null) /\ did' = did
    BY <1>4, <2>1 DEF LockedWrite
  <2>4. CASE validate_window(wanted[c].key) /\ TakeEffect(c, s, x) /\ Answer(c, x.receipt)
    <3>1. ~is_expired(wanted[c].key)
      BY <2>4 DEF validate_window
    <3>2. PICK a : a = x.receipt
      OBVIOUS
    <3>3. /\ a \in {x.receipt, Null} /\ Answer(c, a) /\ TakeEffect(c, s, x)
          /\ x = execute_write(s, wanted[c])
      BY <2>1, <2>4, <3>2
    <3>4. QED
      BY <1>3, <2>2, <3>1, <3>3, EffectStep
  <2>5. CASE session' = s /\ Answer(c, Null) /\ did' = did
    <3>1. Near(session')
      BY <2>2, <2>5
    <3>2. QED
      BY <1>3, <2>5, <3>1, AnswerStep
  <2>6. QED
    BY <2>3, <2>4, <2>5
<1>5. ASSUME Transact(c) PROVE SessionInv'
  <2>1. PICK s, x : s = session /\ x = execute_write(s, wanted[c])
    OBVIOUS
  <2>2. Near(s) /\ backend = "sqlite"
    BY <1>1, <1>5, <2>1 DEF CallerInv, Transact
  <2>3. \/ TakeEffect(c, s, x) /\ Answer(c, x.receipt)
        \/ TakeEffect(c, s, x) /\ Answer(c, Null)
        \/ Answer(c, Null) /\ session' = s /\ did' = did
    BY <1>5, <2>1 DEF Transact
  <2>4. ASSUME NEW a \in {x.receipt, Null}, TakeEffect(c, s, x), Answer(c, a) PROVE SessionInv'
    <3>1. x = execute_write(s, wanted[c])
      BY <2>1
    <3>2. QED
      BY <1>3, <2>2, <2>4, <3>1, EffectStep
  <2>5. CASE Answer(c, Null) /\ session' = s /\ did' = did
    <3>1. Near(session')
      BY <2>2, <2>5
    <3>2. QED
      BY <1>3, <2>5, <3>1, AnswerStep
  <2>6. QED
    BY <2>3, <2>4, <2>5
<1>6. ASSUME reconcile(c) PROVE SessionInv'
  <2>1. PICK s, r, a : /\ s = (IF backend = "memory" THEN evict(session) ELSE session)
                       /\ r = wanted[c]
                       /\ a = IF is_expired(r.key) \/ mismatch(s, r) THEN Null ELSE lookup(s, r)
    OBVIOUS
  <2>2. Near(s)
    BY <1>1, <2>1
  <2>3. session' = s /\ Answer(c, a) /\ did' = did
    BY <1>6, <2>1 DEF reconcile
  <2>4. a # Null => a.request = wanted[c] /\ Written(a, wanted[c].key)
    BY <1>3, <2>1, <2>2, OnRecord
  <2>5. Near(session')
    BY <2>2, <2>3
  <2>6. QED
    BY <1>3, <2>3, <2>4, <2>5, AnswerStep
<1>7. ASSUME CheckWindow(c), ~validate_window(wanted[c].key) PROVE SessionInv'
  <2>1. Answer(c, Null) /\ session' = session /\ did' = did
    BY <1>7 DEF CheckWindow
  <2>2. Near(session')
    BY <1>1, <2>1
  <2>3. QED
    BY <1>3, <2>1, <2>2, AnswerStep
<1>8. ASSUME CheckWindow(c), validate_window(wanted[c].key) PROVE SessionInv'
  <2>1. /\ stage' = [stage EXCEPT ![c] = "validated"] /\ backend = "sqlite"
        /\ UNCHANGED <<backend, reader, wanted, told, now, session, did>>
    BY <1>8 DEF CheckWindow
  <2>2. stage = [b \in Caller |-> stage[b]]
    BY DEF SessionInv
  <2>3. stage' = [b \in Caller |-> stage'[b]] /\ \A b \in Caller : stage'[b] = IF b = c THEN "validated" ELSE stage[b]
    BY <2>1, <2>2
  <2>4. ASSUME NEW b \in Caller PROVE CallerInv(b)'
    <3>1. CallerInv(b)
      BY DEF SessionInv
    <3>2. b = c => stage'[b] = "validated"
      BY <2>3
    <3>3. b # c => stage'[b] = stage[b]
      BY <2>3
    <3>4. QED
      BY <1>3, <2>1, <3>1, <3>2, <3>3 DEF CallerInv, Written, is_expired
  <2>5. \A r \in Reader : ReaderInv(r)'
    BY <2>1 DEF SessionInv, ReaderInv
  <2>6. \A t \in Table, k \in Key :
            session'.receipts[t][k] # Null => Written(session.receipts[t][k], k)'
    BY <2>1 DEF SessionInv, Written
  <2>7. \A b, d \in Caller : b # d /\ did'[b] # Null /\ did'[d] # Null /\ wanted'[b].key = wanted'[d].key =>
            backend' = "sqlite" /\ is_expired(wanted[b].key)'
    BY <2>1 DEF SessionInv, is_expired
  <2>8. /\ SessionOK(session') /\ now' \in Nat /\ wanted' = [b \in Caller |-> wanted'[b]]
        /\ told' = [b \in Caller |-> told'[b]] /\ did' = [b \in Caller |-> did'[b]]
        /\ reader' = [r \in Reader |-> reader'[r]]
    BY <2>1 DEF SessionInv
  <2>9. QED
    BY ONLY <2>3, <2>4, <2>5, <2>6, <2>7, <2>8 DEF SessionInv
<1>9. QED
  BY <1>4, <1>5, <1>6, <1>7, <1>8

(* A step of no caller.                                                    *)
LEMMA QuietStep ==
    ASSUME SessionInv, SessionOK(session'), Evolves(session, session'),
           session'.receipts = session.receipts, now' \in Nat, now <= now',
           UNCHANGED <<backend, wanted, stage, told, did>>,
           reader' = [r \in Reader |-> reader'[r]], \A r \in Reader : ReaderInv(r)'
    PROVE  SessionInv'
<1>1. \A b \in Caller : CallerInv(b)'
  BY CallerStands DEF lookup
<1>2. ASSUME NEW t \in Table, NEW k \in Key, session'.receipts[t][k] # Null
      PROVE  Written(session.receipts[t][k], k)'
  <2>1. Written(session.receipts[t][k], k)
    BY <1>2 DEF SessionInv
  <2>2. PICK b \in Caller : did[b] = session.receipts[t][k] /\ wanted[b].key = k
    BY <2>1 DEF Written
  <2>3. did'[b] = session'.receipts[t][k] /\ wanted'[b].key = k
    BY <2>2
  <2>4. QED
    BY <2>3 DEF Written
<1>3. ASSUME NEW b \in Caller, NEW d \in Caller, b # d, did'[b] # Null, did'[d] # Null,
             wanted'[b].key = wanted'[d].key
      PROVE  backend' = "sqlite" /\ is_expired(wanted[b].key)'
  <2>1. backend = "sqlite" /\ is_expired(wanted[b].key) /\ Asked(wanted[b], session) /\ now \in Nat
    BY <1>3 DEF SessionInv, CallerInv
  <2>2. PICK k : k = wanted[b].key
    OBVIOUS
  <2>3. Expiry[k] \in Nat /\ Expiry[k] <= now
    BY <2>1, <2>2, ReceiptAssumption DEF Asked, is_expired
  <2>4. Expiry[k] <= now'
    BY <2>1, <2>3, SMT
  <2>5. QED
    BY <2>1, <2>2, <2>4 DEF is_expired
<1>4. /\ wanted' = [b \in Caller |-> wanted'[b]] /\ stage' = [b \in Caller |-> stage'[b]]
      /\ told' = [b \in Caller |-> told'[b]] /\ did' = [b \in Caller |-> did'[b]]
  BY DEF SessionInv
<1>5. QED
  BY ONLY <1>1, <1>2, <1>3, <1>4, SessionOK(session'), now' \in Nat,
          reader' = [r \in Reader |-> reader'[r]], \A r \in Reader : ReaderInv(r)' DEF SessionInv

LEMMA OperationStep ==
    ASSUME SessionInv, NEW r, NEW rc, Outcome(session, r, session', rc),
           UNCHANGED <<backend, reader, wanted, stage, told, did, now>>
    PROVE  SessionInv'
<1>1. SessionOK(session') /\ Evolves(session, session') /\ session'.receipts = session.receipts
  BY DEF Outcome
<1>2. \A q \in Reader : ReaderInv(q)'
  BY <1>1, ReaderStands
<1>3. now' \in Nat /\ now <= now' /\ reader' = [q \in Reader |-> reader'[q]]
  <2>1. now \in Nat /\ reader = [q \in Reader |-> reader[q]]
    BY DEF SessionInv
  <2>2. now <= now
    BY <2>1, SMT
  <2>3. QED
    BY <2>1, <2>2
<1>4. QED
  BY <1>1, <1>2, <1>3, QuietStep

LEMMA UnkeyedFields ==
    ASSUME NEW kind, NEW arg
    PROVE  Unkeyed(kind, arg).kind = kind /\ Unkeyed(kind, arg).arg = arg
BY SMT DEF Unkeyed, Request

LEMMA UnkeyedOutcome ==
    ASSUME SessionOK(session), resolve \/ append
    PROVE  \E r, rc : Outcome(session, r, session', rc)
<1>1. ASSUME resolve PROVE \E r, rc : Outcome(session, r, session', rc)
  <2>1. PICK c \in Config \cap Bare :
            /\ apply_resolve(session, Unkeyed("Resolve", c)).ok
            /\ session' = apply_resolve(session, Unkeyed("Resolve", c)).session
    BY <1>1 DEF resolve
  <2>2. PICK r : r = Unkeyed("Resolve", c)
    OBVIOUS
  <2>3. r.arg \in Config
    BY <2>2, UnkeyedFields
  <2>4. PICK rc : rc = apply_resolve(session, r).receipt
    OBVIOUS
  <2>5. /\ r.arg \in Config /\ apply_resolve(session, r).ok
        /\ session' = apply_resolve(session, r).session /\ rc = apply_resolve(session, r).receipt
    BY <2>1, <2>2, <2>3, <2>4
  <2>6. Outcome(session, r, session', rc)
    BY ONLY <2>5, SessionOK(session), ResolveOutcome
  <2>7. QED
    BY <2>6
<1>2. ASSUME append PROVE \E r, rc : Outcome(session, r, session', rc)
  <2>1. PICK m \in Message \cap Bare :
            /\ apply_append(session, Unkeyed("Append", m)).ok
            /\ session' = apply_append(session, Unkeyed("Append", m)).session
    BY <1>2 DEF append
  <2>2. PICK r : r = Unkeyed("Append", m)
    OBVIOUS
  <2>3. r.arg \in Message
    BY <2>2, UnkeyedFields
  <2>4. PICK rc : rc = apply_append(session, r).receipt
    OBVIOUS
  <2>5. /\ r.arg \in Message /\ apply_append(session, r).ok
        /\ session' = apply_append(session, r).session /\ rc = apply_append(session, r).receipt
    BY <2>1, <2>2, <2>3, <2>4
  <2>6. Outcome(session, r, session', rc)
    BY ONLY <2>5, SessionOK(session), AppendOutcome
  <2>7. QED
    BY <2>6
<1>3. QED
  BY <1>1, <1>2

LEMMA UnkeyedSteps ==
    ASSUME SessionInv, resolve \/ append PROVE SessionInv'
<1>1. UNCHANGED <<backend, reader, wanted, stage, told, did, now>>
  BY DEF resolve, append
<1>2. QED
  BY <1>1, UnkeyedOutcome, OperationStep DEF SessionInv

LEMMA TickStep == ASSUME SessionInv, SessionTick PROVE SessionInv'
<1>1. now' = now + 1 /\ UNCHANGED <<backend, session, reader, wanted, stage, told, did>>
  BY DEF SessionTick
<1>2. SessionOK(session) /\ now \in Nat /\ reader = [r \in Reader |-> reader[r]]
  BY DEF SessionInv
<1>3. now' \in Nat /\ now <= now'
  BY <1>1, <1>2, SMT
<1>4. SessionOK(session') /\ Evolves(session, session') /\ session'.receipts = session.receipts
  BY <1>1, <1>2, SameEvolves
<1>5. \A r \in Reader : ReaderInv(r)'
  BY <1>1 DEF SessionInv, ReaderInv
<1>6. QED
  BY <1>1, <1>2, <1>3, <1>4, <1>5, QuietStep

(* A fence that is issued tells what the session is.                       *)
LEMMA IssuedFence ==
    ASSUME NEW s, NEW policy, SessionOK(s) PROVE FenceOK(issue(s, policy), s)
<1>1. PICK f : f = issue(s, policy)
  OBVIOUS
<1>2. f.upper = s.last /\ f.generation = s.generation /\ f.history = s.messages
  BY <1>1, SMT DEF issue
<1>3. /\ s.last \in -1 .. MaxOrdinal /\ s.generation \in Nat
      /\ s.messages \in [Ordinal -> Message \cup {Null}] /\ \A o \in Stored(s) : o <= s.last
  BY DEF SessionOK
<1>4. s.last \in -1 .. s.last /\ s.generation \in 0 .. s.generation
  BY <1>3, SessionAssumption, SMT
<1>5. ASSUME NEW o \in Ordinal, o > s.last PROVE s.messages[o] = Null
  <2>1. ~(o <= s.last)
    BY <1>3, <1>5, SessionAssumption, SMT DEF Ordinal
  <2>2. QED
    BY <1>3, <2>1 DEF Stored
<1>6. FenceOK(f, s)
  BY <1>2, <1>3, <1>4, <1>5 DEF FenceOK
<1>7. QED
  BY <1>1, <1>6

LEMMA ShowReader ==
    ASSUME NEW r \in Reader, NEW f, NEW after, NEW got, Show(r, f, after, got),
           reader = [q \in Reader |-> reader[q]]
    PROVE  /\ reader' = [q \in Reader |-> reader'[q]]
           /\ \A q \in Reader \ {r} : reader'[q] = reader[q]
           /\ reader'[r] = [i \in ReaderFields |-> reader'[r][i]]
           /\ reader'[r].state \in {"paging", "finished", "failed"} /\ reader'[r].fence = f
<1>1. PICK page, read : page = Page(session, f, after) /\ read = got \o Ordered(page.messages)
  OBVIOUS
<1>2. PICK R : R = IF Cardinality(page.visited) > MaxScan
                   THEN [state |-> "failed", fence |-> f, after |-> after, got |-> got]
                   ELSE [state |-> IF page.more THEN "paging" ELSE "finished", fence |-> f,
                         after |-> IF page.messages = {} THEN after ELSE MaxOf(page.messages),
                         got |-> read]
  OBVIOUS
<1>3. reader' = [reader EXCEPT ![r] = R]
  BY <1>1, <1>2 DEF Show
<1>4. reader'[r] = R /\ reader' = [q \in Reader |-> reader'[q]] /\ \A q \in Reader \ {r} : reader'[q] = reader[q]
  BY <1>3
<1>5. ASSUME NEW st, NEW af, NEW gt, R = [state |-> st, fence |-> f, after |-> af, got |-> gt]
      PROVE  R = [i \in ReaderFields |-> R[i]] /\ R.state = st /\ R.fence = f
  BY ONLY <1>5, SMT DEF ReaderFields
<1>6. /\ R = [i \in ReaderFields |-> R[i]]
      /\ R.state \in {"paging", "finished", "failed"} /\ R.fence = f
  <2>1. CASE Cardinality(page.visited) > MaxScan
    <3>1. R = [state |-> "failed", fence |-> f, after |-> after, got |-> got]
      BY <1>2, <2>1
    <3>2. QED
      BY <1>5, <3>1
  <2>2. CASE ~(Cardinality(page.visited) > MaxScan)
    <3>1. PICK st, af : /\ st = (IF page.more THEN "paging" ELSE "finished")
                        /\ af = IF page.messages = {} THEN after ELSE MaxOf(page.messages)
      OBVIOUS
    <3>2. R = [state |-> st, fence |-> f, after |-> af, got |-> read]
      BY <1>2, <2>2, <3>1
    <3>3. st \in {"paging", "finished", "failed"}
      BY <3>1
    <3>4. QED
      BY <1>5, <3>2, <3>3
  <2>3. QED
    BY <2>1, <2>2
<1>7. QED
  BY <1>4, <1>6

LEMMA ReaderSteps ==
    ASSUME SessionInv, NEW r \in Reader, next_page(r) \/ \E p \in Policy : load(r, p)
    PROVE  SessionInv'
<1>1. UNCHANGED <<backend, session, wanted, stage, told, did, now>>
  BY DEF next_page, load
<1>2. SessionOK(session) /\ now \in Nat /\ reader = [q \in Reader |-> reader[q]] /\ ReaderInv(r)
  BY DEF SessionInv
<1>3. /\ SessionOK(session') /\ Evolves(session, session') /\ session'.receipts = session.receipts
      /\ now' \in Nat /\ now <= now'
  <2>1. now <= now
    BY <1>2, SMT
  <2>2. QED
    BY <1>1, <1>2, <2>1, SameEvolves
<1>4. ASSUME NEW f, NEW after, NEW got, Show(r, f, after, got), FenceOK(f, session)
      PROVE  SessionInv'
  <2>1. /\ reader' = [q \in Reader |-> reader'[q]]
        /\ \A q \in Reader \ {r} : reader'[q] = reader[q]
        /\ reader'[r] = [i \in ReaderFields |-> reader'[r][i]]
        /\ reader'[r].state \in {"paging", "finished", "failed"} /\ reader'[r].fence = f
    BY <1>2, <1>4, ShowReader
  <2>2. ASSUME NEW q \in Reader PROVE ReaderInv(q)'
    <3>1. CASE q = r
      BY <1>1, <1>4, <2>1, <3>1 DEF ReaderInv
    <3>2. CASE q # r
      BY <1>3, <2>1, <3>2, ReaderStands
    <3>3. QED
      BY <3>1, <3>2
  <2>3. QED
    BY <1>1, <1>3, <2>1, <2>2, QuietStep
<1>5. ASSUME NEW p \in Policy, load(r, p) PROVE SessionInv'
  <2>1. PICK f : f = issue(session, p)
    OBVIOUS
  <2>2. Show(r, f, f.lower - 1, <<>>)
    BY <1>5, <2>1 DEF load
  <2>3. FenceOK(f, session)
    BY <1>2, <2>1, IssuedFence
  <2>4. QED
    BY <1>4, <2>2, <2>3
<1>6. ASSUME next_page(r), decodes(reader[r].fence, session) PROVE SessionInv'
  BY <1>2, <1>4, <1>6 DEF next_page, ReaderInv
<1>7. ASSUME next_page(r), ~decodes(reader[r].fence, session) PROVE SessionInv'
  <2>1. reader' = [reader EXCEPT ![r].state = "failed"]
    BY <1>7 DEF next_page
  <2>2. PICK R : R = reader[r]
    OBVIOUS
  <2>3. reader' = [reader EXCEPT ![r] = [R EXCEPT !.state = "failed"]]
    BY <2>1, <2>2
  <2>4. R = [i \in ReaderFields |-> R[i]]
    BY <1>2, <2>2 DEF ReaderInv
  <2>5. PICK N : N = [R EXCEPT !.state = "failed"]
    OBVIOUS
  <2>6. N = [i \in ReaderFields |-> N[i]] /\ N.state = "failed" /\ N.fence = R.fence
    BY <2>4, <2>5 DEF ReaderFields
  <2>7. reader' = [reader EXCEPT ![r] = N]
    BY <2>3, <2>5
  <2>8. /\ reader' = [q \in Reader |-> reader'[q]] /\ reader'[r] = N
        /\ \A q \in Reader \ {r} : reader'[q] = reader[q]
    BY <1>2, <2>7
  <2>9. ASSUME NEW q \in Reader PROVE ReaderInv(q)'
    <3>1. CASE q = r
      <4>1. FenceOK(R.fence, session)
        BY <1>2, <1>7, <2>2 DEF next_page, ReaderInv
      <4>2. QED
        BY <1>1, <2>6, <2>8, <3>1, <4>1 DEF ReaderInv
    <3>2. CASE q # r
      BY <1>3, <2>8, <3>2, ReaderStands
    <3>3. QED
      BY <3>1, <3>2
  <2>10. QED
    BY <1>1, <1>3, <2>8, <2>9, QuietStep
<1>8. QED
  BY <1>5, <1>6, <1>7

(* Whatever a caller may ask, it got what it needs for it from the store.  *)
LEMMA RequestsAsked ==
    ASSUME SessionInv, NEW kind \in Wish, NEW k \in Key, NEW r \in Requests(kind, k)
    PROVE  Asked(r, session)
<1>0. SessionOK(session)
  BY DEF SessionInv
<1>1. -1 \in Int
  BY SMT
<1>2. CASE kind = "Resolve"
  <2>0. Requests(kind, k) = {Request(kind, k, c, Null, -1) : c \in Config}
    BY ONLY <1>2 DEF Requests
  <2>1. PICK c \in Config : r = Request(kind, k, c, Null, -1)
    BY <2>0
  <2>2. r.kind = "Resolve" /\ r.key = k /\ r.arg = c /\ r.after = -1
    BY ONLY <1>2, <2>1, SMT DEF Request
  <2>3. QED
    BY <1>1, <2>2 DEF Asked
<1>3. CASE kind = "Append"
  <2>0. Requests(kind, k) = {Request(kind, k, m, Null, -1) : m \in Message}
    BY ONLY <1>3 DEF Requests
  <2>1. PICK m \in Message : r = Request(kind, k, m, Null, -1)
    BY <2>0
  <2>2. r.kind = "Append" /\ r.key = k /\ r.arg = m /\ r.after = -1
    BY ONLY <1>3, <2>1, SMT DEF Request
  <2>3. QED
    BY <1>1, <2>2 DEF Asked
<1>4. CASE kind = "Publish"
  <2>0. PICK F : F = {reader[q].fence : q \in Reader} \ {Null}
    OBVIOUS
  <2>1. PICK t \in Content, f \in F : r = Request(kind, k, t, f, -1)
    BY <1>4, <2>0, SMT DEF Requests
  <2>2. FenceOK(f, session)
    <3>1. PICK q \in Reader : f = reader[q].fence /\ f # Null
      BY <2>0
    <3>2. QED
      BY <3>1 DEF SessionInv, ReaderInv
  <2>3. r.kind = "Publish" /\ r.key = k /\ r.fence = f /\ r.after = -1
    BY ONLY <1>4, <2>1, SMT DEF Request
  <2>4. QED
    BY <1>1, <2>2, <2>3 DEF Asked
<1>5. CASE kind = "Retain"
  <2>0. Requests(kind, k) = {Request(kind, k, Null, b[1], b[2]) : b \in Batches}
    BY ONLY <1>5 DEF Requests
  <2>1. PICK b \in Batches : r = Request(kind, k, Null, b[1], b[2])
    BY <2>0
  <2>2. PICK f, n : f = b[1] /\ n = b[2]
    OBVIOUS
  <2>3. r = Request(kind, k, Null, f, n)
    BY <2>1, <2>2
  <2>4. r.kind = "Retain" /\ r.key = k /\ r.fence = f /\ r.after = n
    BY ONLY <1>5, <2>3, SMT DEF Request
  <2>5. FenceOK(f, session) /\ n \in Int
    <3>1. \/ b = <<issue(session, All), -1>>
          \/ \E d \in Caller : /\ told[d] # Null /\ told[d].kind = "Retained" /\ told[d].next # Null
                               /\ b = <<told[d].request.fence, told[d].next>>
      BY <2>1 DEF Batches
    <3>2. CASE b = <<issue(session, All), -1>>
      <4>1. f = issue(session, All) /\ n = -1
        BY ONLY <2>2, <3>2, SMT
      <4>2. QED
        BY <1>0, <1>1, <4>1, IssuedFence
    <3>3. ASSUME NEW d \in Caller, told[d] # Null, told[d].kind = "Retained", told[d].next # Null,
                 b = <<told[d].request.fence, told[d].next>>
          PROVE  FenceOK(f, session) /\ n \in Int
      <4>1. f = told[d].request.fence /\ n = told[d].next
        BY ONLY <2>2, <3>3, SMT
      <4>2. PICK e \in Caller : did[e] = told[d]
        BY <3>3 DEF SessionInv, CallerInv, Written
      <4>3. did[e].request = wanted[e] /\ Swept(did[e], session) /\ Asked(wanted[e], session)
        BY <3>3, <4>2 DEF SessionInv, CallerInv
      <4>4. told[d].request.kind = "Retain" /\ told[d].next \in Int
        BY <3>3, <4>2, <4>3 DEF Swept
      <4>5. QED
        BY <4>1, <4>2, <4>3, <4>4 DEF Asked
    <3>4. QED
      BY <3>1, <3>2, <3>3
  <2>6. QED
    BY <2>4, <2>5 DEF Asked
<1>6. CASE kind \in {"Retry", "Reconcile"}
  <2>0. Requests(kind, k) = {wanted[b] : b \in {b \in Caller : wanted[b] # Null /\ wanted[b].key = k}}
    BY ONLY <1>6 DEF Requests
  <2>1. PICK b \in Caller : wanted[b] # Null /\ r = wanted[b]
    BY <2>0
  <2>2. QED
    BY <2>1 DEF SessionInv, CallerInv
<1>7. QED
  BY <1>2, <1>3, <1>4, <1>5, <1>6 DEF Wish

LEMMA AskStep ==
    ASSUME SessionInv, NEW c \in Caller, Ask(c) PROVE SessionInv'
<1>1. stage[c] = "idle" /\ UNCHANGED <<backend, session, reader, told, did, now>>
  BY DEF Ask
<1>2. PICK w \in Wants[c] : \E r \in Requests(w[1], w[2]) :
        /\ wanted' = [wanted EXCEPT ![c] = r]
        /\ stage' = [stage EXCEPT ![c] = IF w[1] = "Reconcile" THEN "asking" ELSE "called"]
  BY DEF Ask
<1>3. PICK r \in Requests(w[1], w[2]) :
        /\ wanted' = [wanted EXCEPT ![c] = r]
        /\ stage' = [stage EXCEPT ![c] = IF w[1] = "Reconcile" THEN "asking" ELSE "called"]
  BY <1>2
<1>4. w[1] \in Wish /\ w[2] \in Key
  <2>1. w \in Wish \X Key
    BY SessionAssumption
  <2>2. QED
    BY <2>1, SMT
<1>5. Asked(r, session)
  BY <1>4, RequestsAsked
<1>6. PICK st : st = IF w[1] = "Reconcile" THEN "asking" ELSE "called"
  OBVIOUS
<1>7. stage' = [stage EXCEPT ![c] = st] /\ st \in {"asking", "called"}
  BY <1>3, <1>6
<1>8. /\ SessionOK(session) /\ now \in Nat /\ CallerInv(c)
      /\ told = [b \in Caller |-> told[b]] /\ stage = [b \in Caller |-> stage[b]]
      /\ wanted = [b \in Caller |-> wanted[b]] /\ did = [b \in Caller |-> did[b]]
      /\ reader = [q \in Reader |-> reader[q]]
  BY DEF SessionInv
<1>9. did[c] = Null /\ told[c] = Null
  BY <1>1, <1>8 DEF CallerInv
<1>10. /\ wanted' = [b \in Caller |-> wanted'[b]] /\ stage' = [b \in Caller |-> stage'[b]]
       /\ wanted'[c] = r /\ stage'[c] = st
       /\ \A b \in Caller \ {c} : wanted'[b] = wanted[b] /\ stage'[b] = stage[b]
  BY <1>3, <1>7, <1>8
<1>11. /\ SessionOK(session') /\ Evolves(session, session') /\ now' \in Nat /\ now <= now'
       /\ told' = [b \in Caller |-> told'[b]] /\ did' = [b \in Caller |-> did'[b]]
       /\ reader' = [q \in Reader |-> reader'[q]]
  <2>1. now <= now
    BY <1>8, SMT
  <2>2. QED
    BY <1>1, <1>8, <2>1, SameEvolves
<1>12. \A b \in Caller : did[b] # Null => did'[b] = did[b] /\ wanted'[b] = wanted[b]
  BY <1>1, <1>9, <1>10
<1>13. ASSUME NEW b \in Caller PROVE CallerInv(b)'
  <2>1. CASE b = c
    BY <1>1, <1>5, <1>7, <1>9, <1>10, <2>1 DEF CallerInv
  <2>2. CASE b # c
    <3>1. stage'[b] = stage[b] /\ wanted'[b] = wanted[b] /\ told'[b] = told[b] /\ did'[b] = did[b]
      BY <1>1, <1>10, <2>2
    <3>2. lookup(session', wanted[b]) = lookup(session, wanted[b])
      BY <1>1
    <3>3. QED
      BY <1>1, <1>11, <1>12, <3>1, <3>2, CallerStands
  <2>3. QED
    BY <2>1, <2>2
<1>14. \A q \in Reader : ReaderInv(q)'
  BY <1>1 DEF SessionInv, ReaderInv
<1>15. ASSUME NEW t \in Table, NEW k \in Key, session'.receipts[t][k] # Null
       PROVE  Written(session.receipts[t][k], k)'
  <2>1. Written(session.receipts[t][k], k)
    BY <1>1, <1>15 DEF SessionInv
  <2>2. PICK b \in Caller : did[b] = session.receipts[t][k] /\ wanted[b].key = k
    BY <2>1 DEF Written
  <2>3. did'[b] = session'.receipts[t][k] /\ wanted'[b].key = k
    BY <1>1, <1>12, <1>15, <2>2
  <2>4. QED
    BY <2>3 DEF Written
<1>16. ASSUME NEW b \in Caller, NEW d \in Caller, b # d, did'[b] # Null, did'[d] # Null,
              wanted'[b].key = wanted'[d].key
       PROVE  backend' = "sqlite" /\ is_expired(wanted[b].key)'
  <2>1. did[b] # Null /\ did[d] # Null /\ wanted'[b] = wanted[b] /\ wanted'[d] = wanted[d]
    BY <1>1, <1>12, <1>16
  <2>2. backend = "sqlite" /\ is_expired(wanted[b].key)
    BY <1>16, <2>1 DEF SessionInv
  <2>3. QED
    BY <1>1, <2>1, <2>2 DEF is_expired
<1>17. QED
  BY ONLY <1>10, <1>11, <1>13, <1>14, <1>15, <1>16 DEF SessionInv

LEMMA SessionInitially == SessionInit => SessionInv
<1> SUFFICES ASSUME SessionInit PROVE SessionInv
  OBVIOUS
<1>1. /\ session = Unresolved /\ now = 0 /\ reader = [r \in Reader |-> NoRead]
      /\ wanted = [c \in Caller |-> Null] /\ stage = [c \in Caller |-> "idle"]
      /\ told = [c \in Caller |-> Null] /\ did = [c \in Caller |-> Null]
  BY DEF SessionInit
<1>2. PICK N, D, R : N = NoMessages /\ D = [d \in DedupKey |-> Null] /\ R = NoReceipts
  OBVIOUS
<1>3. session = [config |-> Null, generation |-> 0, last |-> -1, messages |-> N,
                 dedup |-> D, version |-> 0, published |-> Null, receipts |-> R]
  BY <1>1, <1>2 DEF Unresolved
<1>4. /\ session = [f \in SessionFields |-> session[f]] /\ session.config = Null
      /\ session.generation = 0 /\ session.last = -1 /\ session.messages = N
      /\ session.dedup = D /\ session.version = 0 /\ session.receipts = R
  <2>1. session = [f \in SessionFields |-> session[f]]
    BY ONLY <1>3, SMTT(30) DEF SessionFields
  <2>2. session.config = Null /\ session.generation = 0 /\ session.last = -1 /\ session.messages = N
    BY ONLY <1>3, SMTT(30)
  <2>3. session.dedup = D /\ session.version = 0 /\ session.receipts = R
    BY ONLY <1>3, SMTT(30)
  <2>4. QED
    BY <2>1, <2>2, <2>3
<1>5. /\ \A o \in Ordinal : session.messages[o] = Null
      /\ session.messages \in [Ordinal -> Message \cup {Null}]
      /\ session.dedup = [d \in DedupKey |-> session.dedup[d]]
      /\ \A d \in DedupKey : session.dedup[d] = Null
  BY <1>2, <1>4 DEF NoMessages
<1>6. /\ session.receipts = [t \in Table |-> [k \in Key |-> session.receipts[t][k]]]
      /\ \A t \in Table, k \in Key : session.receipts[t][k] = Null
  <2>1. session.receipts = [t \in Table |-> [k \in Key |-> Null]]
    BY <1>2, <1>4 DEF NoReceipts
  <2>2. ASSUME NEW t \in Table, NEW k \in Key PROVE session.receipts[t][k] = Null
    <3>1. session.receipts[t] = [i \in Key |-> Null]
      BY <2>1
    <3>2. QED
      BY <3>1
  <2>3. QED
    BY <2>1, <2>2
<1>7. Stored(session) = {}
  BY <1>5 DEF Stored
<1>8. \A d \in DedupKey : OneTarget(session, d)
  BY <1>5, <1>7 DEF OneTarget
<1>9. 0 \in Nat /\ -1 \in -1 .. MaxOrdinal
  BY SessionAssumption, SMT
<1>10. SessionOK(session)
  BY <1>4, <1>5, <1>6, <1>7, <1>8, <1>9 DEF SessionOK
<1>11. \A c \in Caller : wanted[c] = Null /\ stage[c] = "idle" /\ told[c] = Null /\ did[c] = Null
  BY <1>1
<1>12. \A c \in Caller : CallerInv(c)
  BY <1>11 DEF CallerInv
<1>13. ASSUME NEW r \in Reader PROVE ReaderInv(r)
  <2>1. reader[r] = [state |-> "idle", fence |-> Null, after |-> -1, got |-> <<>>]
    BY <1>1 DEF NoRead
  <2>2. reader[r] = [f \in ReaderFields |-> reader[r][f]] /\ reader[r].state = "idle" /\ reader[r].fence = Null
    BY ONLY <2>1, SMT DEF ReaderFields
  <2>3. QED
    BY <2>2 DEF ReaderInv
<1>14. /\ wanted = [c \in Caller |-> wanted[c]] /\ stage = [c \in Caller |-> stage[c]]
       /\ told = [c \in Caller |-> told[c]] /\ did = [c \in Caller |-> did[c]]
       /\ reader = [r \in Reader |-> reader[r]]
  BY <1>1
<1>15. QED
  BY <1>1, <1>6, <1>9, <1>10, <1>11, <1>12, <1>13, <1>14 DEF SessionInv

LEMMA SessionStep == SessionInv /\ [SessionNext]_sessionVars => SessionInv'
<1> SUFFICES ASSUME SessionInv, [SessionNext]_sessionVars PROVE SessionInv'
  OBVIOUS
<1>1. CASE SessionNext
  BY <1>1, UnkeyedSteps, TickStep, ReaderSteps, AskStep, CallerSteps DEF SessionNext
<1>2. CASE UNCHANGED sessionVars
  <2>1. UNCHANGED <<backend, session, reader, wanted, stage, told, did, now>>
    BY <1>2 DEF sessionVars
  <2>2. SessionOK(session) /\ now \in Nat /\ reader = [r \in Reader |-> reader[r]]
    BY DEF SessionInv
  <2>3. SessionOK(session') /\ Evolves(session, session') /\ session'.receipts = session.receipts
    BY <2>1, <2>2, SameEvolves
  <2>4. \A r \in Reader : ReaderInv(r)'
    BY <2>1, <2>3, ReaderStands
  <2>5. now <= now
    BY <2>2, SMT
  <2>6. QED
    BY <2>1, <2>2, <2>3, <2>4, <2>5, QuietStep
<1>3. QED
  BY <1>1, <1>2

(* A dedup key has at most one message, and the map of the client in       *)
(* memory names it: retention takes the entry with the message, so that    *)
(* prepare_append never meets an entry whose target is missing.            *)
THEOREM DedupTargets == SessionSpec => []DedupHasItsTarget
<1>1. ASSUME SessionInv PROVE DedupHasItsTarget
  <2>1. SessionOK(session)
    BY <1>1 DEF SessionInv
  <2>2. SessionTypeOK
    BY <1>1, <2>1 DEF SessionInv, SessionOK, SessionTypeOK, ReaderInv, CallerInv
  <2>3. ASSUME NEW d \in DedupKey,
               NEW with, with = {o \in Stored(session) : session.messages[o].dedup = d}
        PROVE  /\ Cardinality(with) <= 1
               /\ session.dedup[d] = IF with = {} THEN Null
                                     ELSE session.messages[CHOOSE o \in with : TRUE].id
    <3>1. OneTarget(session, d)
      BY <2>1 DEF SessionOK
    <3>2. CASE session.dedup[d] = Null /\ \A o \in Stored(session) : session.messages[o].dedup # d
      <4>1. with = {}
        BY <2>3, <3>2
      <4>2. Cardinality(with) = 0
        BY <4>1, FS_EmptySet
      <4>3. Cardinality(with) <= 1
        BY <4>2, SMT
      <4>4. QED
        BY <3>2, <4>1, <4>3
    <3>3. ASSUME NEW o \in Stored(session), session.messages[o].dedup = d,
                 session.dedup[d] = session.messages[o].id,
                 \A p \in Stored(session) : session.messages[p].dedup = d => p = o
          PROVE  /\ Cardinality(with) <= 1
                 /\ session.dedup[d] = IF with = {} THEN Null
                                       ELSE session.messages[CHOOSE q \in with : TRUE].id
      <4>1. with = {o}
        BY <2>3, <3>3
      <4>2. Cardinality(with) = 1
        BY <4>1, FS_Singleton
      <4>3. Cardinality(with) <= 1
        BY <4>2, SMT
      <4>4. with # {} /\ (CHOOSE q \in with : TRUE) \in with
        BY <4>1
      <4>5. (CHOOSE q \in with : TRUE) = o
        BY <4>1, <4>4
      <4>6. QED
        BY <3>3, <4>3, <4>4, <4>5
    <3>4. QED
      BY <3>1, <3>2, <3>3 DEF OneTarget
  <2>4. QED
    BY <2>2, <2>3 DEF DedupHasItsTarget
<1>2. QED
  BY <1>1, SessionInitially, SessionStep, PTL DEF SessionSpec

(* What a batch of a sweep has gone over stays clean of what was past      *)
(* retention when the sweep began, whatever is appended, deleted or        *)
(* published after it (retain).                                            *)
THEOREM SweepsStayClean == SessionSpec => []SweptStaysClean
<1>1. ASSUME SessionInv PROVE SweptStaysClean
  <2>1. ASSUME NEW c \in Caller, told[c] # Null, told[c].kind = "Retained",
               NEW r, r = told[c].request,
               NEW end, end = IF told[c].next = Null THEN r.fence.upper ELSE told[c].next,
               NEW o \in Stored(session), r.after < o, o <= end
        PROVE  ~expired(r.fence.cutoff, session.messages[o])
    <3>1. PICK b \in Caller : did[b] = told[c]
      BY <1>1, <2>1 DEF SessionInv, CallerInv, Written
    <3>2. Swept(told[c], session)
      BY <1>1, <2>1, <3>1 DEF SessionInv, CallerInv
    <3>3. end = EndOf(told[c])
      BY <2>1 DEF EndOf
    <3>4. QED
      BY <2>1, <3>2, <3>3 DEF Swept
  <2>2. QED
    BY <2>1 DEF SweptStaysClean
<1>2. QED
  BY <1>1, SessionInitially, SessionStep, PTL DEF SessionSpec

(* An operation under a key takes effect once, and every answer to it, to  *)
(* a retry or to a reconciliation is the receipt of that one execution; a  *)
(* key is executed again only in SQLite, when it expired between its       *)
(* window check and its transaction (execute_write).                       *)
THEOREM OperationsRunOnce == SessionSpec => []KeysExecuteOnce
<1>1. ASSUME SessionInv PROVE KeysExecuteOnce
  <2>1. ASSUME NEW k \in Key, ~(backend = "sqlite" /\ is_expired(k)), NEW E, E = Executed(k)
        PROVE  ~(Cardinality(E) > 1)
    <3>1. CASE E = {}
      <4>1. Cardinality(E) = 0
        BY <3>1, FS_EmptySet
      <4>2. QED
        BY <4>1, SMT
    <3>2. CASE E # {}
      <4>1. PICK c : c \in E
        BY <3>2
      <4>2. ASSUME NEW d \in E PROVE d = c
        <5>1. /\ c \in Caller /\ did[c] # Null /\ wanted[c].key = k
              /\ d \in Caller /\ did[d] # Null /\ wanted[d].key = k
          BY <2>1, <4>1 DEF Executed
        <5>2. QED
          BY <1>1, <2>1, <5>1 DEF SessionInv
      <4>3. E = {c}
        BY <4>1, <4>2
      <4>4. Cardinality(E) = 1
        BY <4>3, FS_Singleton
      <4>5. QED
        BY <4>4, SMT
    <3>3. QED
      BY <3>1, <3>2
  <2>2. ASSUME NEW k \in Key, NEW c \in Caller, told[c] # Null, wanted[c].key = k
        PROVE  told[c] \in {did[b] : b \in Executed(k)}
    <3>1. Written(told[c], k)
      BY <1>1, <2>2 DEF SessionInv, CallerInv
    <3>2. PICK b \in Caller : did[b] = told[c] /\ wanted[b].key = k
      BY <3>1 DEF Written
    <3>3. b \in Executed(k)
      BY <2>2, <3>2 DEF Executed
    <3>4. QED
      BY <3>2, <3>3
  <2>3. QED
    BY <2>1, <2>2 DEF KeysExecuteOnce
<1>2. QED
  BY <1>1, SessionInitially, SessionStep, PTL DEF SessionSpec

(* What a publication rests on: a fence that is current names the history  *)
(* as it is.                                                               *)
LEMMA CurrentHistory ==
    ASSUME NEW f, NEW s, SessionOK(s), FenceOK(f, s), is_current(f, s)
    PROVE  f.history = s.messages
<1>1. f.generation = s.generation /\ f.upper = s.last
  BY DEF is_current
<1>2. /\ f.history \in [Ordinal -> Message \cup {Null}] /\ s.messages \in [Ordinal -> Message \cup {Null}]
      /\ s.last \in Int
  BY SessionAssumption, SMT DEF SessionOK, FenceOK
<1>3. ASSUME NEW o \in Ordinal PROVE f.history[o] = s.messages[o]
  <2>1. CASE o <= s.last
    BY <1>1, <2>1 DEF FenceOK
  <2>2. CASE ~(o <= s.last)
    <3>1. o > s.last
      BY <1>2, <2>2, SessionAssumption, SMT DEF Ordinal
    <3>2. s.messages[o] = Null
      BY <2>2 DEF SessionOK, Stored
    <3>3. f.history[o] = Null
      BY <1>1, <3>1 DEF FenceOK
    <3>4. QED
      BY <3>2, <3>3
  <2>3. QED
    BY <2>1, <2>2
<1>4. f.history = [o \in Ordinal |-> f.history[o]] /\ s.messages = [o \in Ordinal |-> s.messages[o]]
  BY <1>2
<1>5. QED
  BY <1>3, <1>4

LEMMA VersionStep ==
    ASSUME SessionInv, SessionNext, session'.version # session.version
    PROVE  /\ session'.version = session.version + 1
           /\ session'.published.fence.history = session.messages
           /\ session'.published.fence.version = session.version
<1>1. SessionOK(session)
  BY DEF SessionInv
<1>2. ASSUME NEW c \in Caller, NEW s, Near(s), Asked(wanted[c], session), NEW x,
             x = execute_write(s, wanted[c]), session' = x.session
      PROVE  /\ session'.version = session.version + 1
             /\ session'.published.fence.history = session.messages
             /\ session'.published.fence.version = session.version
  <2>1. /\ SessionOK(s) /\ Evolves(session, s) /\ s.version = session.version
        /\ s.messages = session.messages
    BY <1>2 DEF Near
  <2>2. PICK r : r = wanted[c]
    OBVIOUS
  <2>3. Asked(r, s)
    BY <1>1, <1>2, <2>1, <2>2, AskedStands
  <2>4. \/ x.session = s
        \/ Wrote(s, r, x.session, x.receipt)
    <3>1. SessionOK(s) /\ Asked(r, s) /\ x = execute_write(s, r)
      BY <1>2, <2>1, <2>2, <2>3
    <3>2. QED
      BY ONLY <3>1, ExecuteOutcome
  <2>5. Wrote(s, r, session', x.receipt)
    BY <1>2, <2>1, <2>4
  <2>6. /\ session'.version = s.version + 1 /\ is_current(r.fence, s) /\ FenceOK(r.fence, s)
        /\ session'.published.fence = r.fence
    BY <2>1, <2>5 DEF Wrote
  <2>7. r.fence.history = s.messages /\ r.fence.version = s.version
    BY <2>1, <2>6, CurrentHistory DEF is_current
  <2>8. QED
    BY <2>1, <2>6, <2>7
<1>3. ASSUME NEW r, NEW rc, Outcome(session, r, session', rc)
      PROVE  /\ session'.version = session.version + 1
             /\ session'.published.fence.history = session.messages
             /\ session'.published.fence.version = session.version
  <2>1. /\ session'.version = session.version + 1 /\ is_current(r.fence, session)
        /\ FenceOK(r.fence, session) /\ session'.published.fence = r.fence
    BY <1>3 DEF Outcome
  <2>2. r.fence.history = session.messages /\ r.fence.version = session.version
    BY <1>1, <2>1, CurrentHistory DEF is_current
  <2>3. QED
    BY <2>1, <2>2
<1>4. CASE resolve \/ append
  BY <1>1, <1>3, <1>4, UnkeyedOutcome
<1>5. ASSUME NEW c \in Caller, LockedWrite(c) \/ Transact(c)
      PROVE  \E s, x : /\ Near(s) /\ Asked(wanted[c], session) /\ x = execute_write(s, wanted[c])
                       /\ session' = x.session
  <2>1. CallerInv(c) /\ Near(session) /\ Near(evict(session))
    BY NearSession DEF SessionInv
  <2>2. stage[c] \in {"called", "validated"}
    BY <1>5 DEF LockedWrite, Transact
  <2>3. Asked(wanted[c], session)
    BY <2>1, <2>2 DEF CallerInv
  <2>4. PICK s, e : s = session /\ e = evict(session)
    OBVIOUS
  <2>5. \/ session' = execute_write(s, wanted[c]).session
        \/ session' = execute_write(e, wanted[c]).session
        \/ session' = e \/ session' = s
    BY <1>5, <2>4 DEF LockedWrite, Transact, TakeEffect
  <2>6. session' # e /\ session' # s
    BY <2>1, <2>4 DEF Near
  <2>7. QED
    BY <2>1, <2>3, <2>4, <2>5, <2>6
<1>6. ASSUME NEW c \in Caller, reconcile(c) PROVE FALSE
  <2>1. session' \in {session, evict(session)}
    BY <1>6 DEF reconcile
  <2>2. QED
    BY <2>1, NearSession DEF Near
<1>7. ASSUME \/ SessionTick
             \/ \E r \in Reader : next_page(r) \/ \E p \in Policy : load(r, p)
             \/ \E c \in Caller : Ask(c) \/ CheckWindow(c)
      PROVE  FALSE
  BY <1>7 DEF SessionTick, next_page, load, Ask, CheckWindow
<1>8. QED
  BY <1>2, <1>4, <1>5, <1>6, <1>7 DEF SessionNext

(* A context replaces another only if it was derived from the history as   *)
(* it is and from the context that it replaces: no append, sweep or        *)
(* publication came between (publish, is_current).                         *)
THEOREM PublicationsAreCurrent == SessionSpec => PublishesWhatWasRead
<1>1. ASSUME SessionInv, [SessionNext]_sessionVars
      PROVE  [session'.version # session.version =>
                /\ session'.version = session.version + 1
                /\ session'.published.fence.history = session.messages
                /\ session'.published.fence.version = session.version]_sessionVars
  BY <1>1, VersionStep DEF sessionVars
<1>2. QED
  BY <1>1, SessionInitially, SessionStep, PTL DEF SessionSpec, PublishesWhatWasRead

-----------------------------------------------------------------------------
(* The pages of a selection.  A set of ordinals has one increasing         *)
(* enumeration, in which each element has its rank as index; a reader has  *)
(* read the enumeration of its selection up to its cursor.                 *)

(* q lists S in increasing order.                                          *)
Enumerates(q, S) ==
    /\ q \in [1 .. Cardinality(S) -> S]
    /\ \A i, j \in 1 .. Cardinality(S) : i < j => q[i] < q[j]

UpTo(S, o) == {p \in S : p <= o}

LEMMA OrdinalsNatural == Ordinal \subseteq Nat
BY SessionAssumption, SMT DEF Ordinal

(* Ranks: how many elements of a set come before one of them.              *)
LEMMA RankGrows ==
    ASSUME NEW S \in SUBSET Ordinal, NEW o \in S, NEW p \in S, o < p
    PROVE  /\ Cardinality(UpTo(S, o)) \in Nat /\ Cardinality(UpTo(S, p)) \in Nat
           /\ Cardinality(UpTo(S, o)) < Cardinality(UpTo(S, p))
<1>1. Ordinal \subseteq Nat
  BY OrdinalsNatural
<1>2. UpTo(S, o) \in SUBSET UpTo(S, p) /\ UpTo(S, p) \in SUBSET Ordinal
  <2>1. \A x \in S : x <= o => x <= p
    BY <1>1, SMT
  <2>2. QED
    BY <2>1 DEF UpTo
<1>3. p \in UpTo(S, p) /\ p \notin UpTo(S, o)
  <2>1. p <= p /\ ~(p <= o)
    BY <1>1, SMT
  <2>2. QED
    BY <2>1 DEF UpTo
<1>4. IsFiniteSet(UpTo(S, p)) /\ Cardinality(UpTo(S, p)) \in Nat
  BY <1>2, OrdinalsFinite
<1>5. /\ Cardinality(UpTo(S, o)) <= Cardinality(UpTo(S, p)) /\ Cardinality(UpTo(S, o)) \in Nat
      /\ Cardinality(UpTo(S, o)) # Cardinality(UpTo(S, p))
  <2>1. UpTo(S, o) # UpTo(S, p)
    BY <1>3
  <2>2. QED
    BY <1>2, <1>4, <2>1, FS_Subset, FS_CardinalityType
<1>6. QED
  BY <1>4, <1>5, SMT

LEMMA RankBounds ==
    ASSUME NEW S \in SUBSET Ordinal, NEW o \in S
    PROVE  Cardinality(UpTo(S, o)) \in 1 .. Cardinality(S)
<1>1. Ordinal \subseteq Nat
  BY OrdinalsNatural
<1>2. UpTo(S, o) \in SUBSET S
  BY DEF UpTo
<1>3. o <= o
  BY <1>1, SMT
<1>4. UpTo(S, o) # {}
  BY <1>3 DEF UpTo
<1>5. IsFiniteSet(S) /\ Cardinality(S) \in Nat
  BY OrdinalsFinite
<1>6. /\ IsFiniteSet(UpTo(S, o)) /\ Cardinality(UpTo(S, o)) <= Cardinality(S)
      /\ Cardinality(UpTo(S, o)) \in Nat
  BY <1>2, <1>5, FS_Subset, FS_CardinalityType
<1>7. Cardinality(UpTo(S, o)) # 0
  BY <1>4, <1>6, FS_EmptySet
<1>8. QED
  BY <1>5, <1>6, <1>7, SMT

(* Every rank up to the size of the set is taken.                          *)
LEMMA RankTaken ==
    ASSUME NEW S \in SUBSET Ordinal, NEW i \in 1 .. Cardinality(S)
    PROVE  \E o \in S : Cardinality(UpTo(S, o)) = i
<1>1. PICK n : n = Cardinality(S)
  OBVIOUS
<1>2. PICK f : f = [o \in S |-> Cardinality(UpTo(S, o))]
  OBVIOUS
<1>3. n \in Nat /\ IsFiniteSet(S)
  BY <1>1, OrdinalsFinite
<1>4. f \in [S -> 1 .. n]
  BY <1>1, <1>2, RankBounds
<1>5. ASSUME NEW o \in S, NEW p \in S, f[o] = f[p] PROVE o = p
  <2>1. o \in Nat /\ p \in Nat
    BY OrdinalsNatural
  <2>2. ASSUME NEW x \in S, NEW y \in S, f[x] = f[y], x < y PROVE FALSE
    <3>1. /\ Cardinality(UpTo(S, x)) \in Nat /\ Cardinality(UpTo(S, y)) \in Nat
          /\ Cardinality(UpTo(S, x)) < Cardinality(UpTo(S, y))
      BY <2>2, RankGrows
    <3>2. Cardinality(UpTo(S, x)) = Cardinality(UpTo(S, y))
      BY <1>2, <2>2
    <3>3. QED
      BY <3>1, <3>2, SMT
  <2>3. o < p \/ p < o \/ o = p
    BY <2>1, SMT
  <2>4. QED
    BY <1>5, <2>2, <2>3
<1>6. f \in Injection(S, 1 .. n)
  BY <1>4, <1>5 DEF Injection, IsInjective
<1>7. IsFiniteSet(1 .. n) /\ Cardinality(1 .. n) = n
  BY <1>3, FS_Interval, SMT
<1>8. f \in Surjection(S, 1 .. n)
  BY <1>1, <1>6, <1>7, FS_Injection
<1>9. QED
  BY <1>1, <1>2, <1>8 DEF Surjection

(* There is an enumeration,                                                *)
LEMMA OrderedEnumerates ==
    ASSUME NEW S \in SUBSET Ordinal PROVE Enumerates(Ordered(S), S)
<1>1. PICK n : n = Cardinality(S)
  OBVIOUS
<1>2. PICK q : q = [i \in 1 .. n |-> CHOOSE o \in S : Cardinality(UpTo(S, o)) = i]
  OBVIOUS
<1>3. ASSUME NEW i \in 1 .. n PROVE q[i] \in S /\ Cardinality(UpTo(S, q[i])) = i
  BY <1>1, <1>2, RankTaken
<1>4. q \in [1 .. n -> S]
  BY <1>2, <1>3
<1>5. ASSUME NEW i \in 1 .. n, NEW j \in 1 .. n, i < j PROVE q[i] < q[j]
  <2>1. i \in Int /\ j \in Int /\ i # j /\ ~(j < i)
    BY <1>5, SMT
  <2>2. q[i] \in S /\ q[j] \in S /\ Cardinality(UpTo(S, q[i])) = i /\ Cardinality(UpTo(S, q[j])) = j
    BY <1>3
  <2>3. q[i] \in Nat /\ q[j] \in Nat
    BY <2>2, OrdinalsNatural
  <2>4. q[i] # q[j]
    BY <2>1, <2>2
  <2>5. ~(q[j] < q[i])
    <3>1. q[j] < q[i] => j < i
      BY <2>2, RankGrows
    <3>2. QED
      BY <2>1, <3>1
  <2>6. QED
    BY <2>3, <2>4, <2>5, SMT
<1>6. q \in [1 .. Cardinality(S) -> S]
      /\ \A i, j \in 1 .. Cardinality(S) : i < j => q[i] < q[j]
  BY <1>1, <1>4, <1>5
<1>7. QED
  BY <1>6 DEF Enumerates, Ordered

(* and only one, since an enumeration lists every element at its rank.     *)
LEMMA EnumerationRank ==
    ASSUME NEW S \in SUBSET Ordinal, NEW q, Enumerates(q, S), NEW i \in 1 .. Cardinality(S)
    PROVE  Cardinality(UpTo(S, q[i])) = i
<1>1. PICK n : n = Cardinality(S)
  OBVIOUS
<1>2. n \in Nat /\ IsFiniteSet(S)
  BY <1>1, OrdinalsFinite
<1>3. /\ q \in [1 .. n -> S] /\ i \in 1 .. n
      /\ \A j, k \in 1 .. n : j < k => q[j] < q[k]
  BY <1>1 DEF Enumerates
<1>4. \A j \in 1 .. n : q[j] \in S /\ q[j] \in Nat
  BY <1>3, OrdinalsNatural
<1>5. \A j, k \in 1 .. n : q[j] = q[k] => j = k
  <2>1. \A j, k \in 1 .. n : j < k \/ k < j \/ j = k
    BY SMT
  <2>2. \A j, k \in 1 .. n : j < k => q[j] # q[k]
    BY <1>3, <1>4, SMT
  <2>3. QED
    BY <2>1, <2>2
<1>6. q \in Injection(1 .. n, S)
  BY <1>3, <1>5 DEF Injection, IsInjective
<1>7. IsFiniteSet(1 .. n) /\ Cardinality(1 .. n) = n /\ IsFiniteSet(1 .. i) /\ Cardinality(1 .. i) = i
  BY <1>2, <1>3, FS_Interval, SMT
<1>8. \A o \in S : \E j \in 1 .. n : q[j] = o
  <2>1. q \in Surjection(1 .. n, S)
    BY <1>1, <1>2, <1>6, <1>7, FS_Injection
  <2>2. QED
    BY <2>1 DEF Surjection
<1>9. PICK T : T = UpTo(S, q[i])
  OBVIOUS
<1>10. PICK g : g = [j \in 1 .. i |-> q[j]]
  OBVIOUS
<1>11. 1 .. i \subseteq 1 .. n
  BY <1>2, <1>3, SMT
<1>12. \A j \in 1 .. n : q[j] <= q[i] <=> j \in 1 .. i
  BY <1>2, <1>3, <1>4, SMT
<1>13. g \in [1 .. i -> T]
  BY <1>4, <1>9, <1>10, <1>11, <1>12 DEF UpTo
<1>14. g \in Injection(1 .. i, T)
  BY <1>5, <1>10, <1>11, <1>13 DEF Injection, IsInjective
<1>15. \A o \in T : \E j \in 1 .. i : g[j] = o
  BY <1>8, <1>9, <1>10, <1>12 DEF UpTo
<1>16. g \in Surjection(1 .. i, T)
  BY <1>13, <1>15 DEF Surjection
<1>17. QED
  BY <1>7, <1>9, <1>14, <1>16, FS_Surjection

LEMMA EnumerationUnique ==
    ASSUME NEW S \in SUBSET Ordinal, NEW q, Enumerates(q, S) PROVE q = Ordered(S)
<1>1. PICK n, t : n = Cardinality(S) /\ t = Ordered(S)
  OBVIOUS
<1>2. Enumerates(t, S)
  BY <1>1, OrderedEnumerates
<1>3. q \in [1 .. n -> S] /\ t \in [1 .. n -> S]
  BY <1>1, <1>2 DEF Enumerates
<1>4. ASSUME NEW i \in 1 .. n PROVE q[i] = t[i]
  <2>1. Cardinality(UpTo(S, q[i])) = i /\ Cardinality(UpTo(S, t[i])) = i
    BY <1>1, <1>2, EnumerationRank
  <2>2. q[i] \in S /\ t[i] \in S /\ q[i] \in Nat /\ t[i] \in Nat
    BY <1>3, OrdinalsNatural
  <2>3. i \in Int
    BY SMT
  <2>4. q[i] < t[i] => i < i
    BY <2>1, <2>2, RankGrows
  <2>5. t[i] < q[i] => i < i
    BY <2>1, <2>2, RankGrows
  <2>6. QED
    BY <2>2, <2>3, <2>4, <2>5, SMT
<1>5. q = t
  <2>1. q = [i \in 1 .. n |-> q[i]] /\ t = [i \in 1 .. n |-> t[i]]
    BY <1>3
  <2>2. QED
    BY <1>4, <2>1
<1>6. QED
  BY <1>1, <1>5

LEMMA OrderedIsSeq ==
    ASSUME NEW S \in SUBSET Ordinal
    PROVE  /\ Ordered(S) \in Seq(Ordinal) /\ Len(Ordered(S)) = Cardinality(S)
           /\ \A i \in 1 .. Cardinality(S) : Ordered(S)[i] \in S
<1>1. PICK n, t : n = Cardinality(S) /\ t = Ordered(S)
  OBVIOUS
<1>2. n \in Nat
  BY <1>1, OrdinalsFinite
<1>3. t \in [1 .. n -> S]
  BY <1>1, OrderedEnumerates DEF Enumerates
<1>4. t \in [1 .. n -> Ordinal] /\ \A i \in 1 .. n : t[i] \in S
  BY <1>3
<1>5. t \in Seq(Ordinal) /\ Len(t) = n
  BY <1>2, <1>4, SMT
<1>6. QED
  BY <1>1, <1>4, <1>5

(* Reading on: what comes after a set of ordinals is appended to it.       *)
LEMMA OrderedJoins ==
    ASSUME NEW A \in SUBSET Ordinal, NEW B \in SUBSET Ordinal, \A a \in A, b \in B : a < b
    PROVE  Ordered(A) \o Ordered(B) = Ordered(A \cup B)
<1>1. PICK m, n, s, t, q : /\ m = Cardinality(A) /\ n = Cardinality(B)
                           /\ s = Ordered(A) /\ t = Ordered(B) /\ q = Ordered(A) \o Ordered(B)
  OBVIOUS
<1>2. m \in Nat /\ n \in Nat /\ IsFiniteSet(A) /\ IsFiniteSet(B)
  BY <1>1, OrdinalsFinite
<1>3. Cardinality(A \cup B) = m + n
  <2>1. A \cap B = {}
    <3>1. ASSUME NEW x \in A, x \in B PROVE FALSE
      <4>1. x < x /\ x \in Nat
        BY <3>1, OrdinalsNatural
      <4>2. QED
        BY <4>1, SMT
    <3>2. QED
      BY <3>1
  <2>2. Cardinality(A \cap B) = 0
    BY <2>1, FS_EmptySet
  <2>3. Cardinality(A \cup B) = Cardinality(A) + Cardinality(B) - Cardinality(A \cap B)
    BY <1>2, FS_Union
  <2>4. QED
    BY <1>1, <1>2, <2>2, <2>3, SMT
<1>4. /\ s \in Seq(Ordinal) /\ Len(s) = m /\ t \in Seq(Ordinal) /\ Len(t) = n
      /\ \A i \in 1 .. m : s[i] \in A
      /\ \A i \in 1 .. n : t[i] \in B
  BY <1>1, OrderedIsSeq
<1>5. /\ \A i, j \in 1 .. m : i < j => s[i] < s[j]
      /\ \A i, j \in 1 .. n : i < j => t[i] < t[j]
  BY <1>1, OrderedEnumerates DEF Enumerates
<1>6. /\ q \in Seq(Ordinal) /\ Len(q) = m + n
      /\ \A i \in 1 .. m + n : q[i] = IF i <= m THEN s[i] ELSE t[i - m]
  BY ONLY <1>1, <1>4, ConcatProperties
<1>7. \A i \in 1 .. m + n : /\ i <= m => i \in 1 .. m /\ q[i] = s[i]
                            /\ ~(i <= m) => i - m \in 1 .. n /\ q[i] = t[i - m]
  BY <1>2, <1>6, SMT
<1>8. \A i \in 1 .. m + n : q[i] \in A \cup B
  BY <1>4, <1>7
<1>9. q \in [1 .. m + n -> A \cup B]
  <2>1. q \in [1 .. Len(q) -> Ordinal]
    BY <1>6, SMT
  <2>2. q = [i \in 1 .. m + n |-> q[i]]
    BY <1>6, <2>1
  <2>3. QED
    BY <1>8, <2>2
<1>10. ASSUME NEW i \in 1 .. m + n, NEW j \in 1 .. m + n, i < j PROVE q[i] < q[j]
  <2>1. CASE j <= m
    <3>1. i <= m
      BY <1>2, <1>10, <2>1, SMT
    <3>2. QED
      BY <1>5, <1>7, <1>10, <2>1, <3>1
  <2>2. CASE ~(j <= m) /\ i <= m
    BY <1>4, <1>7, <2>2
  <2>3. CASE ~(j <= m) /\ ~(i <= m)
    <3>1. i - m < j - m
      BY <1>2, <1>10, SMT
    <3>2. QED
      BY <1>5, <1>7, <2>3, <3>1
  <2>4. QED
    BY <2>1, <2>2, <2>3
<1>11. Enumerates(q, A \cup B)
  BY <1>3, <1>9, <1>10 DEF Enumerates
<1>12. A \cup B \in SUBSET Ordinal
  OBVIOUS
<1>13. QED
  BY <1>1, <1>11, <1>12, EnumerationUnique

LEMMA OrderedNothing == Ordered({}) = << >>
<1>1. Ordered({}) \in Seq(Ordinal) /\ Len(Ordered({})) = 0
  BY OrderedIsSeq, FS_EmptySet
<1>2. QED
  BY <1>1, SMT

(* A beginning of a set lists first.                                       *)
LEMMA OrderedBegins ==
    ASSUME NEW A \in SUBSET Ordinal, NEW B \in SUBSET Ordinal, \A a \in A, b \in B : a < b
    PROVE  Ordered(A) = SubSeq(Ordered(A \cup B), 1, Len(Ordered(A)))
<1>1. PICK s, t, q : s = Ordered(A) /\ t = Ordered(B) /\ q = Ordered(A \cup B)
  OBVIOUS
<1>2. s \in Seq(Ordinal) /\ t \in Seq(Ordinal)
  BY <1>1, OrderedIsSeq
<1>3. q = s \o t
  BY <1>1, OrderedJoins
<1>4. /\ Len(q) = Len(s) + Len(t) /\ q \in Seq(Ordinal) /\ Len(s) \in Nat /\ Len(t) \in Nat
      /\ \A i \in 1 .. Len(s) + Len(t) : q[i] = IF i <= Len(s) THEN s[i] ELSE t[i - Len(s)]
  <2>1. Len(s) \in Nat /\ Len(t) \in Nat
    BY <1>2, SMT
  <2>2. QED
    BY ONLY <1>2, <1>3, <2>1, ConcatProperties
<1>5. \A i \in 1 .. Len(s) : q[i] = s[i] /\ q[i] \in Ordinal
  <2>1. \A i \in 1 .. Len(s) : i \in 1 .. Len(s) + Len(t) /\ i <= Len(s)
    BY <1>4, SMT
  <2>2. \A i \in 1 .. Len(s) : s[i] \in Ordinal
    BY <1>2, ElementOfSeq
  <2>3. QED
    BY <1>4, <2>1, <2>2
<1>6. PICK u : u = SubSeq(q, 1, Len(s))
  OBVIOUS
<1>7. /\ u \in Seq(Ordinal) /\ Len(u) = (IF 1 <= Len(s) THEN Len(s) - 1 + 1 ELSE 0)
      /\ \A i \in 1 .. Len(s) - 1 + 1 : u[i] = q[1 + i - 1]
  <2>1. 1 \in Int /\ Len(s) \in Int
    BY <1>4, SMT
  <2>2. QED
    BY ONLY <1>5, <1>6, <2>1, SubSeqProperties
<1>8. Len(u) = Len(s) /\ \A i \in 1 .. Len(s) : u[i] = s[i]
  BY <1>4, <1>5, <1>7, SMT
<1>9. u = s
  BY <1>2, <1>7, <1>8, SeqEqual
<1>10. QED
  BY <1>1, <1>6, <1>9

(* What the policies selected when a fence was issued, and that the lower  *)
(* end of the fence says the same.                                         *)
Retained(f) == {o \in Ordinal : f.history[o] # Null /\ retains(f.cutoff, f.history[o])}
Selection(f) == IF f.policy = All THEN Retained(f) ELSE Newest(2 * f.policy, Retained(f))
Selects(f) == f.lower \in Int /\ \A o \in Retained(f) : o \in Selection(f) <=> o >= f.lower

(* A reader has read the selection up to its cursor.                       *)
ReadSoFar(d) ==
    d.state # "idle" =>
        /\ Selects(d.fence) /\ d.after \in Int
        /\ d.got = Ordered(UpTo(Selection(d.fence), d.after))
        /\ d.state = "finished" => UpTo(Selection(d.fence), d.after) = Selection(d.fence)

PagesInv == \A r \in Reader : ReadSoFar(reader[r])

LEMMA SelectionOrdinals ==
    ASSUME NEW f PROVE Selection(f) \in SUBSET Retained(f) /\ Retained(f) \in SUBSET Ordinal
BY DEF Selection, Retained, Newest

(* The last n elements of a set begin at the element that has n - 1 after  *)
(* it.                                                                     *)
LEMMA RankFromAbove ==
    ASSUME NEW S \in SUBSET Ordinal, NEW o \in S
    PROVE  /\ Cardinality({p \in S : p >= o}) \in Nat
           /\ Cardinality({p \in S : p >= o}) = Cardinality(S) - Cardinality(UpTo(S, o)) + 1
<1>1. PICK A, B : A = UpTo(S, o) /\ B = {p \in S : p >= o}
  OBVIOUS
<1>2. o \in Nat /\ S \subseteq Nat
  BY OrdinalsNatural
<1>3. A \cup B = S /\ A \cap B = {o}
  <2>1. \A p \in S : (p <= o \/ p >= o) /\ (p <= o /\ p >= o <=> p = o)
    BY <1>2, SMT
  <2>2. QED
    BY <1>1, <2>1 DEF UpTo
<1>4. A \in SUBSET Ordinal /\ B \in SUBSET Ordinal
  BY <1>1 DEF UpTo
<1>5. /\ IsFiniteSet(A) /\ IsFiniteSet(B)
      /\ Cardinality(A) \in Nat /\ Cardinality(B) \in Nat /\ Cardinality(S) \in Nat
  BY <1>4, OrdinalsFinite
<1>6. Cardinality(A \cup B) = Cardinality(A) + Cardinality(B) - Cardinality(A \cap B)
  BY <1>5, FS_Union
<1>7. Cardinality({o}) = 1
  BY FS_Singleton
<1>8. Cardinality(S) = Cardinality(A) + Cardinality(B) - 1
  BY <1>3, <1>6, <1>7
<1>9. Cardinality(B) = Cardinality(S) - Cardinality(A) + 1
  BY <1>5, <1>8, SMT
<1>10. QED
  BY <1>1, <1>5, <1>9

LEMMA NewestBegins ==
    ASSUME NEW S \in SUBSET Ordinal, NEW n \in Nat, NEW l \in S,
           Cardinality({p \in S : p >= l}) = n, NEW o \in S
    PROVE  o \in Newest(n, S) <=> o >= l
<1>1. PICK c, u, v : c = Cardinality(S) /\ u = Cardinality(UpTo(S, l)) /\ v = Cardinality(UpTo(S, o))
  OBVIOUS
<1>2. c \in Nat /\ u \in 1 .. c /\ v \in 1 .. c
  BY <1>1, OrdinalsFinite, RankBounds
<1>3. n = c - u + 1 /\ Cardinality({p \in S : p >= o}) = c - v + 1
  BY <1>1, RankFromAbove
<1>4. o \in Newest(n, S) <=> Cardinality({p \in S : p >= o}) <= n
  BY DEF Newest
<1>5. Cardinality({p \in S : p >= o}) <= n <=> u <= v
  BY ONLY <1>2, <1>3, SMT
<1>6. l \in Nat /\ o \in Nat
  BY OrdinalsNatural
<1>7. l < o => u < v
  BY <1>1, RankGrows
<1>8. o < l => v < u
  BY <1>1, RankGrows
<1>9. l = o => u = v
  BY <1>1
<1>10. u <= v <=> o >= l
  BY ONLY <1>2, <1>6, <1>7, <1>8, <1>9, SMT
<1>11. QED
  BY <1>4, <1>5, <1>10

LEMMA IssueSelects ==
    ASSUME NEW s, SessionOK(s), NEW policy \in Policy PROVE Selects(issue(s, policy))
<1>1. PICK f, cutoff : f = issue(s, policy) /\ cutoff = RetainedAfter(s.config)
  OBVIOUS
<1>2. /\ f.cutoff = cutoff /\ f.policy = policy /\ f.history = s.messages
      /\ f.lower = IF policy = All THEN 0 ELSE context_lower(s, policy, cutoff)
  BY <1>1, SMT DEF issue
<1>3. PICK K : K = Retained(f)
  OBVIOUS
<1>4. K = {o \in Stored(s) : retains(cutoff, s.messages[o])}
  BY <1>2, <1>3 DEF Retained, Stored
<1>5. K \in SUBSET Ordinal /\ \A o \in K : o \in Nat /\ o <= s.last
  BY <1>3, <1>4, OrdinalsNatural DEF Retained, SessionOK
<1>6. Cardinality(K) \in Nat /\ IsFiniteSet(K) /\ s.last \in Int
  <2>1. s.last \in -1 .. MaxOrdinal
    BY DEF SessionOK
  <2>2. s.last \in Int
    BY <2>1, SessionAssumption, SMT
  <2>3. QED
    BY <1>5, <2>2, OrdinalsFinite
<1>7. CASE policy = All
  <2>1. f.lower = 0 /\ Selection(f) = K
    BY <1>2, <1>3, <1>7 DEF Selection
  <2>2. f.lower \in Int /\ \A o \in K : o >= 0
    BY <1>5, <2>1, SMT
  <2>3. QED
    BY <1>1, <1>3, <2>1, <2>2 DEF Selects
<1>8. CASE policy # All
  <2>1. policy \in Nat
    BY <1>8, SessionAssumption
  <2>2. PICK n : n = 2 * policy
    OBVIOUS
  <2>3. n \in Nat /\ (policy = 0 <=> n = 0)
    BY <2>1, <2>2, SMT
  <2>4. Selection(f) = Newest(n, K) /\ f.lower = context_lower(s, policy, cutoff)
    BY <1>2, <1>3, <1>8, <2>2 DEF Selection
  <2>5. f.lower = IF policy = 0 THEN s.last + 1 ELSE IF Cardinality(K) < n THEN 0
                  ELSE CHOOSE o \in K : Cardinality({p \in K : p >= o}) = n
    BY <1>4, <2>2, <2>4 DEF context_lower
  <2>6. CASE policy = 0
    <3>1. f.lower = s.last + 1 /\ n = 0
      BY <2>3, <2>5, <2>6
    <3>2. ASSUME NEW o \in K PROVE o \notin Newest(n, K) /\ ~(o >= s.last + 1)
      <4>1. Cardinality(UpTo(K, o)) \in 1 .. Cardinality(K)
        BY <1>5, RankBounds
      <4>2. Cardinality({p \in K : p >= o}) = Cardinality(K) - Cardinality(UpTo(K, o)) + 1
        BY <1>5, RankFromAbove
      <4>3. ~(Cardinality({p \in K : p >= o}) <= n)
        BY ONLY <1>6, <3>1, <4>1, <4>2, SMT
      <4>4. o \in Nat /\ o <= s.last
        BY <1>5
      <4>5. ~(o >= s.last + 1)
        BY ONLY <1>6, <4>4, SMT
      <4>6. QED
        BY <4>3, <4>5 DEF Newest
    <3>3. s.last + 1 \in Int
      BY <1>6, SMT
    <3>4. QED
      BY <1>1, <1>3, <2>4, <3>1, <3>2, <3>3 DEF Selects
  <2>7. CASE policy # 0 /\ Cardinality(K) < n
    <3>1. f.lower = 0
      BY <2>5, <2>7
    <3>2. ASSUME NEW o \in K PROVE o \in Newest(n, K) /\ o >= 0
      <4>1. Cardinality(UpTo(K, o)) \in 1 .. Cardinality(K)
        BY <1>5, RankBounds
      <4>2. Cardinality({p \in K : p >= o}) = Cardinality(K) - Cardinality(UpTo(K, o)) + 1
        BY <1>5, RankFromAbove
      <4>3. Cardinality({p \in K : p >= o}) <= n
        BY ONLY <1>6, <2>3, <2>7, <4>1, <4>2, SMT
      <4>4. o \in Nat
        BY <1>5
      <4>5. o >= 0
        BY <4>4, SMT
      <4>6. QED
        BY <4>3, <4>5 DEF Newest
    <3>3. 0 \in Int
      BY SMT
    <3>4. QED
      BY <1>1, <1>3, <2>4, <3>1, <3>2, <3>3 DEF Selects
  <2>8. CASE policy # 0 /\ ~(Cardinality(K) < n)
    <3>1. f.lower = CHOOSE o \in K : Cardinality({p \in K : p >= o}) = n
      BY <2>5, <2>8
    <3>2. \E o \in K : Cardinality({p \in K : p >= o}) = n
      <4>1. PICK i : i = Cardinality(K) - n + 1
        OBVIOUS
      <4>2. i \in 1 .. Cardinality(K) /\ Cardinality(K) - i + 1 = n
        BY <1>6, <2>3, <2>8, <4>1, SMT
      <4>3. PICK o \in K : Cardinality(UpTo(K, o)) = i
        BY <1>5, <4>2, RankTaken
      <4>4. QED
        BY <1>5, <4>2, <4>3, RankFromAbove
    <3>3. f.lower \in K /\ Cardinality({p \in K : p >= f.lower}) = n
      BY <3>1, <3>2
    <3>4. \A o \in K : o \in Newest(n, K) <=> o >= f.lower
      BY <1>5, <2>3, <3>3, NewestBegins
    <3>5. f.lower \in Nat
      BY <1>5, <3>3
    <3>6. f.lower \in Int
      BY <3>5, SMT
    <3>7. QED
      BY <1>1, <1>3, <2>4, <3>4, <3>6 DEF Selects
  <2>9. QED
    BY <2>6, <2>7, <2>8
<1>9. QED
  BY <1>7, <1>8

(* While the generation of a fence lasts, a page is the next part of the   *)
(* selection, and the last page is the rest of it.                         *)
LEMMA PageIsNext ==
    ASSUME NEW s, NEW f, NEW after \in Int, SessionOK(s), FenceOK(f, s), Selects(f),
           f.generation = s.generation
    PROVE  LET rest == {o \in Selection(f) : o > after}
           IN  /\ Page(s, f, after).messages = Oldest(PageSize, rest)
               /\ ~Page(s, f, after).more => Oldest(PageSize, rest) = rest
<1>1. PICK rest, rows, left : /\ rest = {o \in Selection(f) : o > after}
                              /\ rows = {o \in Stored(s) : o > after /\ o >= f.lower /\ o <= f.upper}
                              /\ left = {o \in rows : retains(f.cutoff, s.messages[o])}
  OBVIOUS
<1>2. Selection(f) \in SUBSET Retained(f) /\ Retained(f) \in SUBSET Ordinal
  BY SelectionOrdinals
<1>3. f.upper \in Int
  <2>1. f.upper \in -1 .. s.last /\ s.last \in -1 .. MaxOrdinal
    BY DEF FenceOK, SessionOK
  <2>2. QED
    BY <2>1, SessionAssumption, SMT
<1>4. \A o \in Ordinal : o <= f.upper \/ o > f.upper
  BY <1>3, OrdinalsNatural, SMT
<1>5. \A o \in Ordinal : o <= f.upper => s.messages[o] = f.history[o]
  BY DEF FenceOK
<1>6. \A o \in Ordinal : o > f.upper => f.history[o] = Null
  BY DEF FenceOK
<1>7. ASSUME NEW o \in left PROVE o \in rest
  <2>1. /\ o \in Ordinal /\ s.messages[o] # Null /\ o > after /\ o >= f.lower /\ o <= f.upper
        /\ retains(f.cutoff, s.messages[o])
    BY <1>1 DEF Stored
  <2>2. o \in Retained(f)
    BY <1>5, <2>1 DEF Retained
  <2>3. QED
    BY <1>1, <2>1, <2>2 DEF Selects
<1>8. ASSUME NEW o \in rest PROVE o \in left
  <2>1. /\ o \in Ordinal /\ o \in Retained(f) /\ o > after /\ o \in Selection(f)
        /\ f.history[o] # Null /\ retains(f.cutoff, f.history[o])
    BY <1>1, <1>2 DEF Retained
  <2>2. o <= f.upper /\ s.messages[o] = f.history[o]
    BY <1>4, <1>5, <1>6, <2>1
  <2>3. o >= f.lower
    BY <2>1 DEF Selects
  <2>4. QED
    BY <1>1, <2>1, <2>2, <2>3 DEF Stored
<1>9. left = rest
  BY <1>7, <1>8
<1>10. PICK seen : seen = Oldest(PageSize + 1, left)
  OBVIOUS
<1>11. PICK page : page = [messages |-> Oldest(PageSize, left), more |-> Cardinality(seen) > PageSize,
                           visited |-> IF Cardinality(seen) > PageSize
                                       THEN {o \in rows : o <= MaxOf(seen)} ELSE rows]
  OBVIOUS
<1>12. Page(s, f, after) = page
  BY <1>1, <1>10, <1>11 DEF Page
<1>13. page.messages = Oldest(PageSize, left) /\ page.more = (Cardinality(seen) > PageSize)
  BY <1>11, SMT
<1>14. rest \in SUBSET Ordinal /\ PageSize \in Nat /\ PageSize + 1 \in Nat
  BY <1>1, <1>2, SessionAssumption, SMT
<1>15. ASSUME ~(Cardinality(seen) > PageSize) PROVE Oldest(PageSize, rest) = rest
  <2>1. /\ seen \in SUBSET rest
        /\ Cardinality(seen) < PageSize + 1 => seen = rest
    BY <1>9, <1>10, <1>14, OldestBound
  <2>2. Cardinality(seen) \in Nat
    BY <1>14, <2>1, OrdinalsFinite
  <2>3. Cardinality(seen) < PageSize + 1 /\ Cardinality(seen) <= PageSize
    BY <1>14, <1>15, <2>2, SMT
  <2>4. seen = rest
    BY <2>1, <2>3
  <2>5. ASSUME NEW o \in rest PROVE Cardinality({p \in rest : p <= o}) <= PageSize
    <3>1. Cardinality(UpTo(rest, o)) \in 1 .. Cardinality(rest)
      BY <1>14, RankBounds
    <3>2. Cardinality(UpTo(rest, o)) <= PageSize
      BY <1>14, <2>2, <2>3, <2>4, <3>1, SMT
    <3>3. QED
      BY <3>2 DEF UpTo
  <2>6. QED
    BY <2>5 DEF Oldest
<1>16. QED
  BY <1>1, <1>9, <1>12, <1>13, <1>15

(* After a page the cursor is at its last message, and what was read is    *)
(* the selection up to there.                                              *)
ReadOn(S, after, page, next) ==
    /\ next \in Int
    /\ Ordered(UpTo(S, after)) \o Ordered(page) = Ordered(UpTo(S, next))
    /\ page = {o \in S : o > after} => UpTo(S, next) = S

LEMMA CursorMoves ==
    ASSUME NEW S \in SUBSET Ordinal, NEW after \in Int, NEW n \in Nat,
           NEW page, page = Oldest(n, {o \in S : o > after}),
           NEW next, next = (IF page = {} THEN after ELSE MaxOf(page))
    PROVE  ReadOn(S, after, page, next)
<1>1. PICK rest : rest = {o \in S : o > after}
  OBVIOUS
<1>2. S \subseteq Nat /\ rest \in SUBSET Ordinal /\ rest \subseteq S
  BY <1>1, OrdinalsNatural
<1>3. page \in SUBSET rest /\ page \in SUBSET Ordinal
  <2>1. page \in SUBSET rest
    BY <1>1, <1>2, OldestBound
  <2>2. QED
    BY <1>2, <2>1
<1>4. UpTo(S, after) \in SUBSET Ordinal
  BY DEF UpTo
<1>5. next \in Int /\ UpTo(S, next) = UpTo(S, after) \cup page
  <2>1. CASE page = {}
    BY <2>1
  <2>2. CASE page # {}
    <3>1. next = MaxOf(page) /\ next \in page /\ \A o \in page : o <= next
      BY <1>3, <2>2, MaxOfIsGreatest
    <3>2. next \in Nat /\ next \in rest /\ next > after
      BY <1>1, <1>2, <1>3, <3>1
    <3>3. next \in Int
      BY <3>2, SMT
    <3>4. ASSUME NEW o \in S, o <= next, ~(o <= after) PROVE o \in page
      <4>1. o > after
        BY <1>2, <3>4, SMT
      <4>2. o \in rest
        BY <1>1, <4>1
      <4>3. QED
        BY <1>1, <1>2, <3>1, <3>4, <4>2, OldestIsBeginning
    <3>5. ASSUME NEW o \in S, o <= after PROVE o <= next
      BY <1>2, <3>2, <3>5, SMT
    <3>6. page \subseteq S
      BY <1>2, <1>3
    <3>7. QED
      BY <3>1, <3>3, <3>4, <3>5, <3>6 DEF UpTo
  <2>3. QED
    BY <2>1, <2>2
<1>6. ASSUME NEW a \in UpTo(S, after), NEW b \in page PROVE a < b
  <2>1. a \in Nat /\ a <= after /\ b \in Nat /\ b > after
    BY <1>1, <1>2, <1>3 DEF UpTo
  <2>2. QED
    BY ONLY <2>1, after \in Int, SMT
<1>7. Ordered(UpTo(S, after)) \o Ordered(page) = Ordered(UpTo(S, after) \cup page)
  BY <1>3, <1>4, <1>6, OrderedJoins
<1>8. ASSUME page = rest PROVE UpTo(S, after) \cup page = S
  <2>1. \A o \in S : o <= after \/ o > after
    BY <1>2, SMT
  <2>2. QED
    BY <1>1, <1>8, <2>1 DEF UpTo
<1>9. QED
  BY <1>1, <1>5, <1>7, <1>8 DEF ReadOn

LEMMA ShowReads ==
    ASSUME SessionOK(session), reader = [q \in Reader |-> reader[q]],
           NEW r \in Reader, NEW f, NEW after \in Int, NEW got, Show(r, f, after, got),
           FenceOK(f, session), Selects(f), f.generation = session.generation,
           got = Ordered(UpTo(Selection(f), after))
    PROVE  ReadSoFar(reader'[r])
<1>1. PICK S, page, more, visited : /\ S = Selection(f)
                           /\ page = Page(session, f, after).messages
                           /\ more = Page(session, f, after).more
                           /\ visited = Page(session, f, after).visited
  OBVIOUS
<1>2. PICK next : next = IF page = {} THEN after ELSE MaxOf(page)
  OBVIOUS
<1>3. S \in SUBSET Ordinal /\ PageSize \in Nat
  BY <1>1, SelectionOrdinals, SessionAssumption
<1>4. /\ page = Oldest(PageSize, {o \in S : o > after})
      /\ ~more => page = {o \in S : o > after}
  BY <1>1, PageIsNext
<1>5. /\ next \in Int
      /\ Ordered(UpTo(S, after)) \o Ordered(page) = Ordered(UpTo(S, next))
      /\ ~more => UpTo(S, next) = S
  <2>1. ReadOn(S, after, page, next)
    BY ONLY <1>2, <1>3, <1>4, after \in Int, CursorMoves
  <2>2. QED
    BY <1>4, <2>1 DEF ReadOn
<1>6. PICK R : R = IF Cardinality(visited) > MaxScan
                   THEN [state |-> "failed", fence |-> f, after |-> after, got |-> got]
                   ELSE [state |-> IF more THEN "paging" ELSE "finished", fence |-> f,
                         after |-> next, got |-> got \o Ordered(page)]
  OBVIOUS
<1>7. reader' = [reader EXCEPT ![r] = R]
  BY <1>1, <1>2, <1>6 DEF Show
<1>8. reader'[r] = R
  BY <1>7
<1>9. ASSUME NEW st, NEW af, NEW gt, R = [state |-> st, fence |-> f, after |-> af, got |-> gt]
      PROVE  R.after = af /\ R.got = gt /\ R.state = st /\ R.fence = f
  BY ONLY <1>9, SMT
<1>10. CASE Cardinality(visited) > MaxScan
  <2>1. R = [state |-> "failed", fence |-> f, after |-> after, got |-> got]
    BY <1>6, <1>10
  <2>2. R.after = after /\ R.got = got /\ R.state = "failed" /\ R.fence = f
    BY <1>9, <2>1
  <2>3. QED
    BY <1>1, <1>8, <2>2 DEF ReadSoFar
<1>11. CASE ~(Cardinality(visited) > MaxScan)
  <2>1. PICK st : st = IF more THEN "paging" ELSE "finished"
    OBVIOUS
  <2>2. R = [state |-> st, fence |-> f, after |-> next, got |-> got \o Ordered(page)]
    BY <1>6, <1>11, <2>1
  <2>3. R.after = next /\ R.got = got \o Ordered(page) /\ R.state = st /\ R.fence = f
    BY <1>9, <2>2
  <2>4. st = "finished" => ~more
    BY <2>1
  <2>5. QED
    BY <1>1, <1>5, <1>8, <2>3, <2>4 DEF ReadSoFar
<1>12. QED
  BY <1>10, <1>11

(* load starts below its selection, next_page goes on where the cursor is, *)
(* and nothing else touches a reader.                                      *)
LEMMA PagesStep == SessionInv /\ PagesInv /\ [SessionNext]_sessionVars => PagesInv'
<1> SUFFICES ASSUME SessionInv, PagesInv, [SessionNext]_sessionVars PROVE PagesInv'
  OBVIOUS
<1>1. SessionOK(session) /\ reader = [q \in Reader |-> reader[q]] /\ \A q \in Reader : ReaderInv(q)
  BY DEF SessionInv
<1>2. CASE reader' = reader
  BY <1>2 DEF PagesInv
<1>3. ASSUME NEW r \in Reader, NEW p \in Policy, load(r, p) PROVE PagesInv'
  <2>1. PICK f : f = issue(session, p)
    OBVIOUS
  <2>2. Show(r, f, f.lower - 1, <<>>)
    BY <1>3, <2>1 DEF load
  <2>3. FenceOK(f, session) /\ Selects(f)
    BY <1>1, <2>1, IssuedFence, IssueSelects
  <2>4. f.generation = session.generation
    BY <2>1, SMT DEF issue
  <2>5. f.lower - 1 \in Int /\ \A o \in Ordinal : o >= f.lower => ~(o <= f.lower - 1)
    BY <2>3, OrdinalsNatural, SMT DEF Selects
  <2>6. UpTo(Selection(f), f.lower - 1) = {}
    BY <2>3, <2>5, SelectionOrdinals DEF UpTo, Selects
  <2>7. <<>> = Ordered(UpTo(Selection(f), f.lower - 1))
    BY <2>6, OrderedNothing
  <2>8. ReadSoFar(reader'[r])
    BY <1>1, <2>2, <2>3, <2>4, <2>5, <2>7, ShowReads
  <2>9. \A q \in Reader \ {r} : reader'[q] = reader[q]
    BY <1>1, <2>2, ShowReader
  <2>10. QED
    BY <2>8, <2>9 DEF PagesInv
<1>4. ASSUME NEW r \in Reader, next_page(r), decodes(reader[r].fence, session) PROVE PagesInv'
  <2>1. PICK R : R = reader[r]
    OBVIOUS
  <2>2. R.state = "paging" /\ Show(r, R.fence, R.after, R.got)
    BY <1>4, <2>1 DEF next_page
  <2>3. /\ Selects(R.fence) /\ R.after \in Int
        /\ R.got = Ordered(UpTo(Selection(R.fence), R.after))
    BY <2>1, <2>2 DEF PagesInv, ReadSoFar
  <2>4. FenceOK(R.fence, session)
    BY <1>1, <2>1, <2>2 DEF ReaderInv
  <2>5. R.fence.generation = session.generation
    BY <1>4, <2>1 DEF decodes
  <2>6. ReadSoFar(reader'[r])
    BY <1>1, <2>2, <2>3, <2>4, <2>5, ShowReads
  <2>7. \A q \in Reader \ {r} : reader'[q] = reader[q]
    BY <1>1, <2>2, ShowReader
  <2>8. QED
    BY <2>6, <2>7 DEF PagesInv
<1>5. ASSUME NEW r \in Reader, next_page(r), ~decodes(reader[r].fence, session) PROVE PagesInv'
  <2>1. PICK R, N : R = reader[r] /\ N = [R EXCEPT !.state = "failed"]
    OBVIOUS
  <2>2. reader' = [reader EXCEPT ![r] = N] /\ R.state = "paging"
    BY <1>5, <2>1 DEF next_page
  <2>3. R = [i \in ReaderFields |-> R[i]]
    BY <1>1, <2>1 DEF ReaderInv
  <2>4. N.state = "failed" /\ N.fence = R.fence /\ N.after = R.after /\ N.got = R.got
    BY <2>1, <2>3 DEF ReaderFields
  <2>5. reader'[r] = N /\ \A q \in Reader \ {r} : reader'[q] = reader[q]
    BY <1>1, <2>2
  <2>6. ReadSoFar(N)
    BY <2>1, <2>2, <2>4 DEF PagesInv, ReadSoFar
  <2>7. QED
    BY <2>5, <2>6 DEF PagesInv
<1>6. \/ reader' = reader
      \/ \E r \in Reader : next_page(r) \/ \E p \in Policy : load(r, p)
  <2>1. CASE SessionNext
    BY <2>1 DEF SessionNext, resolve, append, SessionTick, Ask, LockedWrite, CheckWindow, Transact,
                reconcile, Answer
  <2>2. CASE UNCHANGED sessionVars
    BY <2>2 DEF sessionVars
  <2>3. QED
    BY <2>1, <2>2
<1>7. QED
  BY <1>2, <1>3, <1>4, <1>5, <1>6

LEMMA PagesInitially == SessionInit => PagesInv
<1> SUFFICES ASSUME SessionInit PROVE PagesInv
  OBVIOUS
<1>1. NoRead.state = "idle"
  BY SMT DEF NoRead
<1>2. \A r \in Reader : reader[r] = NoRead
  BY DEF SessionInit
<1>3. QED
  BY <1>1, <1>2 DEF PagesInv, ReadSoFar

LEMMA PagesShow == PagesInv => PagesAreOneSnapshot
<1> SUFFICES ASSUME PagesInv PROVE PagesAreOneSnapshot
  OBVIOUS
<1>1. ASSUME NEW r \in Reader, reader[r].state # "idle"
      PROVE  /\ reader[r].got = SubSeq(Ordered(Selection(reader[r].fence)), 1, Len(reader[r].got))
             /\ reader[r].state = "finished" => reader[r].got = Ordered(Selection(reader[r].fence))
  <2>1. PICK R, S, A : R = reader[r] /\ S = Selection(R.fence) /\ A = UpTo(S, R.after)
    OBVIOUS
  <2>2. R.after \in Int /\ R.got = Ordered(A) /\ (R.state = "finished" => A = S)
    BY <1>1, <2>1 DEF PagesInv, ReadSoFar
  <2>3. S \in SUBSET Ordinal /\ S \subseteq Nat
    BY <2>1, SelectionOrdinals, OrdinalsNatural
  <2>4. A \in SUBSET Ordinal /\ S \ A \in SUBSET Ordinal /\ A \cup (S \ A) = S
    BY <2>1, <2>3 DEF UpTo
  <2>5. ASSUME NEW a \in A, NEW b \in S \ A PROVE a < b
    <3>1. a \in Nat /\ b \in Nat /\ a <= R.after /\ ~(b <= R.after)
      BY <2>1, <2>3 DEF UpTo
    <3>2. QED
      BY <2>2, <3>1, SMT
  <2>6. Ordered(A) = SubSeq(Ordered(A \cup (S \ A)), 1, Len(Ordered(A)))
    BY <2>4, <2>5, OrderedBegins
  <2>7. QED
    BY <2>1, <2>2, <2>4, <2>6
<1>2. QED
  BY <1>1 DEF PagesAreOneSnapshot, Selection, Retained

(* The pages of one selection are one snapshot, whatever is appended       *)
(* between them: a sweep or a publication changes the generation, and then *)
(* the cursor is refused (load, next_page, HistoryCursor::decode).         *)
THEOREM SnapshotsAreWhole == SessionSpec => []PagesAreOneSnapshot
<1>1. SessionInit => SessionInv /\ PagesInv
  BY SessionInitially, PagesInitially
<1>2. SessionInv /\ PagesInv /\ [SessionNext]_sessionVars => SessionInv' /\ PagesInv'
  BY SessionStep, PagesStep
<1>3. QED
  BY <1>1, <1>2, PagesShow, PTL DEF SessionSpec
=============================================================================
