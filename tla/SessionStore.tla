----------------------------- MODULE SessionStore -----------------------------
(***************************************************************************)
(* The history of one session, as kept by the in-memory client             *)
(* (session/in_memory.rs) and by the SQLite client (session/sqlite).       *)
(*                                                                         *)
(* Callers resolve the session, append messages, read the history page by  *)
(* page, publish a context they derived from what they read, and sweep     *)
(* messages past retention.  What a caller read may have changed when it   *)
(* comes back: cursors and fences tell.                                    *)
(*                                                                         *)
(* The in-memory client does each operation under one lock.  The SQLite    *)
(* client looks at the clock first and does the rest in one transaction,   *)
(* which may fail, or report a failure although it took effect.  The way   *)
(* of a request to the connection is in SqliteMemory and is the same here. *)
(***************************************************************************)
EXTENDS StorageReceipts, Integers, Sequences, FiniteSets

CONSTANTS
    Caller, Reader,
    Message,            \* [id, dedup, created, body]
    Bare,               \* the configurations and messages that are sent without a key
    Config,             \* [days]: Forever, or the days of RetentionPolicy::Days
    Policy,             \* ContextPolicy: All, or the number of last turns
    Content,            \* texts a caller may publish
    Wants,              \* the kinds of request and the keys a caller may use
    DedupKey, Forever, All, Null,
    PageSize, ScanLimit,
    MaxScan,            \* max_scan_rows
    MaxSessionReceipts, \* max_receipts
    MaxOrdinal          \* bound of the ordinals

(* Retry repeats the request of a key, Reconcile asks what became of it.   *)
Wish == {"Resolve", "Append", "Publish", "Retain", "Retry", "Reconcile"}

ASSUME SessionAssumption ==
    /\ {PageSize, ScanLimit, MaxScan, MaxSessionReceipts} \subseteq Nat \ {0} /\ MaxOrdinal \in Nat
    /\ \A m \in Message : m.created \in Int /\ m.dedup \in DedupKey \cup {Null}
    /\ \A c \in Config : c.days \in Nat \cup {Forever}
    /\ \A c \in Caller : Wants[c] \subseteq Wish \X Key
    /\ Policy \subseteq Nat \cup {All} /\ All \notin Nat /\ Forever \notin Nat
    /\ Null \notin Int /\ Null \notin Config \cup Message \cup DedupKey

VARIABLES
    backend,    \* which of the two clients
    session,    \* SessionState, or the rows of the session in the tables
    reader,     \* who reads the history: the fence, the cursor, the ordinals read
    wanted,     \* the request of a caller
    stage,      \* how far it has come
    told,       \* the receipt it was answered with, or Null
    did         \* history: the receipt its own transaction wrote

sessionVars == <<backend, session, reader, wanted, stage, told, did, now>>

Ordinal == 0 .. MaxOrdinal
Table == {"write", "context", "retention"}
TableOf(kind) == CASE kind \in {"Resolve", "Append"} -> "write"
                   [] kind = "Publish" -> "context"
                   [] kind = "Retain" -> "retention"

(* The first n elements of a set of ordinals, and the set as a sequence.   *)
Oldest(n, S) == {o \in S : Cardinality({p \in S : p <= o}) <= n}
Newest(n, S) == {o \in S : Cardinality({p \in S : p >= o}) <= n}
Ordered(S) == CHOOSE q \in [1 .. Cardinality(S) -> S] :
                 \A i, j \in 1 .. Cardinality(S) : i < j => q[i] < q[j]
MaxOf(S) == CHOOSE o \in S : \A p \in S : p <= o

Stored(s) == {o \in Ordinal : s.messages[o] # Null}

-----------------------------------------------------------------------------
(* Retention, cursors and fences *)

(* The oldest time a policy retains now.                                   *)
RetainedAfter(c) == IF c.days = Forever THEN Null ELSE now - c.days

retains(cutoff, m) == cutoff = Null \/ m.created >= cutoff

expired(cutoff, m) == cutoff # Null /\ m.created < cutoff

(* context_lower: the ordinal at which the last n turns begin, a turn      *)
(* being two messages; 0 if there are not that many.                       *)
context_lower(s, n, cutoff) ==
    LET kept == {o \in Stored(s) : retains(cutoff, s.messages[o])}
    IN  IF n = 0 THEN s.last + 1
        ELSE IF Cardinality(kept) < 2 * n THEN 0
        ELSE CHOOSE o \in kept : Cardinality({p \in kept : p >= o}) = 2 * n

(* SessionHistoryFence::issue for a new selection.  history is not in the  *)
(* token: it is what the messages were, for the properties to refer to.    *)
issue(s, policy) ==
    LET cutoff == RetainedAfter(s.config)
    IN  [upper |-> s.last, cutoff |-> cutoff,
         lower |-> IF policy = All THEN 0 ELSE context_lower(s, policy, cutoff),
         generation |-> s.generation, version |-> s.version,
         policy |-> policy, history |-> s.messages]

(* Mutant of is_current: the length of the history is not compared.        *)
IgnoresAppends(f, s) == f.generation = s.generation /\ f.version = s.version

(* There is one incarnation of the session, so it is not compared.         *)
is_current(f, s) == f.generation = s.generation /\ f.upper = s.last /\ f.version = s.version

(* HistoryCursor::decode: the seal covers the generation.                  *)
decodes(f, s) == f.generation = s.generation /\ f.upper <= s.last

-----------------------------------------------------------------------------
(* What each write does to the session *)

Receipt(r, kind, ordinal, id, flag, next) ==
    [request |-> r, kind |-> kind, ordinal |-> ordinal, id |-> id, flag |-> flag, next |-> next]
Failed(s) == [ok |-> FALSE, session |-> s, receipt |-> Null]
Done(s, receipt) == [ok |-> TRUE, session |-> s, receipt |-> receipt]

NoMessages == [o \in Ordinal |-> Null]
NoReceipts == [t \in Table |-> [k \in Key |-> Null]]
Unresolved == [config |-> Null, generation |-> 0, last |-> -1, messages |-> NoMessages,
               dedup |-> [d \in DedupKey |-> Null], version |-> 0, published |-> Null,
               receipts |-> NoReceipts]

apply_resolve(s, r) ==
    IF s.config \notin {Null, r.arg} THEN Failed(s)
    ELSE Done([s EXCEPT !.config = r.arg], Receipt(r, "Resolved", 0, Null, s.config = Null, Null))

(* Where a message with this dedup key is: the client in memory keeps the  *)
(* id of the message for each dedup key, the tables are searched for it.   *)
existing(s, d) ==
    IF d = Null THEN {}
    ELSE IF backend = "memory" THEN {o \in Stored(s) : s.messages[o].id = s.dedup[d]}
    ELSE {o \in Stored(s) : s.messages[o].dedup = d}

(* Ids may change on a retry, the rest of the message may not.             *)
validate_replay(m, n) == [m EXCEPT !.id = n.id] = n

next_ordinal(s) == s.last + 1

(* "session ordinal overflow"; the model's ordinals end at MaxOrdinal.     *)
exhausted(s) == s.last = MaxOrdinal

Deduplicated(s, r, p) == Done(s, Receipt(r, "Appended", p, s.messages[p].id, TRUE, Null))

apply_append(s, r) ==
    LET m == r.arg
        found == existing(s, m.dedup)
        o == next_ordinal(s)
    IN  IF s.config = Null THEN Failed(s)
        ELSE IF found # {}
        THEN LET p == CHOOSE p \in found : TRUE
             IN  IF ~validate_replay(s.messages[p], m) THEN Failed(s)
                 ELSE Deduplicated(s, r, p)
        ELSE IF m.dedup # Null /\ backend = "memory" /\ s.dedup[m.dedup] # Null THEN Failed(s)
        ELSE IF (\E p \in Stored(s) : s.messages[p].id = m.id) \/ exhausted(s) THEN Failed(s)
        ELSE Done([s EXCEPT !.last = o, !.messages[o] = m,
                            !.dedup = IF m.dedup = Null THEN @ ELSE [@ EXCEPT ![m.dedup] = m.id]],
                  Receipt(r, "Appended", o, m.id, FALSE, Null))

(* A stale publication changes nothing; that it was stale is on record.    *)
publish(s, r) ==
    IF s.config = Null THEN Failed(s)
    ELSE IF ~is_current(r.fence, s) THEN Done(s, Receipt(r, "Stale", 0, Null, FALSE, Null))
    ELSE Done([s EXCEPT !.version = @ + 1, !.generation = @ + 1,
                        !.published = [content |-> r.arg, fence |-> r.fence]],
              Receipt(r, "Published", s.version + 1, Null, TRUE, Null))

(* cutoff: the fence's, unless the policy of now retains more.             *)
cutoff_allowed(s, f) ==
    \/ f.cutoff = Null
    \/ s.config.days # Forever /\ f.cutoff <= RetainedAfter(s.config)

(* Mutant of Scanned: the last message of the selection is left out.       *)
ScannedBelow(s, r) == Oldest(ScanLimit, {o \in Stored(s) : r.after < o /\ o < r.fence.upper})

(* The rows that one batch looks at.                                       *)
Scanned(s, r) == Oldest(ScanLimit, {o \in Stored(s) : r.after < o /\ o <= r.fence.upper})

(* Mutant of Delete: the dedup keys of what goes stay.                     *)
KeepsDedup(s, gone) ==
    [s EXCEPT !.messages = [o \in Ordinal |-> IF o \in gone THEN Null ELSE @[o]],
              !.generation = IF gone = {} THEN @ ELSE @ + 1]

Delete(s, gone) ==
    [s EXCEPT !.messages = [o \in Ordinal |-> IF o \in gone THEN Null ELSE @[o]],
              !.dedup = [d \in DedupKey |->
                            IF \E o \in gone : s.messages[o].dedup = d THEN Null ELSE @[d]],
              !.generation = IF gone = {} THEN @ ELSE @ + 1]

(* One batch of a sweep.  It may go on in the same selection after its own *)
(* deletions, so the fence need not be current.                            *)
retain(s, r) ==
    LET rows == Scanned(s, r)
        gone == {o \in rows : expired(r.fence.cutoff, s.messages[o])}
        after == IF rows = {} THEN r.after ELSE MaxOf(rows)
        more == Cardinality(rows) = ScanLimit /\ after < r.fence.upper
    IN  IF s.config = Null \/ r.fence.upper > s.last \/ ~cutoff_allowed(s, r.fence) THEN Failed(s)
        ELSE Done(Delete(s, gone),
                  Receipt(r, "Retained", 0, Null, gone # {}, IF more THEN after ELSE Null))

perform(s, r) ==
    CASE r.kind = "Resolve" -> apply_resolve(s, r)
      [] r.kind = "Append" -> apply_append(s, r)
      [] r.kind = "Publish" -> publish(s, r)
      [] r.kind = "Retain" -> retain(s, r)

-----------------------------------------------------------------------------
(* Receipts *)

evict(s) == [s EXCEPT !.receipts =
                [t \in Table |-> [k \in Key |-> IF is_expired(k) THEN Null ELSE @[t][k]]]]

Receipts(s) == {tk \in Table \X Key : s.receipts[tk[1]][tk[2]] # Null}

(* A key is used for one request, and so for one kind of request.          *)
lookup(s, r) == s.receipts[TableOf(r.kind)][r.key]

(* Mutant of mismatch: only the receipts of the same kind are looked at.   *)
OwnTableOnly(s, r) == lookup(s, r) # Null /\ lookup(s, r).request # r

mismatch(s, r) ==
    \/ \E t \in Table \ {TableOf(r.kind)} : s.receipts[t][r.key] # Null
    \/ lookup(s, r) # Null /\ lookup(s, r).request # r

(* A request under a key: its receipt if there is one, or the operation    *)
(* and its receipt together.                                               *)
execute_write(s, r) ==
    LET e == evict(s)
        result == perform(e, r)
    IN  IF mismatch(s, r) THEN Failed(s)
        ELSE IF lookup(s, r) # Null THEN Done(s, lookup(s, r))
        ELSE IF Cardinality(Receipts(e)) >= MaxSessionReceipts \/ ~result.ok THEN Failed(s)
        ELSE Done([result.session EXCEPT !.receipts[TableOf(r.kind)][r.key] = result.receipt],
                  result.receipt)

-----------------------------------------------------------------------------
NoRead == [state |-> "idle", fence |-> Null, after |-> -1, got |-> <<>>]

SessionInit ==
    /\ backend \in {"memory", "sqlite"}
    /\ session = Unresolved
    /\ reader = [r \in Reader |-> NoRead]
    /\ wanted = [c \in Caller |-> Null]
    /\ stage = [c \in Caller |-> "idle"]
    /\ told = [c \in Caller |-> Null]
    /\ did = [c \in Caller |-> Null]
    /\ now = 0

Request(kind, key, arg, fence, after) ==
    [kind |-> kind, key |-> key, arg |-> arg, fence |-> fence, after |-> after]

(* Resolve and append without a key: no receipt, and no claim when the     *)
(* answer is an error.                                                     *)
Unkeyed(kind, arg) == Request(kind, Null, arg, Null, -1)

resolve ==
    \E c \in Config \cap Bare :
        LET result == apply_resolve(session, Unkeyed("Resolve", c))
        IN  /\ result.ok /\ session' = result.session
            /\ UNCHANGED <<backend, reader, wanted, stage, told, did, now>>

append ==
    \E m \in Message \cap Bare :
        LET result == apply_append(session, Unkeyed("Append", m))
        IN  /\ result.ok /\ session' = result.session
            /\ UNCHANGED <<backend, reader, wanted, stage, told, did, now>>

-----------------------------------------------------------------------------
(* Reading *)

(* One page: rows in order until it is full and one more message is seen;  *)
(* visited are the rows looked at for it.                                  *)
Page(s, f, after) ==
    LET rows == {o \in Stored(s) : o > after /\ o >= f.lower /\ o <= f.upper}
        kept == {o \in rows : retains(f.cutoff, s.messages[o])}
        seen == Oldest(PageSize + 1, kept)
        more == Cardinality(seen) > PageSize
    IN  [messages |-> Oldest(PageSize, kept), more |-> more,
         visited |-> IF more THEN {o \in rows : o <= MaxOf(seen)} ELSE rows]

(* All pages of a selection carry the same fence.                          *)
Show(r, f, after, got) ==
    LET page == Page(session, f, after)
        read == got \o Ordered(page.messages)
    IN  reader' = [reader EXCEPT ![r] =
            IF Cardinality(page.visited) > MaxScan
            THEN [state |-> "failed", fence |-> f, after |-> after, got |-> got]
            ELSE [state |-> IF page.more THEN "paging" ELSE "finished", fence |-> f,
                  after |-> IF page.messages = {} THEN after ELSE MaxOf(page.messages),
                  got |-> read]]

load(r, policy) ==
    /\ reader[r].state \in {"idle", "finished", "failed"} /\ session.config # Null
    /\ LET f == issue(session, policy) IN Show(r, f, f.lower - 1, <<>>)
    /\ UNCHANGED <<backend, session, wanted, stage, told, did, now>>

(* Mutant of next_page: the cursor's generation is not looked at.          *)
AnyGeneration(r) ==
    /\ reader[r].state = "paging"
    /\ Show(r, reader[r].fence, reader[r].after, reader[r].got)
    /\ UNCHANGED <<backend, session, wanted, stage, told, did, now>>

(* A cursor is refused once a message has gone or a context was published. *)
next_page(r) ==
    /\ reader[r].state = "paging"
    /\ IF decodes(reader[r].fence, session)
       THEN Show(r, reader[r].fence, reader[r].after, reader[r].got)
       ELSE reader' = [reader EXCEPT ![r].state = "failed"]
    /\ UNCHANGED <<backend, session, wanted, stage, told, did, now>>

-----------------------------------------------------------------------------
(* Writing under a key *)

(* A sweep starts with a fence of its own and goes on where a batch of it  *)
(* stopped.                                                                *)
Batches ==
    (IF session.config = Null THEN {} ELSE {<<issue(session, All), -1>>})
        \cup {<<told[b].request.fence, told[b].next>> : b \in {b \in Caller :
                told[b] # Null /\ told[b].kind = "Retained" /\ told[b].next # Null}}

Requests(kind, k) ==
    CASE kind = "Resolve" -> {Request(kind, k, c, Null, -1) : c \in Config}
      [] kind = "Append" -> {Request(kind, k, m, Null, -1) : m \in Message}
      [] kind = "Publish" -> {Request(kind, k, t, f, -1) :
                                 t \in Content, f \in {reader[r].fence : r \in Reader} \ {Null}}
      [] kind = "Retain" -> {Request(kind, k, Null, b[1], b[2]) : b \in Batches}
      [] kind \in {"Retry", "Reconcile"} -> {wanted[b] : b \in {b \in Caller :
                                 wanted[b] # Null /\ wanted[b].key = k}}

Ask(c) ==
    /\ stage[c] = "idle"
    /\ \E w \in Wants[c] : \E r \in Requests(w[1], w[2]) :
        /\ wanted' = [wanted EXCEPT ![c] = r]
        /\ stage' = [stage EXCEPT ![c] = IF w[1] = "Reconcile" THEN "asking" ELSE "called"]
    /\ UNCHANGED <<backend, session, reader, told, did, now>>

Answer(c, receipt) ==
    /\ told' = [told EXCEPT ![c] = receipt]
    /\ stage' = [stage EXCEPT ![c] = "done"]
    /\ UNCHANGED <<backend, reader, wanted, now>>

(* The operation and its receipt take effect.                              *)
TakeEffect(c, s, result) ==
    /\ session' = result.session
    /\ did' = IF result.ok /\ lookup(s, wanted[c]) = Null
              THEN [did EXCEPT ![c] = result.receipt] ELSE did

(* In memory: one lock.  Expired receipts go first; the window of the key  *)
(* is that of the same moment.                                             *)
LockedWrite(c) ==
    LET s == evict(session)
        result == execute_write(s, wanted[c])
    IN  /\ stage[c] = "called" /\ backend = "memory"
        /\ \/ validate_window(wanted[c].key) /\ TakeEffect(c, s, result) /\ Answer(c, result.receipt)
           \/ session' = s /\ Answer(c, Null) /\ UNCHANGED did

(* SQLite: the window is checked before the transaction begins.            *)
CheckWindow(c) ==
    /\ stage[c] = "called" /\ backend = "sqlite"
    /\ IF validate_window(wanted[c].key)
       THEN stage' = [stage EXCEPT ![c] = "validated"]
                /\ UNCHANGED <<backend, reader, wanted, told, now>>
       ELSE Answer(c, Null)
    /\ UNCHANGED <<session, did>>

(* The transaction commits, or commits and reports an error, or does not.  *)
Transact(c) ==
    LET result == execute_write(session, wanted[c])
    IN  /\ stage[c] = "validated"
        /\ \/ TakeEffect(c, session, result) /\ Answer(c, result.receipt)
           \/ TakeEffect(c, session, result) /\ Answer(c, Null)
           \/ Answer(c, Null) /\ UNCHANGED <<session, did>>

reconcile(c) ==
    LET s == IF backend = "memory" THEN evict(session) ELSE session
        r == wanted[c]
    IN  /\ stage[c] = "asking"
        /\ session' = s
        /\ Answer(c, IF is_expired(r.key) \/ mismatch(s, r) THEN Null ELSE lookup(s, r))
        /\ UNCHANGED did

SessionTick ==
    /\ now < MaxTime
    /\ now' = now + 1
    /\ UNCHANGED <<backend, session, reader, wanted, stage, told, did>>

SessionNext ==
    \/ resolve \/ append \/ SessionTick
    \/ \E r \in Reader : next_page(r) \/ \E p \in Policy : load(r, p)
    \/ \E c \in Caller : Ask(c) \/ LockedWrite(c) \/ CheckWindow(c) \/ Transact(c) \/ reconcile(c)

SessionSpec == SessionInit /\ [][SessionNext]_sessionVars

-----------------------------------------------------------------------------
(* Every variable has its type, and ordinals are given out up to last.     *)
SessionTypeOK ==
    /\ session.config \in Config \cup {Null} /\ session.last \in -1 .. MaxOrdinal
    /\ session.generation \in Nat /\ session.version \in Nat
    /\ session.messages \in [Ordinal -> Message \cup {Null}]
    /\ \A o \in Stored(session) : o <= session.last
    /\ \A r \in Reader : reader[r].state \in {"idle", "paging", "finished", "failed"}
    /\ \A c \in Caller : stage[c] \in {"idle", "asking", "called", "validated", "done"}

(* A context replaces another only if it was derived from the history as   *)
(* it is and from the context it replaces: no append, sweep or publication *)
(* came between the read and the publication (publish, is_current).        *)
PublishesWhatWasRead ==
    [][session'.version # session.version =>
        /\ session'.version = session.version + 1
        /\ session'.published.fence.history = session.messages
        /\ session'.published.fence.version = session.version]_sessionVars

(* The pages of one selection are one snapshot: all together they are the  *)
(* messages that the policies selected when the first page was read, each  *)
(* once and in order, whatever was appended meanwhile (load, decode).      *)
PagesAreOneSnapshot ==
    \A r \in Reader : reader[r].state # "idle" =>
        LET f == reader[r].fence
            kept == {o \in Ordinal : f.history[o] # Null /\ retains(f.cutoff, f.history[o])}
            all == Ordered(IF f.policy = All THEN kept ELSE Newest(2 * f.policy, kept))
            got == reader[r].got
        IN  /\ got = SubSeq(all, 1, Len(got))
            /\ reader[r].state = "finished" => got = all

(* What a sweep has gone over stays clean: between where a batch started   *)
(* and where it says the next one starts, nothing is left, and nothing     *)
(* comes back, that was past retention when the sweep began (retain).      *)
SweptStaysClean ==
    \A c \in Caller : told[c] # Null /\ told[c].kind = "Retained" =>
        LET r == told[c].request
            end == IF told[c].next = Null THEN r.fence.upper ELSE told[c].next
        IN  \A o \in Stored(session) :
                r.after < o /\ o <= end => ~expired(r.fence.cutoff, session.messages[o])

(* A dedup key has at most one message, and the client in memory knows     *)
(* which: its map never points to a message that retention has taken       *)
(* (prepare_append, "session dedup target is missing").                    *)
DedupHasItsTarget ==
    /\ SessionTypeOK
    /\ \A d \in DedupKey :
           LET with == {o \in Stored(session) : session.messages[o].dedup = d}
           IN  /\ Cardinality(with) <= 1
               /\ session.dedup[d] = IF with = {} THEN Null
                                     ELSE session.messages[CHOOSE o \in with : TRUE].id

Executed(k) == {c \in Caller : did[c] # Null /\ wanted[c].key = k}

(* An operation takes effect once, and every answer to it, to a retry or   *)
(* to a reconciliation is the receipt it left.  In memory that holds for   *)
(* good; in SQLite a key that expires between its window check and its     *)
(* transaction may find its receipt evicted.                               *)
KeysExecuteOnce ==
    \A k \in Key :
        /\ Cardinality(Executed(k)) > 1 => backend = "sqlite" /\ is_expired(k)
        /\ \A c \in Caller : told[c] # Null /\ wanted[c].key = k =>
            told[c] \in {did[b] : b \in Executed(k)}

=============================================================================
