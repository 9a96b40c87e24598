--------------------------- MODULE StreamSlotProofs ---------------------------
(***************************************************************************)
(* The safety properties of a stream's slot, proved for every set of       *)
(* requests, sizes and bound on the input.                                 *)
(***************************************************************************)
EXTENDS StreamSlot, SequenceTheorems, TLAPS

(* Most leaves are first-order; the ones that need more name SMT.          *)
USE Zenon

(* The mutex has its holder, and a request holds read bytes only while it  *)
(* transfers under the mutex.                                              *)
LockInv ==
    \A r \in Request :
        /\ request[r].step \in {"io", "switching"} <=> lock = r
        /\ request[r].step = "io" => state \in {"Tcp", "Tls"} /\ request[r].op \in IO
        /\ request[r].body # << >> =>
              request[r].step = "io" /\ request[r].op = "ReadUntilLimit"

(* At most one request upgrades the stream, once; the connection is out of *)
(* the slot meanwhile.                                                     *)
Upgrades(r) == request[r].step \in {"handshake", "upgraded", "broken", "switching"}
UpgradeInv ==
    /\ \A r \in Request : Upgrades(r) =>
          /\ generation = 0 /\ lifecycle # "OpenTcp" /\ state \in {"Upgrading", "Closed"}
          /\ request[r].step = "switching" => state = "Upgrading" /\ lifecycle # "Upgrading"
          /\ request[r].step # "switching" => lifecycle # "OpenTls"
          /\ \A q \in Request : Upgrades(q) => q = r
    /\ \A r \in Request : request[r].op = "Connect" => request[r].handle = 0
    /\ generation = 1 => lifecycle # "OpenTcp"

(* The lifecycle and the connection, whoever holds the mutex.              *)
LifecycleInv ==
    /\ lifecycle = "OpenTcp" => state = "Tcp"
    /\ lifecycle = "OpenTls" => state = "Tls" \/ \E r \in Request : request[r].step = "switching"
    /\ lifecycle = "Upgrading" => state = "Upgrading"
    /\ lifecycle = "Closed" => state = "Closed"
    /\ lifecycle = "Closing" =>
          \E r \in Request : request[r].step \in {"cancelling", "finishing"}

(* No byte is lost or moved as long as there is a connection.              *)
BytesInv == state # "Closed" => delivered \o Held \o read_buffer \o unread = input

(* The inductive invariant.                                                *)
StreamInv == TypeOK /\ LockInv /\ UpgradeInv /\ LifecycleInv /\ BytesInv

-----------------------------------------------------------------------------
(* Types *)

Handles == 0 .. 1
Sizes == Size \cup {0}
Bytes == Seq(1 .. InputBound)
RequestType ==
    [op : Operations, handle : Handles, size : Sizes, step : Step, body : Bytes,
     written : Nat, answer : Answer]

RequestsOK ==
    /\ request \in [Request -> RequestType]
    /\ \A r \in Request : request[r].written <= request[r].size

SlotOK ==
    /\ lifecycle \in StreamLifecycle /\ generation \in 0 .. 1
    /\ state \in ManagedStreamState /\ cancellation \in BOOLEAN
    /\ lock \in Request \cup {NoRequest} /\ listed \in BOOLEAN /\ eof \in BOOLEAN
    /\ owner \in {"unowned", "owning", "watching", "releasing", "removing", "released",
                  "refusing", "refused"}
    /\ wire \in Seq(Request)

DataOK == {read_buffer, input, unread, delivered} \subseteq Bytes

LEMMA TypeParts == TypeOK <=> RequestsOK /\ SlotOK /\ DataOK
BY DEF TypeOK, RequestsOK, SlotOK, DataOK, RequestType, Handles, Sizes, Bytes

(* The fields of a request have their types.                               *)
LEMMA RequestParts ==
    ASSUME RequestsOK, NEW r \in Request
    PROVE  /\ request[r] \in RequestType
           /\ request[r].op \in Operations /\ request[r].handle \in Handles
           /\ request[r].size \in Sizes /\ request[r].size \in Nat /\ request[r].step \in Step
           /\ request[r].body \in Bytes /\ request[r].written \in Nat
<1>1. request[r] \in RequestType
  BY DEF RequestsOK
<1>2. /\ request[r].op \in Operations /\ request[r].handle \in Handles
      /\ request[r].size \in Sizes /\ request[r].step \in Step
      /\ request[r].body \in Bytes /\ request[r].written \in Nat
  BY <1>1, SMT DEF RequestType
<1>3. Sizes \subseteq Nat
  BY StreamAssumption, SMT DEF Sizes
<1>4. QED
  BY <1>1, <1>2, <1>3

(* A request becomes v.                                                    *)
LEMMA RequestSet ==
    ASSUME RequestsOK, NEW r \in Request, NEW v, v \in RequestType, v.written <= v.size,
           request' = [request EXCEPT ![r] = v]
    PROVE  /\ RequestsOK' /\ request'[r] = v
           /\ \A q \in Request \ {r} : request'[q] = request[q]
<1>1. /\ request' \in [Request -> RequestType] /\ request'[r] = v
      /\ \A q \in Request \ {r} : request'[q] = request[q]
  BY SMT DEF RequestsOK
<1>2. QED
  BY <1>1 DEF RequestsOK

(* A request goes on to another step, with or without an answer.           *)
LEMMA GotoEffect ==
    ASSUME RequestsOK, NEW r \in Request, NEW step \in Step, Goto(r, step)
    PROVE  /\ RequestsOK'
           /\ \A q \in Request \ {r} : request'[q] = request[q]
           /\ request'[r].step = step /\ request'[r].op = request[r].op
           /\ request'[r].body = request[r].body /\ request'[r].handle = request[r].handle
<1>1. PICK v : v = [request[r] EXCEPT !.step = step]
  OBVIOUS
<1>2. request' = [request EXCEPT ![r] = v]
  BY <1>1 DEF Goto
<1>3. request[r] \in RequestType /\ request[r].written <= request[r].size
  BY DEF RequestsOK
<1>4. /\ v \in RequestType /\ v.step = step /\ v.op = request[r].op /\ v.body = request[r].body
      /\ v.handle = request[r].handle /\ v.written = request[r].written
      /\ v.size = request[r].size
  BY <1>1, <1>3, SMT DEF RequestType
<1>5. QED
  BY <1>2, <1>3, <1>4, RequestSet

LEMMA RespondEffect ==
    ASSUME RequestsOK, NEW r \in Request, NEW a \in Answer, Respond(r, a)
    PROVE  /\ RequestsOK'
           /\ \A q \in Request \ {r} : request'[q] = request[q]
           /\ request'[r].step = "done" /\ request'[r].op = request[r].op
           /\ request'[r].body = << >> /\ request'[r].handle = request[r].handle
<1>1. PICK u : u = [request[r] EXCEPT !.step = "done"]
  OBVIOUS
<1>2. PICK w : w = [u EXCEPT !.answer = a]
  OBVIOUS
<1>3. PICK v : v = [w EXCEPT !.body = << >>]
  OBVIOUS
<1>4. request[r] \in RequestType /\ request[r].written <= request[r].size
  BY DEF RequestsOK
<1>5. "done" \in Step /\ << >> \in Bytes
  BY SMT DEF Step, Bytes
<1>6. /\ u \in RequestType /\ u.step = "done" /\ u.op = request[r].op
      /\ u.handle = request[r].handle /\ u.written = request[r].written
      /\ u.size = request[r].size
  BY <1>1, <1>4, <1>5, SMT DEF RequestType
<1>7. /\ w \in RequestType /\ w.step = "done" /\ w.op = request[r].op
      /\ w.handle = request[r].handle /\ w.written = request[r].written
      /\ w.size = request[r].size
  BY <1>2, <1>6, SMT DEF RequestType
<1>8. /\ v \in RequestType /\ v.step = "done" /\ v.op = request[r].op
      /\ v.handle = request[r].handle /\ v.written = request[r].written
      /\ v.size = request[r].size /\ v.body = << >>
  BY <1>3, <1>5, <1>7, SMT DEF RequestType
<1>9. PICK f : f = [request EXCEPT ![r].step = "done"]
  OBVIOUS
<1>10. PICK g : g = [f EXCEPT ![r].answer = a]
  OBVIOUS
<1>11. request' = [g EXCEPT ![r].body = << >>]
  BY <1>9, <1>10 DEF Respond
<1>12. /\ f \in [Request -> RequestType] /\ f[r] = u
       /\ \A q \in Request \ {r} : f[q] = request[q]
  <2>1. f = [request EXCEPT ![r] = u]
    BY <1>1, <1>9
  <2>2. QED
    BY <1>6, <2>1, SMT DEF RequestsOK
<1>13. /\ g \in [Request -> RequestType] /\ g[r] = w
       /\ \A q \in Request \ {r} : g[q] = request[q]
  <2>1. g = [f EXCEPT ![r] = w]
    BY <1>2, <1>10, <1>12
  <2>2. QED
    BY <1>7, <1>12, <2>1, SMT
<1>14. /\ request' \in [Request -> RequestType] /\ request'[r] = v
       /\ \A q \in Request \ {r} : request'[q] = request[q]
  <2>1. request' = [g EXCEPT ![r] = v]
    BY <1>3, <1>11, <1>13
  <2>2. QED
    BY <1>8, <1>13, <2>1, SMT
<1>15. QED
  BY <1>4, <1>8, <1>14 DEF RequestsOK

-----------------------------------------------------------------------------
(* What the invariant asks of a step in which request r takes part, or     *)
(* nobody, when r is no request.                                           *)

Others(r) == \A q \in Request \ {r} : request'[q] = request[q]

LEMMA LockKept ==
    ASSUME LockInv, NEW r, Others(r),
           state' = state \/ lock \in {NoRequest, r},
           lock' = lock \/ (lock \in {NoRequest, r} /\ lock' \in {NoRequest, r}),
           r \in Request =>
               /\ request'[r].step \in {"io", "switching"} <=> lock' = r
               /\ request'[r].step = "io" => state' \in {"Tcp", "Tls"} /\ request'[r].op \in IO
               /\ request'[r].body # << >> =>
                     request'[r].step = "io" /\ request'[r].op = "ReadUntilLimit"
    PROVE  LockInv'
<1>1. ASSUME NEW q \in Request, q # r
      PROVE  /\ request'[q].step \in {"io", "switching"} <=> lock' = q
             /\ request'[q].step = "io" => state' \in {"Tcp", "Tls"} /\ request'[q].op \in IO
             /\ request'[q].body # << >> =>
                   request'[q].step = "io" /\ request'[q].op = "ReadUntilLimit"
  <2>1. request'[q] = request[q] /\ q # NoRequest
    BY <1>1, StreamAssumption DEF Others
  <2>2. /\ request[q].step \in {"io", "switching"} <=> lock = q
        /\ request[q].step = "io" => state \in {"Tcp", "Tls"} /\ request[q].op \in IO
        /\ request[q].body # << >> =>
              request[q].step = "io" /\ request[q].op = "ReadUntilLimit"
    BY DEF LockInv
  <2>3. lock' = q <=> lock = q
    BY <1>1, <2>1
  <2>4. lock = q => state' = state
    BY <1>1, <2>1
  <2>5. QED
    BY <2>1, <2>2, <2>3, <2>4
<1>2. QED
  BY <1>1 DEF LockInv

LEMMA UpgradeKept ==
    ASSUME LockInv, UpgradeInv, NEW r, Others(r),
           generation' = generation,
           lifecycle' = lifecycle \/ lifecycle' \in {"Closing", "Closed"},
           state' = state \/ (state' = "Closed" /\ lock = NoRequest),
           r \in Request =>
               /\ Upgrades(r)' => Upgrades(r)
               /\ request'[r].step = "switching" => request[r].step = "switching"
               /\ request[r].step = "switching" => ~Upgrades(r)'  \/ request'[r].step = "switching"
               /\ request'[r].op = "Connect" => request'[r].handle = 0
    PROVE  UpgradeInv'
<1>1. ASSUME NEW q \in Request
      PROVE  /\ Upgrades(q)' => Upgrades(q)
             /\ Upgrades(q)' =>
                   (request'[q].step = "switching" <=> request[q].step = "switching")
             /\ request'[q].op = "Connect" => request'[q].handle = 0
  BY DEF Others, Upgrades, UpgradeInv
<1>2. ASSUME NEW q \in Request, request[q].step = "switching" PROVE lock # NoRequest
  BY <1>2, StreamAssumption DEF LockInv
<1>3. ASSUME NEW q \in Request, Upgrades(q)'
      PROVE  /\ generation' = 0 /\ lifecycle' # "OpenTcp" /\ state' \in {"Upgrading", "Closed"}
             /\ request'[q].step = "switching" => state' = "Upgrading" /\ lifecycle' # "Upgrading"
             /\ request'[q].step # "switching" => lifecycle' # "OpenTls"
             /\ \A s \in Request : Upgrades(s)' => s = q
  BY <1>1, <1>2, <1>3 DEF UpgradeInv
<1>4. generation' = 1 => lifecycle' # "OpenTcp"
  BY DEF UpgradeInv
<1>5. QED
  BY <1>1, <1>3, <1>4 DEF UpgradeInv, Upgrades

LEMMA LifecycleKept ==
    ASSUME LockInv, LifecycleInv, NEW r, Others(r),
           lifecycle' = lifecycle \/ lifecycle' \in {"Closing", "Closed"},
           state' = state \/ (state' = "Closed" /\ lock = NoRequest
                              /\ lifecycle' \in {"Closing", "Closed"}),
           lifecycle' = "Closed" => state' = "Closed",
           lifecycle' = "Closing" /\ lifecycle # "Closing" =>
               r \in Request /\ request'[r].step \in {"cancelling", "finishing"},
           r \in Request =>
               /\ request[r].step = "switching" => request'[r].step = "switching"
               /\ request[r].step \in {"cancelling", "finishing"} =>
                     request'[r].step \in {"cancelling", "finishing"} \/ lifecycle' # "Closing"
    PROVE  LifecycleInv'
<1>1. ASSUME NEW q \in Request
      PROVE  /\ request[q].step = "switching" => request'[q].step = "switching"
             /\ request[q].step \in {"cancelling", "finishing"} =>
                   request'[q].step \in {"cancelling", "finishing"} \/ lifecycle' # "Closing"
  BY DEF Others
<1>2. lifecycle' = "Closing" => \E q \in Request : request'[q].step \in {"cancelling", "finishing"}
  BY <1>1 DEF LifecycleInv
<1>3. lifecycle' = "OpenTls" =>
          state' = "Tls" \/ \E q \in Request : request'[q].step = "switching"
  BY <1>1 DEF LifecycleInv
<1>4. QED
  BY <1>2, <1>3 DEF LifecycleInv

(* What is held does not change unless a read goes on.                     *)
LEMMA HeldKept ==
    ASSUME LockInv, SlotOK, NEW r, Others(r),
           lock' = lock \/ (lock \in {NoRequest, r} /\ lock' \in {NoRequest, r}),
           r \in Request => request[r].body = << >> /\ request'[r].body = << >>,
           lock' \in Request \cup {NoRequest}
    PROVE  Held' = Held
<1>1. CASE lock = NoRequest /\ lock' = NoRequest
  BY <1>1 DEF Held
<1>2. CASE lock = lock' /\ lock # NoRequest
  <2>1. lock \in Request
    BY <1>2 DEF SlotOK
  <2>2. request'[lock].body = request[lock].body
    BY <2>1 DEF Others
  <2>3. QED
    BY <1>2, <2>2 DEF Held
<1>3. CASE lock' # lock
  <2>1. r \in Request
    BY <1>3 DEF SlotOK
  <2>2. Held = << >>
    BY <1>3, <2>1 DEF Held
  <2>3. Held' = << >>
    BY <1>3, <2>1 DEF Held
  <2>4. QED
    BY <2>2, <2>3
<1>4. QED
  BY <1>1, <1>2, <1>3

(* A step that reads, buffers and answers nothing, and upgrades nothing.   *)
LEMMA StepKept ==
    ASSUME StreamInv, NEW r, RequestsOK', SlotOK', DataOK', Others(r),
           UNCHANGED <<generation, delivered, input, unread>>,
           lifecycle' = lifecycle \/ lifecycle' \in {"Closing", "Closed"},
           lifecycle' = "Closed" => state' = "Closed",
           lifecycle' = "Closing" /\ lifecycle # "Closing" =>
               r \in Request /\ request'[r].step \in {"cancelling", "finishing"},
           \/ state' = state /\ read_buffer' = read_buffer
           \/ state' = "Closed" /\ lock = NoRequest /\ lifecycle' \in {"Closing", "Closed"},
           lock' = lock \/ (lock \in {NoRequest, r} /\ lock' \in {NoRequest, r}),
           r \in Request =>
               /\ request'[r].step \in {"io", "switching"} <=> lock' = r
               /\ request'[r].step = "io" => state' \in {"Tcp", "Tls"} /\ request'[r].op \in IO
               /\ request[r].body = << >> /\ request'[r].body = << >>
               /\ Upgrades(r)' => Upgrades(r)
               /\ request[r].step = "switching" <=> request'[r].step = "switching"
               /\ request'[r].op = "Connect" => request'[r].handle = 0
               /\ request[r].step \in {"cancelling", "finishing"} =>
                     request'[r].step \in {"cancelling", "finishing"} \/ lifecycle' # "Closing"
    PROVE  StreamInv'
<1>1. TypeOK' /\ SlotOK
  BY TypeParts DEF StreamInv, TypeOK, RequestsOK, SlotOK, DataOK, RequestType, Handles, Sizes, Bytes
<1>2. LockInv'
  BY LockKept DEF StreamInv
<1>3. UpgradeInv'
  BY UpgradeKept DEF StreamInv
<1>4. LifecycleInv'
  BY LifecycleKept DEF StreamInv
<1>5. BytesInv'
  <2>1. SUFFICES ASSUME state' # "Closed"
                 PROVE  delivered' \o Held' \o read_buffer' \o unread' = input'
    BY DEF BytesInv
  <2>2. Held' = Held
    BY <1>1, HeldKept DEF StreamInv, SlotOK
  <2>3. QED
    BY <2>1, <2>2 DEF StreamInv, BytesInv
<1>6. QED
  BY <1>1, <1>2, <1>3, <1>4, <1>5 DEF StreamInv

-----------------------------------------------------------------------------
(* Requests that arrive, wait, close or are refused *)

LEMMA ArriveStep ==
    ASSUME StreamInv, NEW r \in Request, NEW opn, NEW g \in Handles, NEW n \in Sizes,
           NEW STATE ok, NEW step \in {"waiting", "closing", "checked"},
           opn = "Connect" => g = 0, Arrive(r, opn, g, n, ok, step)
    PROVE  StreamInv'
<1>0. RequestsOK /\ SlotOK /\ DataOK
  BY TypeParts DEF StreamInv
<1>1. PICK t, a : /\ t \in {step, "done"} /\ a \in Answer
                  /\ request' = [request EXCEPT ![r] =
                        [op |-> opn, handle |-> g, size |-> n, body |-> << >>, written |-> 0,
                         step |-> t, answer |-> a]]
  BY DEF Arrive, Answer
<1>2. PICK v : v = [op |-> opn, handle |-> g, size |-> n, body |-> << >>, written |-> 0,
                    step |-> t, answer |-> a]
  OBVIOUS
<1>3. t \in Step /\ << >> \in Bytes /\ opn \in Operations /\ n \in Nat
  <2>1. << >> \in Bytes /\ n \in Nat
    BY StreamAssumption, SMT DEF Bytes, Sizes
  <2>2. QED
    BY <1>1, <2>1, StreamAssumption DEF Step, Arrive
<1>4. /\ v \in RequestType /\ v.step = t /\ v.op = opn /\ v.body = << >> /\ v.handle = g
      /\ v.written <= v.size
  BY <1>1, <1>2, <1>3, SMT DEF RequestType
<1>5. RequestsOK' /\ request'[r] = v /\ Others(r)
  BY <1>0, <1>1, <1>2, <1>4, RequestSet DEF Others
<1>6. request[r].step = "new" /\ request[r].body = << >> /\ lock # r
  BY DEF Arrive, StreamInv, LockInv
<1>7. UNCHANGED <<lifecycle, generation, state, cancellation, read_buffer, input, unread,
                  delivered, lock, listed, owner, eof, wire>>
  BY DEF Arrive, slotVars, dataVars
<1>8. SlotOK' /\ DataOK'
  BY <1>0, <1>7 DEF SlotOK, DataOK
<1>9. t \notin {"io", "switching", "handshake", "upgraded", "broken"}
  BY <1>1
<1>10. lifecycle' = "Closed" => state' = "Closed"
  BY <1>7 DEF StreamInv, LifecycleInv
<1>11. QED
  BY <1>4, <1>5, <1>6, <1>7, <1>8, <1>9, <1>10, StepKept DEF Upgrades

(* A request that holds no mutex goes on, and the slot stays as it is but  *)
(* for its token.                                                          *)
LEMMA StayStep ==
    ASSUME StreamInv, NEW r \in Request, RequestsOK', Others(r),
           request'[r].op = request[r].op, request'[r].handle = request[r].handle,
           request'[r].body \in {<< >>, request[r].body},
           request[r].step \notin {"io", "switching"},
           request'[r].step \notin {"io", "switching"},
           Upgrades(r)' => Upgrades(r),
           request[r].step \in {"cancelling", "finishing"} =>
               request'[r].step \in {"cancelling", "finishing"},
           UNCHANGED <<lifecycle, generation, state, dataVars, lock, listed, owner, eof, wire>>,
           cancellation' \in BOOLEAN
    PROVE  StreamInv'
<1>0. SlotOK /\ DataOK
  BY TypeParts DEF StreamInv
<1>1. request[r].body = << >> /\ request'[r].body = << >> /\ lock # r
  BY DEF StreamInv, LockInv
<1>2. UNCHANGED <<lifecycle, generation, state, read_buffer, input, unread, delivered, lock,
                  listed, owner, eof, wire>>
  BY DEF dataVars
<1>3. SlotOK' /\ DataOK'
  BY <1>0, <1>2 DEF SlotOK, DataOK
<1>4. /\ lifecycle' = "Closed" => state' = "Closed"
      /\ request'[r].op = "Connect" => request'[r].handle = 0
  BY <1>2 DEF StreamInv, LifecycleInv, UpgradeInv
<1>5. QED
  BY <1>1, <1>2, <1>3, <1>4, StepKept

LEMMA AcquireStep ==
    ASSUME StreamInv, NEW r \in Request, Acquire(r) PROVE StreamInv'
<1>0. RequestsOK /\ SlotOK /\ DataOK
  BY TypeParts DEF StreamInv
<1>1. /\ request[r].op \in IO /\ request[r].step = "waiting" /\ lock = NoRequest
      /\ UNCHANGED <<slotVars, dataVars, listed, owner, eof, wire>>
  BY DEF Acquire, At
<1>2. UNCHANGED <<lifecycle, generation, state, cancellation, read_buffer, input, unread,
                  delivered, listed, owner, eof, wire>>
  BY <1>1 DEF slotVars, dataVars
<1>3. CASE Goto(r, "io") /\ lock' = r /\ state \in {"Tcp", "Tls"}
  <2>1. "io" \in Step
    BY DEF Step
  <2>2. /\ RequestsOK' /\ Others(r) /\ request'[r].step = "io" /\ request'[r].op = request[r].op
        /\ request'[r].body = request[r].body /\ request'[r].handle = request[r].handle
    BY <1>0, <1>3, <2>1, GotoEffect DEF Others
  <2>3. request[r].body = << >>
    BY <1>1 DEF StreamInv, LockInv
  <2>4. SlotOK' /\ DataOK'
    BY <1>0, <1>2, <1>3 DEF SlotOK, DataOK
  <2>5. /\ lifecycle' = "Closed" => state' = "Closed"
        /\ request'[r].op = "Connect" => request'[r].handle = 0
    BY <1>2, <2>2 DEF StreamInv, LifecycleInv, UpgradeInv
  <2>6. ~Upgrades(r)'
    BY <2>2 DEF Upgrades
  <2>7. QED
    BY <1>1, <1>2, <1>3, <2>2, <2>3, <2>4, <2>5, <2>6, StepKept
<1>4. CASE Respond(r, "refused") /\ UNCHANGED lock
  <2>1. "refused" \in Answer
    BY DEF Answer
  <2>2. /\ RequestsOK' /\ Others(r) /\ request'[r].step = "done" /\ request'[r].op = request[r].op
        /\ request'[r].body = << >> /\ request'[r].handle = request[r].handle
    BY <1>0, <1>4, <2>1, RespondEffect DEF Others
  <2>3. QED
    BY <1>0, <1>1, <1>2, <1>4, <2>2, StayStep DEF Upgrades, dataVars, SlotOK
<1>5. QED
  BY <1>3, <1>4 DEF Acquire

LEMMA GiveUpStep ==
    ASSUME StreamInv, NEW r \in Request, GiveUp(r) PROVE StreamInv'
<1>0. RequestsOK /\ SlotOK
  BY TypeParts DEF StreamInv
<1>1. /\ request[r].step = "waiting" /\ Respond(r, "interrupted") /\ UNCHANGED slotVars
      /\ UNCHANGED <<dataVars, lock, listed, owner, eof, wire>>
  BY DEF GiveUp, At
<1>2. "interrupted" \in Answer
  BY DEF Answer
<1>3. /\ RequestsOK' /\ Others(r) /\ request'[r].step = "done" /\ request'[r].op = request[r].op
      /\ request'[r].body = << >> /\ request'[r].handle = request[r].handle
  BY <1>0, <1>1, <1>2, RespondEffect DEF Others
<1>4. QED
  BY <1>0, <1>1, <1>3, StayStep DEF Upgrades, slotVars, SlotOK

LEMMA FailedWriteStep ==
    ASSUME StreamInv, NEW r \in Request, FailedWrite(r) PROVE StreamInv'
<1>0. RequestsOK /\ SlotOK
  BY TypeParts DEF StreamInv
<1>1. PICK step \in {"closing", "finishing"} : Goto(r, step)
  BY DEF FailedWrite
<1>2. /\ request[r].step = "failed" /\ UNCHANGED slotVars
      /\ UNCHANGED <<dataVars, lock, listed, owner, eof, wire>>
  BY DEF FailedWrite, At
<1>3. step \in Step
  BY <1>1 DEF Step
<1>4. /\ RequestsOK' /\ Others(r) /\ request'[r].step = step /\ request'[r].op = request[r].op
      /\ request'[r].body = request[r].body /\ request'[r].handle = request[r].handle
  BY <1>0, <1>1, <1>3, GotoEffect DEF Others
<1>5. QED
  BY <1>0, <1>1, <1>2, <1>4, StayStep DEF Upgrades, slotVars, SlotOK

LEMMA CancelStep ==
    ASSUME StreamInv, NEW r \in Request, Cancel(r) PROVE StreamInv'
<1>0. RequestsOK /\ SlotOK
  BY TypeParts DEF StreamInv
<1>1. /\ request[r].step = "cancelling" /\ Goto(r, "finishing") /\ cancellation' = TRUE
      /\ UNCHANGED <<lifecycle, generation, state, dataVars, lock, listed, owner, eof, wire>>
  BY DEF Cancel, At
<1>2. "finishing" \in Step
  BY DEF Step
<1>3. /\ RequestsOK' /\ Others(r) /\ request'[r].step = "finishing"
      /\ request'[r].op = request[r].op
      /\ request'[r].body = request[r].body /\ request'[r].handle = request[r].handle
  BY <1>0, <1>1, <1>2, GotoEffect DEF Others
<1>4. QED
  BY <1>1, <1>3, StayStep DEF Upgrades

LEMMA HandshakeStep ==
    ASSUME StreamInv, NEW r \in Request, Handshake(r) PROVE StreamInv'
<1>0. RequestsOK /\ SlotOK
  BY TypeParts DEF StreamInv
<1>1. PICK step \in {"upgraded", "broken"} : Goto(r, step)
  BY DEF Handshake
<1>2. /\ request[r].step = "handshake" /\ UNCHANGED slotVars
      /\ UNCHANGED <<dataVars, lock, listed, owner, eof, wire>>
  BY DEF Handshake, At
<1>3. step \in Step
  BY <1>1 DEF Step
<1>4. /\ RequestsOK' /\ Others(r) /\ request'[r].step = step /\ request'[r].op = request[r].op
      /\ request'[r].body = request[r].body /\ request'[r].handle = request[r].handle
  BY <1>0, <1>1, <1>3, GotoEffect DEF Others
<1>5. QED
  BY <1>0, <1>1, <1>2, <1>4, StayStep DEF Upgrades, slotVars, SlotOK

(* begin_close wins the exchange, or finds the stream closing already.     *)
LEMMA BeginCloseStep ==
    ASSUME StreamInv, NEW r \in Request, BeginClose(r) PROVE StreamInv'
<1>0. RequestsOK /\ SlotOK /\ DataOK
  BY TypeParts DEF StreamInv
<1>1. /\ request[r].step = "closing"
      /\ UNCHANGED <<generation, state, cancellation, dataVars, lock, listed, owner, eof, wire>>
  BY DEF BeginClose, At
<1>2. CASE lifecycle \in Open \cup {"Upgrading"}
  <2>1. lifecycle' = "Closing" /\ Goto(r, "cancelling")
    BY <1>2 DEF BeginClose
  <2>2. "cancelling" \in Step
    BY DEF Step
  <2>3. /\ RequestsOK' /\ Others(r) /\ request'[r].step = "cancelling"
        /\ request'[r].op = request[r].op
        /\ request'[r].body = request[r].body /\ request'[r].handle = request[r].handle
    BY <1>0, <2>1, <2>2, GotoEffect DEF Others
  <2>4. UNCHANGED <<generation, state, cancellation, read_buffer, input, unread, delivered,
                    lock, listed, owner, eof, wire>>
    BY <1>1 DEF dataVars
  <2>5. SlotOK' /\ DataOK'
    BY <1>0, <2>1, <2>4 DEF SlotOK, DataOK, StreamLifecycle
  <2>6. /\ request[r].body = << >> /\ lock # r
        /\ request'[r].op = "Connect" => request'[r].handle = 0
    BY <1>1, <2>3 DEF StreamInv, LockInv, UpgradeInv
  <2>7. QED
    BY <1>1, <2>1, <2>3, <2>4, <2>5, <2>6, StepKept DEF Upgrades
<1>3. CASE lifecycle \notin Open \cup {"Upgrading"}
  <2>1. lifecycle' = lifecycle
    BY <1>3 DEF BeginClose
  <2>2. /\ RequestsOK' /\ Others(r) /\ request'[r].step \in {"done", "finishing"}
        /\ request'[r].op = request[r].op
        /\ request'[r].body \in {<< >>, request[r].body} /\ request'[r].handle = request[r].handle
    <3>1. "refused" \in Answer /\ "finishing" \in Step
      BY DEF Answer, Step
    <3>2. Respond(r, "refused") \/ Goto(r, "finishing")
      BY <1>3 DEF BeginClose
    <3>3. QED
      BY <1>0, <3>1, <3>2, RespondEffect, GotoEffect DEF Others
  <2>3. QED
    BY <1>0, <1>1, <2>1, <2>2, StayStep DEF Upgrades, SlotOK
<1>4. QED
  BY <1>2, <1>3

(* finish_close and fail_tls_upgrade, with the mutex free.                 *)
LEMMA FinishCloseStep ==
    ASSUME StreamInv, NEW r \in Request, FinishClose(r) PROVE StreamInv'
<1>0. RequestsOK /\ SlotOK /\ DataOK
  BY TypeParts DEF StreamInv
<1>1. /\ request[r].step = "finishing"
      /\ lock = NoRequest /\ state' = "Closed" /\ lifecycle' = "Closed" /\ read_buffer' = << >>
      /\ UNCHANGED <<generation, cancellation, input, unread, delivered, lock, listed, owner,
                     eof, wire>>
  BY DEF FinishClose, At, CloseState
<1>2. /\ RequestsOK' /\ Others(r) /\ request'[r].step = "done" /\ request'[r].op = request[r].op
      /\ request'[r].body = << >> /\ request'[r].handle = request[r].handle
  <2>1. PICK a \in {"ok", "interrupted"} : Respond(r, a)
    BY DEF FinishClose
  <2>2. a \in Answer
    BY <2>1 DEF Answer
  <2>3. QED
    BY <1>0, <2>1, <2>2, RespondEffect DEF Others
<1>3. SlotOK' /\ DataOK'
  <2>1. << >> \in Bytes
    BY SMT DEF Bytes
  <2>2. QED
    BY <1>0, <1>1, <2>1 DEF SlotOK, DataOK, StreamLifecycle, ManagedStreamState
<1>4. /\ request[r].body = << >> /\ lock # r
      /\ request'[r].op = "Connect" => request'[r].handle = 0
  BY <1>1, <1>2 DEF StreamInv, LockInv, UpgradeInv
<1>5. QED
  BY <1>1, <1>2, <1>3, <1>4, StepKept DEF Upgrades

LEMMA FailUpgradeStep ==
    ASSUME StreamInv, NEW r \in Request, FailUpgrade(r) PROVE StreamInv'
<1>0. RequestsOK /\ SlotOK /\ DataOK
  BY TypeParts DEF StreamInv
<1>1. /\ request[r].step = "broken" /\ lock = NoRequest /\ state' = "Closed"
      /\ lifecycle' = IF lifecycle = "Upgrading" THEN "Closed" ELSE lifecycle
      /\ UNCHANGED <<generation, cancellation, read_buffer, input, unread, delivered, lock,
                     listed, owner, eof, wire>>
  BY DEF FailUpgrade, At, dataVars
<1>2. /\ RequestsOK' /\ Others(r) /\ request'[r].step = "done" /\ request'[r].op = request[r].op
      /\ request'[r].body = << >> /\ request'[r].handle = request[r].handle
  <2>1. "interrupted" \in Answer /\ Respond(r, "interrupted")
    BY DEF Answer, FailUpgrade
  <2>2. QED
    BY <1>0, <2>1, RespondEffect DEF Others
<1>3. lifecycle' \in {"Closing", "Closed"} /\ (lifecycle' = lifecycle \/ lifecycle' = "Closed")
  <2>1. lifecycle \notin {"OpenTcp", "OpenTls"} /\ lifecycle \in StreamLifecycle
    BY <1>0, <1>1 DEF StreamInv, UpgradeInv, Upgrades, SlotOK
  <2>2. QED
    BY <1>1, <2>1 DEF StreamLifecycle, Open
<1>4. SlotOK' /\ DataOK'
  BY <1>0, <1>1, <1>3 DEF SlotOK, DataOK, StreamLifecycle, ManagedStreamState
<1>5. /\ request[r].body = << >> /\ lock # r
      /\ request'[r].op = "Connect" => request'[r].handle = 0
  BY <1>1, <1>2 DEF StreamInv, LockInv, UpgradeInv
<1>6. QED
  BY <1>1, <1>2, <1>3, <1>4, <1>5, StepKept DEF Upgrades

-----------------------------------------------------------------------------
(* Writes and flushes *)

LEMMA WriteStep ==
    ASSUME StreamInv, NEW r \in Request, Write(r) PROVE StreamInv'
<1>0. RequestsOK /\ SlotOK /\ DataOK
  BY TypeParts DEF StreamInv
<1>1. PICK k \in 1 .. request[r].size - request[r].written :
          /\ wire' = wire \o [i \in 1 .. k |-> r]
          /\ request' = [request EXCEPT ![r].written = @ + k]
  BY DEF Write
<1>2. /\ request[r].op = "WriteAll" /\ request[r].step = "io"
      /\ UNCHANGED <<lifecycle, generation, state, cancellation, read_buffer, input, unread,
                     delivered, lock, listed, owner, eof>>
  BY DEF Write, At, slotVars, dataVars
<1>3. request[r] \in RequestType /\ request[r].size \in Nat /\ request[r].written \in Nat
  BY <1>0, RequestParts
<1>4. PICK v : v = [request[r] EXCEPT !.written = @ + k]
  OBVIOUS
<1>5. request[r].written + k \in Nat /\ request[r].written + k <= request[r].size /\ k \in Nat
  BY <1>1, <1>3, SMT
<1>6. /\ v \in RequestType /\ v.written = request[r].written + k /\ v.size = request[r].size
      /\ v.step = request[r].step /\ v.op = request[r].op /\ v.body = request[r].body
      /\ v.handle = request[r].handle
  BY <1>3, <1>4, <1>5, SMT DEF RequestType
<1>7. RequestsOK' /\ request'[r] = v /\ Others(r)
  <2>1. request' = [request EXCEPT ![r] = v]
    BY <1>1, <1>4
  <2>2. v.written <= v.size
    BY <1>5, <1>6
  <2>3. QED
    BY <1>0, <1>6, <2>1, <2>2, RequestSet DEF Others
<1>8. wire' \in Seq(Request)
  <2>1. [i \in 1 .. k |-> r] \in Seq(Request)
    BY <1>5, SMT
  <2>2. QED
    BY <1>0, <1>1, <2>1, ConcatProperties DEF SlotOK
<1>9. SlotOK' /\ DataOK'
  BY <1>0, <1>2, <1>8 DEF SlotOK, DataOK
<1>10. /\ request[r].body = << >> /\ lock = r /\ state \in {"Tcp", "Tls"}
       /\ lifecycle' = "Closed" => state' = "Closed"
  BY <1>2 DEF StreamInv, LockInv, LifecycleInv
<1>11. "WriteAll" \in IO
  BY DEF IO
<1>12. QED
  BY <1>2, <1>6, <1>7, <1>9, <1>10, <1>11, StepKept DEF Upgrades

(* A request that read nothing gives up the mutex.                         *)
LEMMA ReturnStep ==
    ASSUME StreamInv, NEW r \in Request, NEW a \in Answer, Return(r, a),
           request[r].step = "io", request[r].body = << >>,
           UNCHANGED <<slotVars, dataVars, listed, owner, eof, wire>>
    PROVE  StreamInv'
<1>0. RequestsOK /\ SlotOK /\ DataOK
  BY TypeParts DEF StreamInv
<1>1. UNCHANGED <<lifecycle, generation, state, cancellation, read_buffer, input, unread,
                  delivered, listed, owner, eof, wire>>
  BY DEF slotVars, dataVars
<1>2. Respond(r, a) /\ lock' = NoRequest
  BY DEF Return
<1>3. /\ RequestsOK' /\ Others(r) /\ request'[r].step = "done" /\ request'[r].op = request[r].op
      /\ request'[r].body = << >> /\ request'[r].handle = request[r].handle
  BY <1>0, <1>2, RespondEffect DEF Others
<1>4. SlotOK' /\ DataOK'
  BY <1>0, <1>1, <1>2 DEF SlotOK, DataOK
<1>5. /\ lock = r /\ r # NoRequest
      /\ lifecycle' = "Closed" => state' = "Closed"
      /\ request'[r].op = "Connect" => request'[r].handle = 0
  BY <1>1, <1>3, StreamAssumption DEF StreamInv, LockInv, LifecycleInv, UpgradeInv
<1>6. QED
  BY <1>1, <1>2, <1>3, <1>4, <1>5, StepKept DEF Upgrades

LEMMA FlushStep ==
    ASSUME StreamInv, NEW r \in Request, Flush(r) PROVE StreamInv'
<1>1. /\ request[r].op \in {"Flush", "WriteAll"} /\ request[r].step = "io" /\ Return(r, "ok")
      /\ UNCHANGED <<slotVars, dataVars, listed, owner, eof, wire>>
  BY DEF Flush, At
<1>2. request[r].body = << >> /\ "ok" \in Answer
  BY <1>1 DEF StreamInv, LockInv, Answer
<1>3. QED
  BY <1>1, <1>2, ReturnStep

-----------------------------------------------------------------------------
(* The owner *)

(* The slot's side of a step that no request takes.                        *)
LEMMA OwnerStep ==
    ASSUME StreamInv, SlotOK', DataOK', request' = request, lock' = lock,
           UNCHANGED <<generation, delivered, input, unread>>,
           \/ UNCHANGED <<lifecycle, state, read_buffer>>
           \/ lock = NoRequest /\ state' = "Closed" /\ lifecycle' = "Closed"
    PROVE  StreamInv'
<1>0. RequestsOK /\ SlotOK /\ DataOK
  BY TypeParts DEF StreamInv
<1>1. RequestsOK' /\ Others(NoRequest) /\ NoRequest \notin Request
  BY <1>0, StreamAssumption DEF RequestsOK, Others
<1>2. lifecycle' = "Closed" => state' = "Closed"
  BY DEF StreamInv, LifecycleInv
<1>3. QED
  BY <1>1, <1>2, StepKept

LEMMA OwnerSteps ==
    ASSUME StreamInv, OwnerNext PROVE StreamInv'
<1>0. RequestsOK /\ SlotOK /\ DataOK
  BY TypeParts DEF StreamInv
<1>1. CASE Own \/ OwnRefused \/ Release \/ Remove
  <2>1. /\ UNCHANGED <<lifecycle, state, read_buffer, generation, input, unread, delivered, lock,
                       eof, wire, request>>
        /\ cancellation' \in BOOLEAN /\ listed' \in BOOLEAN
        /\ owner' \in {"unowned", "owning", "watching", "releasing", "removing", "released",
                       "refusing", "refused"}
    BY <1>0, <1>1 DEF Own, OwnRefused, Release, Remove, slotVars, ownerOnly, SlotOK
  <2>2. SlotOK' /\ DataOK'
    BY <1>0, <2>1 DEF SlotOK, DataOK
  <2>3. QED
    BY <2>1, <2>2, OwnerStep
<1>2. CASE OwnerCloses
  <2>1. /\ lock = NoRequest /\ state' = "Closed" /\ lifecycle' = "Closed" /\ read_buffer' = << >>
        /\ owner' \in {"refused", "removing"}
        /\ UNCHANGED <<cancellation, listed, generation, input, unread, delivered, lock, eof,
                       wire, request>>
    BY <1>2 DEF OwnerCloses, CloseState, ownerOnly
  <2>2. << >> \in Bytes
    BY SMT DEF Bytes
  <2>3. SlotOK' /\ DataOK'
    BY <1>0, <2>1, <2>2 DEF SlotOK, DataOK, StreamLifecycle, ManagedStreamState
  <2>4. QED
    BY <2>1, <2>3, OwnerStep
<1>3. QED
  BY <1>1, <1>2 DEF OwnerNext

LEMMA PeerFinishesStep ==
    ASSUME StreamInv, PeerFinishes PROVE StreamInv'
<1>0. RequestsOK /\ SlotOK /\ DataOK
  BY TypeParts DEF StreamInv
<1>1. /\ eof' = TRUE
      /\ UNCHANGED <<lifecycle, generation, state, cancellation, read_buffer, input, unread,
                     delivered, lock, listed, owner, wire, request>>
  BY DEF PeerFinishes, slotVars, dataVars
<1>2. SlotOK' /\ DataOK'
  BY <1>0, <1>1 DEF SlotOK, DataOK
<1>3. QED
  BY <1>1, <1>2, OwnerStep

LEMMA StutterStep ==
    ASSUME StreamInv, UNCHANGED vars PROVE StreamInv'
<1>0. RequestsOK /\ SlotOK /\ DataOK
  BY TypeParts DEF StreamInv
<1>1. UNCHANGED <<lifecycle, generation, state, cancellation, read_buffer, input, unread,
                  delivered, lock, listed, owner, eof, wire, request>>
  BY DEF vars, slotVars, dataVars
<1>2. SlotOK' /\ DataOK'
  BY <1>0, <1>1 DEF SlotOK, DataOK
<1>3. QED
  BY <1>1, <1>2, OwnerStep

-----------------------------------------------------------------------------
(* Bytes *)

LEMMA BytesConcat ==
    ASSUME NEW a \in Bytes, NEW b \in Bytes
    PROVE  a \o b \in Bytes
BY ConcatProperties DEF Bytes

LEMMA BytesEmpty ==
    /\ << >> \in Bytes
    /\ \A a \in Bytes : a \o << >> = a /\ << >> \o a = a
<1>1. << >> \in Bytes
  BY SMT DEF Bytes
<1>2. QED
  BY <1>1, ConcatEmptySeq DEF Bytes

(* Concatenation groups either way.                                        *)
LEMMA BytesGroup ==
    ASSUME NEW a \in Bytes, NEW b \in Bytes, NEW c \in Bytes
    PROVE  (a \o b) \o c = a \o (b \o c)
<1>1. PICK S : S = 1 .. InputBound
  OBVIOUS
<1>2. a \in Seq(S) /\ b \in Seq(S) /\ c \in Seq(S)
  BY <1>1 DEF Bytes
<1>3. QED
  BY <1>2, ConcatAssociative, SMT

LEMMA TakeDrop ==
    ASSUME NEW s \in Bytes, NEW k \in 0 .. Len(s)
    PROVE  /\ SubSeq(s, 1, k) \in Bytes /\ Drop(s, k) \in Bytes
           /\ SubSeq(s, 1, k) \o Drop(s, k) = s
           /\ Len(SubSeq(s, 1, k)) = k
<1>1. s \in Seq(1 .. InputBound) /\ Len(s) \in Nat /\ k \in Nat
  BY LenProperties, SMT DEF Bytes
<1>2. SubSeq(s, 1, k) \in Bytes /\ Drop(s, k) \in Bytes /\ Len(SubSeq(s, 1, k)) = k
  <2>1. /\ \A i \in 1 .. k : i \in 1 .. Len(s)
        /\ \A i \in k + 1 .. Len(s) : i \in 1 .. Len(s)
    BY <1>1, SMT
  <2>2. \A i \in 1 .. Len(s) : s[i] \in 1 .. InputBound
    BY <1>1, ElementOfSeq
  <2>3. SubSeq(s, 1, k) \in Seq(1 .. InputBound) /\ Len(SubSeq(s, 1, k)) = k
    BY <1>1, <2>1, <2>2, SubSeqProperties, SMT
  <2>4. SubSeq(s, k + 1, Len(s)) \in Seq(1 .. InputBound)
    BY <1>1, <2>1, <2>2, SubSeqProperties, SMT
  <2>5. QED
    BY <2>3, <2>4 DEF Drop, Bytes
<1>3. SubSeq(s, 1, k) \o SubSeq(s, k + 1, Len(s)) = SubSeq(s, 1, Len(s))
  <2>1. /\ 1 \in 1 .. Len(s) + 1 /\ k \in 1 - 1 .. Len(s) /\ Len(s) \in k .. Len(s)
    BY <1>1, SMT
  <2>2. QED
    BY <1>1, <2>1, ConcatAdjacentSubSeq
<1>4. SubSeq(s, 1, Len(s)) = s
  BY <1>1, SubSeqFull
<1>5. QED
  BY <1>2, <1>3, <1>4 DEF Drop

(* What connection.read returns and what it leaves behind are what there   *)
(* was.                                                                    *)
LEMMA ChunkTaken ==
    ASSUME DataOK, NEW n \in Nat, NEW c \in Chunks(n), NEW b, NEW u,
           b = IF read_buffer # << >> THEN Drop(read_buffer, Len(c)) ELSE << >>,
           u = IF read_buffer # << >> THEN unread ELSE Drop(unread, Len(c))
    PROVE  c \in Bytes /\ b \in Bytes /\ u \in Bytes /\ c \o (b \o u) = read_buffer \o unread
<1>1. read_buffer \in Bytes /\ unread \in Bytes
  BY DEF DataOK
<1>2. Len(read_buffer) \in Nat /\ Len(unread) \in Nat
  BY <1>1, LenProperties DEF Bytes
<1>3. CASE read_buffer # << >>
  <2>1. PICK k : k = IF n < Len(read_buffer) THEN n ELSE Len(read_buffer)
    OBVIOUS
  <2>2. c = SubSeq(read_buffer, 1, k)
    BY <1>3, <2>1 DEF Chunks
  <2>3. k \in 0 .. Len(read_buffer)
    BY <1>2, <2>1, SMT
  <2>4. /\ c \in Bytes /\ Drop(read_buffer, k) \in Bytes /\ c \o Drop(read_buffer, k) = read_buffer
        /\ Len(c) = k
    BY <1>1, <2>2, <2>3, TakeDrop
  <2>5. b = Drop(read_buffer, k) /\ u = unread
    BY <1>3, <2>4
  <2>6. (c \o b) \o u = c \o (b \o u)
    <3>1. c \in Bytes /\ b \in Bytes /\ u \in Bytes
      BY <1>1, <2>4, <2>5
    <3>2. QED
      BY ONLY <3>1, BytesGroup, SMT
  <2>7. QED
    BY <1>1, <2>4, <2>5, <2>6
<1>4. CASE read_buffer = << >>
  <2>1. PICK k \in 1 .. IF n < Len(unread) THEN n ELSE Len(unread) : c = SubSeq(unread, 1, k)
    BY <1>4 DEF Chunks
  <2>2. k \in 0 .. Len(unread)
    BY <1>2, <2>1, SMT
  <2>3. /\ c \in Bytes /\ Drop(unread, k) \in Bytes /\ c \o Drop(unread, k) = unread
        /\ Len(c) = k
    BY <1>1, <2>1, <2>2, TakeDrop
  <2>4. b = << >> /\ u = Drop(unread, k)
    BY <1>4, <2>3
  <2>5. QED
    BY <1>1, <1>4, <2>3, <2>4, BytesEmpty
<1>5. QED
  BY <1>3, <1>4

(* The same with a name for concatenation, which the provers then take as  *)
(* it is.                                                                  *)
Cat(a, b) == a \o b

LEMMA CatFacts ==
    /\ \A a, b \in Bytes : Cat(a, b) \in Bytes
    /\ \A a \in Bytes : Cat(<< >>, a) = a /\ Cat(a, << >>) = a
    /\ \A a, b, c \in Bytes : Cat(Cat(a, b), c) = Cat(a, Cat(b, c))
<1>1. \A a, b \in Bytes : Cat(a, b) \in Bytes
  BY BytesConcat DEF Cat
<1>2. \A a \in Bytes : Cat(<< >>, a) = a /\ Cat(a, << >>) = a
  BY BytesEmpty DEF Cat
<1>3. ASSUME NEW a \in Bytes, NEW b \in Bytes, NEW c \in Bytes
      PROVE  Cat(Cat(a, b), c) = Cat(a, Cat(b, c))
  BY ONLY a \in Bytes, b \in Bytes, c \in Bytes, BytesGroup, SMT DEF Cat
<1>4. QED
  BY <1>1, <1>2, <1>3

LEMMA Flat ==
    ASSUME NEW a \in Bytes, NEW b \in Bytes, NEW c \in Bytes, NEW d \in Bytes
    PROVE  Cat(Cat(Cat(a, b), c), d) = Cat(a, Cat(b, Cat(c, d)))
<1>1. Cat(a, b) \in Bytes /\ Cat(c, d) \in Bytes
  BY CatFacts
<1>2. Cat(Cat(Cat(a, b), c), d) = Cat(Cat(a, b), Cat(c, d))
  BY <1>1, CatFacts, SMT
<1>3. QED
  BY <1>1, <1>2, CatFacts, SMT

(* The four ways a read moves bytes: it is answered with c, it is answered *)
(* with the q it has gathered, it puts q and c back, it adds c to q.       *)
LEMMA ReadMoves ==
    ASSUME NEW d \in Bytes, NEW q \in Bytes, NEW c \in Bytes, NEW b \in Bytes, NEW u \in Bytes,
           NEW x \in Bytes, Cat(c, Cat(b, u)) = x
    PROVE  /\ Cat(Cat(d, c), Cat(<< >>, Cat(b, u))) = Cat(d, Cat(<< >>, x))
           /\ Cat(Cat(d, q), Cat(<< >>, x)) = Cat(d, Cat(q, x))
           /\ Cat(d, Cat(<< >>, Cat(Cat(Cat(q, c), b), u))) = Cat(d, Cat(q, x))
           /\ Cat(d, Cat(Cat(q, c), Cat(b, u))) = Cat(d, Cat(q, x))
<1>1. Cat(b, u) \in Bytes /\ Cat(q, x) \in Bytes
  BY CatFacts
<1>2. /\ Cat(<< >>, Cat(b, u)) = Cat(b, u) /\ Cat(<< >>, x) = x
      /\ Cat(<< >>, Cat(q, x)) = Cat(q, x)
  BY <1>1, CatFacts
<1>3. Cat(Cat(d, c), Cat(b, u)) = Cat(d, x)
  <2>1. Cat(Cat(d, c), Cat(b, u)) = Cat(d, Cat(c, Cat(b, u)))
    BY <1>1, CatFacts, SMT
  <2>2. QED
    BY <2>1
<1>4. Cat(Cat(d, q), x) = Cat(d, Cat(q, x))
  BY CatFacts
<1>5. Cat(Cat(Cat(q, c), b), u) = Cat(q, x)
  <2>1. Cat(Cat(Cat(q, c), b), u) = Cat(q, Cat(c, Cat(b, u)))
    BY Flat, SMT
  <2>2. QED
    BY <2>1
<1>6. Cat(Cat(q, c), Cat(b, u)) = Cat(q, x)
  <2>1. Cat(Cat(q, c), Cat(b, u)) = Cat(q, Cat(c, Cat(b, u)))
    BY <1>1, CatFacts, SMT
  <2>2. QED
    BY <2>1
<1>7. QED
  BY <1>2, <1>3, <1>4, <1>5, <1>6

(* The holder of the mutex transfers, and the stream keeps its bytes.      *)
LEMMA TransferStep ==
    ASSUME StreamInv, NEW r \in Request, RequestsOK', SlotOK', DataOK', Others(r),
           request[r].step = "io", UNCHANGED <<lifecycle, generation, state, input>>,
           request'[r].step \in {"io", "done", "failed"},
           lock' = IF request'[r].step = "io" THEN r ELSE NoRequest,
           request'[r].op = request[r].op, request'[r].handle = request[r].handle,
           request'[r].body # << >> =>
               request'[r].step = "io" /\ request'[r].op = "ReadUntilLimit",
           Cat(delivered', Cat(request'[r].body, Cat(read_buffer', unread'))) =
               Cat(delivered, Cat(request[r].body, Cat(read_buffer, unread)))
    PROVE  StreamInv'
<1>0. RequestsOK /\ SlotOK /\ DataOK
  BY TypeParts DEF StreamInv
<1>1. /\ lock = r /\ r # NoRequest /\ state \in {"Tcp", "Tls"} /\ request[r].op \in IO
      /\ request[r].op = "Connect" => request[r].handle = 0
  BY StreamAssumption DEF StreamInv, LockInv, UpgradeInv
<1>2. TypeOK'
  BY DEF TypeOK, RequestsOK, SlotOK, DataOK, RequestType, Handles, Sizes, Bytes
<1>3. LockInv'
  <2>1. lock' \in {NoRequest, r} /\ (request'[r].step = "io" <=> lock' = r)
    BY <1>1
  <2>2. /\ request'[r].step \in {"io", "switching"} <=> lock' = r
        /\ request'[r].step = "io" => state' \in {"Tcp", "Tls"} /\ request'[r].op \in IO
    BY <1>1, <2>1
  <2>3. QED
    BY <1>1, <2>1, <2>2, LockKept DEF StreamInv
<1>4. UpgradeInv'
  BY <1>1, UpgradeKept DEF StreamInv, Upgrades
<1>5. LifecycleInv'
  BY LifecycleKept DEF StreamInv, LifecycleInv
<1>6. BytesInv'
  <2>1. Held = request[r].body /\ Held' = request'[r].body
    BY <1>1 DEF Held
  <2>2. request[r].body \in Bytes
    BY <1>0, RequestParts
  <2>3. request'[r].body \in Bytes
    <3>1. request'[r] \in RequestType
      BY DEF RequestsOK
    <3>2. QED
      BY <3>1, SMT DEF RequestType
  <2>4. PICK d, h, b, u : d = delivered /\ h = request[r].body /\ b = read_buffer /\ u = unread
    OBVIOUS
  <2>5. PICK e, g, c, v : e = delivered' /\ g = request'[r].body /\ c = read_buffer' /\ v = unread'
    OBVIOUS
  <2>6. d \in Bytes /\ h \in Bytes /\ b \in Bytes /\ u \in Bytes
    BY <1>0, <2>2, <2>4 DEF DataOK
  <2>7. e \in Bytes /\ g \in Bytes /\ c \in Bytes /\ v \in Bytes
    BY <2>3, <2>5 DEF DataOK
  <2>8. Cat(Cat(Cat(d, h), b), u) = input
    BY <1>1, <2>1, <2>4 DEF StreamInv, BytesInv, Cat
  <2>9. Cat(e, Cat(g, Cat(c, v))) = Cat(d, Cat(h, Cat(b, u)))
    BY <2>4, <2>5
  <2>10. Cat(Cat(Cat(e, g), c), v) = Cat(Cat(Cat(d, h), b), u)
    <3>1. Cat(Cat(Cat(e, g), c), v) = Cat(e, Cat(g, Cat(c, v)))
      BY <2>7, Flat, SMT
    <3>2. Cat(Cat(Cat(d, h), b), u) = Cat(d, Cat(h, Cat(b, u)))
      BY <2>6, Flat, SMT
    <3>3. QED
      BY <2>9, <3>1, <3>2
  <2>11. delivered' \o Held' \o read_buffer' \o unread' = input'
    BY <2>1, <2>5, <2>8, <2>10 DEF Cat
  <2>12. QED
    BY <2>11 DEF BytesInv
<1>7. QED
  BY <1>2, <1>3, <1>4, <1>5, <1>6 DEF StreamInv

LEMMA ReadStep ==
    ASSUME StreamInv, NEW r \in Request, Read(r) PROVE StreamInv'
<1>0. RequestsOK /\ SlotOK /\ DataOK
  BY TypeParts DEF StreamInv
<1>1. /\ request[r].op = "Read" /\ request[r].step = "io"
      /\ UNCHANGED <<slotVars, listed, owner, eof, wire>>
  BY DEF Read, At
<1>2. request[r].body = << >>
  BY <1>1 DEF StreamInv, LockInv
<1>3. ASSUME NEW a \in {"ok", "Eof"}, Return(r, a), UNCHANGED dataVars
      PROVE  StreamInv'
  <2>1. a \in Answer
    BY DEF Answer
  <2>2. QED
    BY <1>1, <1>2, <1>3, <2>1, ReturnStep
<1>4. ASSUME NEW c \in Chunks(request[r].size), Taken(c), delivered' = delivered \o c,
             Return(r, "ok"), UNCHANGED input
      PROVE  StreamInv'
  <2>1. /\ RequestsOK' /\ Others(r) /\ request'[r].step = "done"
        /\ request'[r].op = request[r].op
        /\ request'[r].body = << >> /\ request'[r].handle = request[r].handle
    <3>1. Respond(r, "ok") /\ "ok" \in Answer
      BY <1>4 DEF Return, Answer
    <3>2. QED
      BY <1>0, <3>1, RespondEffect DEF Others
  <2>2. PICK d, x, b, u : /\ d = delivered /\ x = Cat(read_buffer, unread)
                          /\ b = read_buffer' /\ u = unread'
    OBVIOUS
  <2>3. request[r].size \in Nat /\ delivered \in Bytes /\ read_buffer \in Bytes /\ unread \in Bytes
    BY <1>0, RequestParts DEF DataOK
  <2>4. c \in Bytes /\ b \in Bytes /\ u \in Bytes /\ c \o (b \o u) = read_buffer \o unread
    <3>1. PICK n : n = request[r].size
      OBVIOUS
    <3>2. n \in Nat /\ c \in Chunks(n)
      BY <1>4, <2>3, <3>1
    <3>3. /\ b = IF read_buffer # << >> THEN Drop(read_buffer, Len(c)) ELSE << >>
          /\ u = IF read_buffer # << >> THEN unread ELSE Drop(unread, Len(c))
      BY <1>4, <2>2 DEF Taken
    <3>4. QED
      BY <1>0, <3>2, <3>3, ChunkTaken
  <2>5. x \in Bytes /\ d \in Bytes /\ Cat(c, Cat(b, u)) = x
    BY <2>2, <2>3, <2>4, CatFacts DEF Cat
  <2>6. Cat(Cat(d, c), Cat(<< >>, Cat(b, u))) = Cat(d, Cat(<< >>, x))
    BY <2>4, <2>5, ReadMoves, SMT
  <2>7. delivered' = Cat(d, c)
    BY <1>4, <2>2 DEF Cat
  <2>8. SlotOK' /\ DataOK'
    <3>1. delivered' \in Bytes
      BY <2>4, <2>5, <2>7, CatFacts
    <3>2. lock' = NoRequest
      BY <1>4 DEF Return
    <3>3. QED
      BY <1>0, <1>1, <1>4, <2>2, <2>4, <3>1, <3>2 DEF SlotOK, DataOK, slotVars
  <2>9. Cat(delivered', Cat(request'[r].body, Cat(read_buffer', unread'))) =
            Cat(delivered, Cat(request[r].body, Cat(read_buffer, unread)))
    BY <1>2, <2>1, <2>2, <2>6, <2>7
  <2>10. lock' = NoRequest /\ UNCHANGED <<lifecycle, generation, state, input>>
    BY <1>1, <1>4 DEF Return, slotVars
  <2>11. QED
    BY <1>1, <2>1, <2>8, <2>9, <2>10, TransferStep
<1>5. QED
  BY <1>3, <1>4 DEF Read

LEMMA InterruptStep ==
    ASSUME StreamInv, NEW r \in Request, Interrupt(r) PROVE StreamInv'
<1>0. RequestsOK /\ SlotOK /\ DataOK
  BY TypeParts DEF StreamInv
<1>1. /\ request[r].op \in IO /\ request[r].step = "io"
      /\ read_buffer' = request[r].body \o read_buffer /\ lock' = NoRequest
      /\ UNCHANGED <<lifecycle, generation, state, cancellation, input, unread, delivered, listed,
                     owner, eof, wire>>
  BY DEF Interrupt, At, slotVars
<1>2. /\ RequestsOK' /\ Others(r) /\ request'[r].step \in {"done", "failed"}
      /\ request'[r].op = request[r].op
      /\ request'[r].body = << >> /\ request'[r].handle = request[r].handle
  <2>0. "interrupted" \in Answer /\ "failed" \in Step
    BY DEF Answer, Step
  <2>1. CASE request[r].op = "WriteAll"
    <3>1. request' = [request EXCEPT ![r].step = "failed", ![r].answer = "interrupted"]
      BY <2>1 DEF Interrupt
    <3>2. request[r].body = << >>
      BY <2>1 DEF StreamInv, LockInv
    <3>3. PICK f : f = [request EXCEPT ![r].step = "failed"]
      OBVIOUS
    <3>4. PICK u : u = [request[r] EXCEPT !.step = "failed"]
      OBVIOUS
    <3>5. PICK v : v = [u EXCEPT !.answer = "interrupted"]
      OBVIOUS
    <3>6. request' = [f EXCEPT ![r].answer = "interrupted"]
      BY <3>1, <3>3
    <3>7. request[r] \in RequestType /\ request[r].written <= request[r].size
      BY <1>0 DEF RequestsOK
    <3>8. /\ u \in RequestType /\ u.step = "failed" /\ u.op = request[r].op
          /\ u.handle = request[r].handle /\ u.written = request[r].written
          /\ u.size = request[r].size /\ u.body = request[r].body
      BY <2>0, <3>4, <3>7, SMT DEF RequestType
    <3>9. /\ v \in RequestType /\ v.step = "failed" /\ v.op = request[r].op
          /\ v.handle = request[r].handle /\ v.written = request[r].written
          /\ v.size = request[r].size /\ v.body = request[r].body
      BY <2>0, <3>5, <3>8, SMT DEF RequestType
    <3>10. /\ f \in [Request -> RequestType] /\ f[r] = u
           /\ \A q \in Request \ {r} : f[q] = request[q]
      <4>1. f = [request EXCEPT ![r] = u]
        BY <3>3, <3>4
      <4>2. QED
        BY <1>0, <3>8, <4>1, SMT DEF RequestsOK
    <3>11. /\ request' \in [Request -> RequestType] /\ request'[r] = v
           /\ \A q \in Request \ {r} : request'[q] = request[q]
      <4>1. request' = [f EXCEPT ![r] = v]
        BY <3>5, <3>6, <3>10
      <4>2. QED
        BY <3>9, <3>10, <4>1, SMT
    <3>12. RequestsOK'
      BY <1>0, <3>7, <3>9, <3>11 DEF RequestsOK
    <3>13. QED
      BY <3>2, <3>9, <3>11, <3>12 DEF Others
  <2>2. CASE request[r].op # "WriteAll"
    <3>1. Respond(r, "interrupted")
      BY <2>2 DEF Interrupt
    <3>2. QED
      BY <1>0, <2>0, <3>1, RespondEffect DEF Others
  <2>3. QED
    BY <2>1, <2>2
<1>3. PICK d, q, b, u : d = delivered /\ q = request[r].body /\ b = read_buffer /\ u = unread
  OBVIOUS
<1>4. d \in Bytes /\ q \in Bytes /\ b \in Bytes /\ u \in Bytes
  BY <1>0, <1>3, RequestParts DEF DataOK
<1>5. read_buffer' = Cat(q, b)
  BY <1>1, <1>3 DEF Cat
<1>6. Cat(d, Cat(<< >>, Cat(Cat(q, b), u))) = Cat(d, Cat(q, Cat(b, u)))
  <2>1. Cat(b, u) \in Bytes /\ Cat(Cat(q, b), u) \in Bytes
    BY <1>4, CatFacts
  <2>2. Cat(<< >>, Cat(Cat(q, b), u)) = Cat(Cat(q, b), u)
    BY <2>1, CatFacts
  <2>3. Cat(Cat(q, b), u) = Cat(q, Cat(b, u))
    BY <1>4, CatFacts, SMT
  <2>4. QED
    BY <2>2, <2>3
<1>7. SlotOK' /\ DataOK'
  <2>1. read_buffer' \in Bytes
    BY <1>4, <1>5, CatFacts
  <2>2. QED
    BY <1>0, <1>1, <2>1 DEF SlotOK, DataOK
<1>8. Cat(delivered', Cat(request'[r].body, Cat(read_buffer', unread'))) =
          Cat(delivered, Cat(request[r].body, Cat(read_buffer, unread)))
  BY <1>1, <1>2, <1>3, <1>5, <1>6
<1>9. QED
  BY <1>1, <1>2, <1>7, <1>8, TransferStep

(* A request's body becomes b.                                             *)
LEMMA BodyEffect ==
    ASSUME RequestsOK, NEW r \in Request, NEW b \in Bytes,
           request' = [request EXCEPT ![r].body = b]
    PROVE  /\ RequestsOK' /\ Others(r) /\ request'[r].body = b
           /\ request'[r].step = request[r].step /\ request'[r].op = request[r].op
           /\ request'[r].handle = request[r].handle
<1>1. PICK v : v = [request[r] EXCEPT !.body = b]
  OBVIOUS
<1>2. request' = [request EXCEPT ![r] = v]
  BY <1>1
<1>3. request[r] \in RequestType /\ request[r].written <= request[r].size
  BY DEF RequestsOK
<1>4. /\ v \in RequestType /\ v.step = request[r].step /\ v.op = request[r].op /\ v.body = b
      /\ v.handle = request[r].handle /\ v.written = request[r].written
      /\ v.size = request[r].size
  BY <1>1, <1>3, SMT DEF RequestType
<1>5. QED
  BY <1>2, <1>3, <1>4, RequestSet DEF Others

LEMMA ReadUntilLimitStep ==
    ASSUME StreamInv, NEW r \in Request, ReadUntilLimit(r) PROVE StreamInv'
<1>0. RequestsOK /\ SlotOK /\ DataOK
  BY TypeParts DEF StreamInv
<1>1. /\ request[r].op = "ReadUntilLimit" /\ request[r].step = "io"
      /\ UNCHANGED <<lifecycle, generation, state, cancellation, listed, owner, eof, wire>>
  BY DEF ReadUntilLimit, At, slotVars
<1>2. PICK d, q, b, u, x : /\ d = delivered /\ q = request[r].body /\ b = read_buffer /\ u = unread
                           /\ x = Cat(read_buffer, unread)
  OBVIOUS
<1>3. d \in Bytes /\ q \in Bytes /\ b \in Bytes /\ u \in Bytes /\ x \in Bytes /\ << >> \in Bytes
  <2>1. d \in Bytes /\ q \in Bytes /\ b \in Bytes /\ u \in Bytes
    BY <1>0, <1>2, RequestParts DEF DataOK
  <2>2. QED
    BY <1>2, <2>1, CatFacts, BytesEmpty
<1>4. ASSUME NEW a \in Answer, Return(r, a)
      PROVE  /\ RequestsOK' /\ Others(r) /\ request'[r].step = "done" /\ lock' = NoRequest
             /\ request'[r].op = request[r].op
             /\ request'[r].body = << >> /\ request'[r].handle = request[r].handle
  BY <1>0, <1>4, RespondEffect DEF Return, Others
<1>5. ASSUME NEW a \in Answer, Return(r, a), delivered' = delivered \o q,
             UNCHANGED <<input, read_buffer, unread>>
      PROVE  StreamInv'
  <2>1. delivered' = Cat(d, q)
    BY <1>2, <1>5 DEF Cat
  <2>2. Cat(Cat(d, q), Cat(<< >>, x)) = Cat(d, Cat(q, x))
    BY <1>3, CatFacts, SMT
  <2>3. Cat(delivered', Cat(request'[r].body, Cat(read_buffer', unread'))) =
            Cat(delivered, Cat(request[r].body, Cat(read_buffer, unread)))
    BY <1>2, <1>4, <1>5, <2>1, <2>2
  <2>4. SlotOK' /\ DataOK'
    <3>1. delivered' \in Bytes
      BY <1>3, <2>1, CatFacts
    <3>2. QED
      BY <1>0, <1>1, <1>4, <1>5, <3>1 DEF SlotOK, DataOK
  <2>5. QED
    BY <1>1, <1>4, <1>5, <2>3, <2>4, TransferStep
<1>6. ASSUME NEW n \in Nat, NEW c \in Chunks(n), UNCHANGED <<input, delivered>>,
             NEW b1, b1 = IF read_buffer # << >> THEN Drop(read_buffer, Len(c)) ELSE << >>,
             unread' = IF read_buffer # << >> THEN unread ELSE Drop(unread, Len(c)),
             \/ read_buffer' = q \o c \o b1 /\ Return(r, "LimitExceeded")
             \/ /\ read_buffer' = b1 /\ UNCHANGED lock
                /\ request' = [request EXCEPT ![r].body = q \o c]
      PROVE  StreamInv'
  <2>1. PICK v : v = unread'
    OBVIOUS
  <2>2. c \in Bytes /\ b1 \in Bytes /\ v \in Bytes /\ c \o (b1 \o v) = read_buffer \o unread
    <3>1. /\ n \in Nat /\ c \in Chunks(n)
          /\ b1 = IF read_buffer # << >> THEN Drop(read_buffer, Len(c)) ELSE << >>
          /\ v = IF read_buffer # << >> THEN unread ELSE Drop(unread, Len(c))
      BY <1>6, <2>1
    <3>2. QED
      BY <1>0, <3>1, ChunkTaken
  <2>3. Cat(c, Cat(b1, v)) = x
    BY <1>2, <2>2 DEF Cat
  <2>4. /\ Cat(d, Cat(<< >>, Cat(Cat(Cat(q, c), b1), v))) = Cat(d, Cat(q, x))
        /\ Cat(d, Cat(Cat(q, c), Cat(b1, v))) = Cat(d, Cat(q, x))
    <3>1. c \in Bytes /\ b1 \in Bytes /\ v \in Bytes
      BY <2>2
    <3>2. Cat(d, Cat(<< >>, Cat(Cat(Cat(q, c), b1), v))) = Cat(d, Cat(q, x))
      BY ONLY <1>3, <2>3, <3>1, ReadMoves, SMT
    <3>3. Cat(d, Cat(Cat(q, c), Cat(b1, v))) = Cat(d, Cat(q, x))
      BY ONLY <1>3, <2>3, <3>1, ReadMoves, SMT
    <3>4. QED
      BY <3>2, <3>3
  <2>5. Cat(q, c) \in Bytes /\ Cat(Cat(q, c), b1) \in Bytes
    BY <1>3, <2>2, CatFacts
  <2>6. CASE read_buffer' = q \o c \o b1 /\ Return(r, "LimitExceeded")
    <3>1. read_buffer' = Cat(Cat(q, c), b1) /\ "LimitExceeded" \in Answer
      BY <2>6 DEF Cat, Answer
    <3>2. Cat(delivered', Cat(request'[r].body, Cat(read_buffer', unread'))) =
              Cat(delivered, Cat(request[r].body, Cat(read_buffer, unread)))
      BY <1>2, <1>4, <1>6, <2>1, <2>4, <2>6, <3>1
    <3>3. SlotOK' /\ DataOK'
      BY <1>0, <1>1, <1>4, <1>6, <2>1, <2>2, <2>5, <2>6, <3>1 DEF SlotOK, DataOK
    <3>4. QED
      BY <1>1, <1>4, <1>6, <2>6, <3>1, <3>2, <3>3, TransferStep
  <2>7. CASE /\ read_buffer' = b1 /\ UNCHANGED lock
             /\ request' = [request EXCEPT ![r].body = q \o c]
    <3>1. request' = [request EXCEPT ![r].body = Cat(q, c)]
      BY <2>7 DEF Cat
    <3>2. /\ RequestsOK' /\ Others(r) /\ request'[r].body = Cat(q, c)
          /\ request'[r].step = request[r].step /\ request'[r].op = request[r].op
          /\ request'[r].handle = request[r].handle
      BY <1>0, <2>5, <3>1, BodyEffect
    <3>3. Cat(delivered', Cat(request'[r].body, Cat(read_buffer', unread'))) =
              Cat(delivered, Cat(request[r].body, Cat(read_buffer, unread)))
      BY <1>2, <1>6, <2>1, <2>4, <2>7, <3>2
    <3>4. SlotOK' /\ DataOK' /\ lock' = r
      BY <1>0, <1>1, <1>6, <2>1, <2>2, <2>7 DEF SlotOK, DataOK, StreamInv, LockInv
    <3>5. QED
      BY <1>1, <1>6, <3>2, <3>3, <3>4, TransferStep
  <2>8. QED
    BY <1>6, <2>6, <2>7
<1>7. CASE /\ delivered' = delivered \o q /\ UNCHANGED <<input, read_buffer, unread>>
           /\ \E a \in {"Eof", "ok"} : Return(r, a)
  <2>1. {"Eof", "ok"} \subseteq Answer
    BY DEF Answer
  <2>2. QED
    BY <1>5, <1>7, <2>1
<1>8. CASE \E c \in Chunks(request[r].size - Len(q) + 1) :
              /\ request[r].size - Len(q) > 0
              /\ IF Len(c) > request[r].size - Len(q)
                 THEN /\ read_buffer' = q \o c \o
                            (IF read_buffer # << >> THEN Drop(read_buffer, Len(c)) ELSE << >>)
                      /\ unread' = IF read_buffer # << >> THEN unread ELSE Drop(unread, Len(c))
                      /\ Return(r, "LimitExceeded")
                 ELSE /\ Taken(c)
                      /\ request' = [request EXCEPT ![r].body = q \o c]
                      /\ UNCHANGED lock
              /\ UNCHANGED <<input, delivered>>
  <2>1. PICK n : n = request[r].size - Len(q) + 1
    OBVIOUS
  <2>2. PICK c \in Chunks(n) :
              /\ request[r].size - Len(q) > 0
              /\ IF Len(c) > request[r].size - Len(q)
                 THEN /\ read_buffer' = q \o c \o
                            (IF read_buffer # << >> THEN Drop(read_buffer, Len(c)) ELSE << >>)
                      /\ unread' = IF read_buffer # << >> THEN unread ELSE Drop(unread, Len(c))
                      /\ Return(r, "LimitExceeded")
                 ELSE /\ Taken(c)
                      /\ request' = [request EXCEPT ![r].body = q \o c]
                      /\ UNCHANGED lock
              /\ UNCHANGED <<input, delivered>>
    BY <1>8, <2>1
  <2>3. n \in Nat
    <3>1. request[r].size \in Nat /\ Len(q) \in Nat
      BY <1>0, <1>3, RequestParts, LenProperties DEF Bytes
    <3>2. QED
      BY <2>1, <2>2, <3>1, SMT
  <2>4. PICK b1 : b1 = IF read_buffer # << >> THEN Drop(read_buffer, Len(c)) ELSE << >>
    OBVIOUS
  <2>5. /\ unread' = IF read_buffer # << >> THEN unread ELSE Drop(unread, Len(c))
        /\ \/ read_buffer' = q \o c \o b1 /\ Return(r, "LimitExceeded")
           \/ /\ read_buffer' = b1 /\ UNCHANGED lock
              /\ request' = [request EXCEPT ![r].body = q \o c]
    BY <2>2, <2>4 DEF Taken
  <2>6. QED
    BY <1>6, <2>2, <2>3, <2>4, <2>5
<1>9. QED
  BY <1>2, <1>7, <1>8 DEF ReadUntilLimit

LEMMA PeerSendsStep ==
    ASSUME StreamInv, PeerSends PROVE StreamInv'
<1>0. RequestsOK /\ SlotOK /\ DataOK
  BY TypeParts DEF StreamInv
<1>1. /\ state \in {"Tcp", "Tls"} /\ Len(input) < InputBound
      /\ input' = Append(input, Len(input) + 1) /\ unread' = Append(unread, Len(input) + 1)
      /\ UNCHANGED <<lifecycle, generation, state, cancellation, read_buffer, delivered, lock,
                     listed, owner, eof, wire, request>>
  BY DEF PeerSends, slotVars
<1>2. PICK i, u, d, b, h, y : /\ i = input /\ u = unread /\ d = delivered /\ b = read_buffer
                              /\ h = Held /\ y = <<Len(input) + 1>>
  OBVIOUS
<1>3. i \in Bytes /\ u \in Bytes /\ d \in Bytes /\ b \in Bytes
  BY <1>0, <1>2 DEF DataOK
<1>4. h \in Bytes
  BY <1>0, <1>2, RequestParts, BytesEmpty DEF Held, SlotOK
<1>5. Len(i) + 1 \in 1 .. InputBound
  <2>1. Len(i) \in Nat
    BY <1>3, LenProperties DEF Bytes
  <2>2. QED
    BY <1>1, <1>2, <2>1, StreamAssumption, SMT
<1>6. y \in Bytes
  BY <1>2, <1>5, SMT DEF Bytes
<1>7. input' = Cat(i, y) /\ unread' = Cat(u, y)
  <2>1. PICK x : x = Len(i) + 1
    OBVIOUS
  <2>2. i \in Seq(1 .. InputBound) /\ u \in Seq(1 .. InputBound) /\ x \in 1 .. InputBound
    BY <1>3, <1>5, <2>1 DEF Bytes
  <2>3. Append(i, x) = i \o <<x>> /\ Append(u, x) = u \o <<x>>
    BY <2>2, AppendIsConcat
  <2>4. QED
    BY <1>1, <1>2, <2>1, <2>3 DEF Cat
<1>8. SlotOK' /\ DataOK' /\ RequestsOK'
  <2>1. input' \in Bytes /\ unread' \in Bytes
    BY <1>3, <1>6, <1>7, CatFacts
  <2>2. QED
    BY <1>0, <1>1, <2>1 DEF SlotOK, DataOK, RequestsOK
<1>9. TypeOK'
  BY <1>8 DEF TypeOK, RequestsOK, SlotOK, DataOK, RequestType, Handles, Sizes, Bytes
<1>10. LockInv' /\ UpgradeInv' /\ LifecycleInv'
  BY <1>1 DEF StreamInv, LockInv, UpgradeInv, LifecycleInv, Upgrades
<1>11. BytesInv'
  <2>1. Held' = h
    BY <1>1, <1>2 DEF Held
  <2>2. PICK p : p = Cat(Cat(d, h), b)
    OBVIOUS
  <2>3. p \in Bytes
    BY <1>3, <1>4, <2>2, CatFacts
  <2>4. Cat(p, u) = i
    BY <1>1, <1>2, <2>2 DEF StreamInv, BytesInv, Cat
  <2>5. Cat(p, Cat(u, y)) = Cat(Cat(p, u), y)
    BY <1>3, <1>6, <2>3, CatFacts, SMT
  <2>6. Cat(p, unread') = input'
    BY <1>7, <2>4, <2>5
  <2>7. delivered' \o Held' \o read_buffer' \o unread' = input'
    BY <1>1, <1>2, <2>1, <2>2, <2>6 DEF Cat
  <2>8. QED
    BY <2>7 DEF BytesInv
<1>12. QED
  BY <1>9, <1>10, <1>11 DEF StreamInv

-----------------------------------------------------------------------------
(* The upgrade *)

(* Without what is unread, the input is what was answered.                 *)
LEMMA Prefix ==
    ASSUME NEW d \in Bytes, NEW u \in Bytes
    PROVE  SubSeq(d \o u, 1, Len(d \o u) - Len(u)) = d
<1>1. PICK S : S = 1 .. InputBound
  OBVIOUS
<1>2. d \in Seq(S) /\ u \in Seq(S)
  BY <1>1 DEF Bytes
<1>3. PICK w : w = d \o u
  OBVIOUS
<1>4. /\ w \in Seq(S) /\ Len(w) = Len(d) + Len(u) /\ Len(d) \in Nat /\ Len(u) \in Nat
      /\ \A i \in 1 .. Len(d) : w[i] = d[i]
  BY <1>2, <1>3, ConcatProperties, LenProperties, SMT
<1>5. Len(w) - Len(u) = Len(d)
  BY <1>4, SMT
<1>6. PICK v : v = SubSeq(w, 1, Len(d))
  OBVIOUS
<1>7. v \in Seq(S) /\ Len(v) = Len(d) /\ \A i \in 1 .. Len(d) : v[i] = d[i]
  BY <1>2, <1>4, <1>6, SMT
<1>8. v = d
  BY <1>2, <1>7, SeqEqual
<1>9. QED
  BY <1>3, <1>5, <1>6, <1>8

LEMMA BeginUpgradeStep ==
    ASSUME StreamInv, NEW r \in Request, BeginUpgrade(r) PROVE StreamInv'
<1>0. RequestsOK /\ SlotOK /\ DataOK
  BY TypeParts DEF StreamInv
<1>1. /\ request[r].op = "Connect" /\ request[r].step = "checked"
      /\ UNCHANGED <<generation, cancellation, delivered, lock, listed, owner, eof, wire>>
  BY DEF BeginUpgrade, At
<1>2. CASE Respond(r, "refused") /\ UNCHANGED <<lifecycle, state, read_buffer, unread, input>>
  <2>1. /\ RequestsOK' /\ Others(r) /\ request'[r].step = "done" /\ request'[r].op = request[r].op
        /\ request'[r].body = << >> /\ request'[r].handle = request[r].handle
    <3>1. "refused" \in Answer
      BY DEF Answer
    <3>2. QED
      BY <1>0, <1>2, <3>1, RespondEffect DEF Others
  <2>2. /\ UNCHANGED <<lifecycle, generation, state, dataVars, lock, listed, owner, eof, wire>>
        /\ cancellation' \in BOOLEAN
    BY <1>0, <1>1, <1>2 DEF dataVars, SlotOK
  <2>3. QED
    BY <1>1, <2>1, <2>2, StayStep DEF Upgrades
<1>3. CASE /\ Upgradable(request[r].handle)
           /\ lifecycle' = "Upgrading" /\ state' = "Upgrading"
           /\ read_buffer' = << >> /\ unread' = << >>
           /\ input' = SubSeq(input, 1, Len(input) - Len(unread))
           /\ Goto(r, "handshake")
  <2>1. "handshake" \in Step
    BY DEF Step
  <2>2. /\ RequestsOK' /\ Others(r) /\ request'[r].step = "handshake"
        /\ request'[r].op = request[r].op
        /\ request'[r].body = request[r].body /\ request'[r].handle = request[r].handle
    BY <1>0, <1>3, <2>1, GotoEffect DEF Others
  <2>3. /\ lock = NoRequest /\ lifecycle = "OpenTcp" /\ state = "Tcp" /\ read_buffer = << >>
        /\ request[r].handle = generation /\ generation = 0 /\ r # NoRequest
    BY <1>1, <1>3, StreamAssumption DEF Upgradable, StreamInv, UpgradeInv
  <2>4. PICK d, u : d = delivered /\ u = unread
    OBVIOUS
  <2>5. d \in Bytes /\ u \in Bytes
    BY <1>0, <2>4 DEF DataOK
  <2>6. input = d \o u
    <3>1. Held = << >>
      BY <2>3 DEF Held
    <3>2. Cat(Cat(Cat(d, << >>), << >>), u) = input
      BY <2>3, <2>4, <3>1 DEF StreamInv, BytesInv, Cat
    <3>3. Cat(Cat(d, << >>), << >>) = d
      BY <2>5, CatFacts
    <3>4. QED
      BY <3>2, <3>3 DEF Cat
  <2>7. input' = d
    BY <1>3, <2>4, <2>5, <2>6, Prefix
  <2>8. SlotOK' /\ DataOK'
    BY <1>0, <1>1, <1>3, <2>4, <2>5, <2>7, BytesEmpty
       DEF SlotOK, DataOK, StreamLifecycle, ManagedStreamState
  <2>9. TypeOK'
    BY <2>2, <2>8 DEF TypeOK, RequestsOK, SlotOK, DataOK, RequestType, Handles, Sizes, Bytes
  <2>10. LockInv'
    <3>1. request[r].body = << >>
      BY <1>1 DEF StreamInv, LockInv
    <3>2. QED
      BY <1>1, <2>2, <2>3, <3>1, LockKept DEF StreamInv
  <2>11. UpgradeInv'
    <3>1. \A q \in Request : ~Upgrades(q)
      BY <2>3 DEF StreamInv, UpgradeInv
    <3>2. \A q \in Request : Upgrades(q)' => q = r
      BY <3>1, <2>2 DEF Others, Upgrades
    <3>3. \A q \in Request : request'[q].op = "Connect" => request'[q].handle = 0
      BY <2>2 DEF StreamInv, UpgradeInv, Others
    <3>4. generation' = 0 /\ lifecycle' = "Upgrading" /\ state' = "Upgrading"
      BY <1>1, <1>3, <2>3
    <3>5. QED
      BY <2>2, <3>2, <3>3, <3>4 DEF UpgradeInv
  <2>12. LifecycleInv'
    BY <1>3 DEF LifecycleInv
  <2>13. BytesInv'
    <3>1. Held' = << >> /\ delivered' = d
      BY <1>1, <2>3, <2>4 DEF Held
    <3>2. Cat(Cat(Cat(d, << >>), << >>), << >>) = d
      BY <2>5, CatFacts
    <3>3. delivered' \o Held' \o read_buffer' \o unread' = input'
      BY <1>3, <2>7, <3>1, <3>2 DEF Cat
    <3>4. QED
      BY <3>3 DEF BytesInv
  <2>14. QED
    BY <2>9, <2>10, <2>11, <2>12, <2>13 DEF StreamInv
<1>4. QED
  BY <1>2, <1>3 DEF BeginUpgrade

LEMMA FinishUpgradeStep ==
    ASSUME StreamInv, NEW r \in Request, FinishUpgrade(r) PROVE StreamInv'
<1>0. RequestsOK /\ SlotOK /\ DataOK
  BY TypeParts DEF StreamInv
<1>1. /\ request[r].op = "Connect" /\ request[r].step = "upgraded" /\ lock = NoRequest
      /\ UNCHANGED <<generation, cancellation, read_buffer, input, unread, delivered, listed,
                     owner, eof, wire>>
  BY DEF FinishUpgrade, At, dataVars
<1>2. /\ request[r].body = << >> /\ r # NoRequest /\ generation = 0
      /\ lifecycle \notin {"OpenTcp", "OpenTls"}
      /\ \A q \in Request : Upgrades(q) => q = r
  BY <1>1, StreamAssumption DEF StreamInv, LockInv, UpgradeInv, Upgrades
<1>3. CASE lifecycle = "Upgrading"
  <2>1. lifecycle' = "OpenTls" /\ lock' = r /\ Goto(r, "switching") /\ state' = state
    BY <1>3 DEF FinishUpgrade
  <2>2. "switching" \in Step /\ state = "Upgrading"
    BY <1>3 DEF Step, StreamInv, LifecycleInv
  <2>3. /\ RequestsOK' /\ Others(r) /\ request'[r].step = "switching"
        /\ request'[r].op = request[r].op
        /\ request'[r].body = request[r].body /\ request'[r].handle = request[r].handle
    BY <1>0, <2>1, <2>2, GotoEffect DEF Others
  <2>4. SlotOK' /\ DataOK'
    BY <1>0, <1>1, <2>1 DEF SlotOK, DataOK, StreamLifecycle, Open
  <2>5. TypeOK'
    BY <2>3, <2>4 DEF TypeOK, RequestsOK, SlotOK, DataOK, RequestType, Handles, Sizes, Bytes
  <2>6. LockInv'
    BY <1>1, <1>2, <2>1, <2>3, LockKept DEF StreamInv
  <2>7. UpgradeInv'
    <3>1. \A q \in Request : Upgrades(q)' => q = r
      BY <1>2, <2>3 DEF Others, Upgrades
    <3>2. \A q \in Request : request'[q].op = "Connect" => request'[q].handle = 0
      BY <2>3 DEF StreamInv, UpgradeInv, Others
    <3>3. generation' = 0 /\ lifecycle' = "OpenTls" /\ state' = "Upgrading"
      BY <1>1, <1>2, <2>1, <2>2
    <3>4. QED
      BY <2>3, <3>1, <3>2, <3>3 DEF UpgradeInv
  <2>8. LifecycleInv'
    BY <2>1, <2>3 DEF LifecycleInv
  <2>9. BytesInv'
    <3>1. Held = << >> /\ Held' = << >>
      BY <1>1, <1>2, <2>1, <2>3 DEF Held
    <3>2. QED
      BY <1>1, <2>1, <3>1 DEF StreamInv, BytesInv
  <2>10. QED
    BY <2>5, <2>6, <2>7, <2>8, <2>9 DEF StreamInv
<1>4. CASE lifecycle # "Upgrading"
  <2>1. /\ state' = "Closed" /\ Respond(r, "interrupted")
        /\ UNCHANGED <<lifecycle, lock>>
    BY <1>4 DEF FinishUpgrade
  <2>2. "interrupted" \in Answer
    BY DEF Answer
  <2>3. /\ RequestsOK' /\ Others(r) /\ request'[r].step = "done" /\ request'[r].op = request[r].op
        /\ request'[r].body = << >> /\ request'[r].handle = request[r].handle
    BY <1>0, <2>1, <2>2, RespondEffect DEF Others
  <2>4. lifecycle' \in {"Closing", "Closed"}
    BY <1>0, <1>2, <1>4, <2>1 DEF SlotOK, StreamLifecycle, Open
  <2>5. SlotOK' /\ DataOK'
    BY <1>0, <1>1, <2>1 DEF SlotOK, DataOK, ManagedStreamState
  <2>6. request'[r].op = "Connect" => request'[r].handle = 0
    BY <2>3 DEF StreamInv, UpgradeInv
  <2>7. QED
    BY <1>1, <1>2, <2>1, <2>3, <2>4, <2>5, <2>6, StepKept DEF Upgrades
<1>5. QED
  BY <1>3, <1>4

LEMMA SwitchStep ==
    ASSUME StreamInv, NEW r \in Request, Switch(r) PROVE StreamInv'
<1>0. RequestsOK /\ SlotOK /\ DataOK
  BY TypeParts DEF StreamInv
<1>1. /\ request[r].op = "Connect" /\ request[r].step = "switching" /\ state' = "Tls"
      /\ generation' = generation + 1 /\ Respond(r, "ok") /\ lock' = NoRequest
      /\ UNCHANGED <<lifecycle, cancellation, read_buffer, input, unread, delivered, listed,
                     owner, eof, wire>>
  BY DEF Switch, At, dataVars, Return
<1>2. /\ request[r].body = << >> /\ r # NoRequest /\ lock = r /\ generation = 0
      /\ lifecycle \notin {"OpenTcp", "Upgrading"} /\ state = "Upgrading"
      /\ \A q \in Request : Upgrades(q) => q = r
  BY <1>1, StreamAssumption DEF StreamInv, LockInv, UpgradeInv, Upgrades
<1>3. generation' = 1
  BY <1>1, <1>2, SMT
<1>4. "ok" \in Answer
  BY DEF Answer
<1>5. /\ RequestsOK' /\ Others(r) /\ request'[r].step = "done" /\ request'[r].op = request[r].op
      /\ request'[r].body = << >> /\ request'[r].handle = request[r].handle
  BY <1>0, <1>1, <1>4, RespondEffect DEF Others
<1>6. SlotOK' /\ DataOK'
  <2>1. generation' \in 0 .. 1
    BY <1>3, SMT
  <2>2. QED
    BY <1>0, <1>1, <2>1 DEF SlotOK, DataOK, ManagedStreamState
<1>7. TypeOK'
  BY <1>5, <1>6 DEF TypeOK, RequestsOK, SlotOK, DataOK, RequestType, Handles, Sizes, Bytes
<1>8. LockInv'
  BY <1>1, <1>2, <1>5, LockKept DEF StreamInv
<1>9. UpgradeInv'
  <2>1. \A q \in Request : ~Upgrades(q)'
    BY <1>2, <1>5 DEF Others, Upgrades
  <2>2. \A q \in Request : request'[q].op = "Connect" => request'[q].handle = 0
    BY <1>5 DEF StreamInv, UpgradeInv, Others
  <2>3. QED
    BY <1>1, <1>2, <2>1, <2>2 DEF UpgradeInv
<1>10. LifecycleInv'
  <2>1. lifecycle # "Closed"
    BY <1>2 DEF StreamInv, LifecycleInv
  <2>2. lifecycle = "Closing" =>
            \E q \in Request : request'[q].step \in {"cancelling", "finishing"}
    BY <1>1, <1>5 DEF StreamInv, LifecycleInv, Others
  <2>3. QED
    BY <1>1, <1>2, <2>1, <2>2 DEF LifecycleInv
<1>11. BytesInv'
  <2>1. Held = << >> /\ Held' = << >>
    BY <1>1, <1>2 DEF Held
  <2>2. QED
    BY <1>1, <1>2, <2>1 DEF StreamInv, BytesInv
<1>12. QED
  BY <1>7, <1>8, <1>9, <1>10, <1>11 DEF StreamInv

-----------------------------------------------------------------------------
(* The invariant *)

LEMMA ArrivesStep ==
    ASSUME StreamInv, NEW r \in Request, Arrives(r) PROVE StreamInv'
<1>1. 0 .. generation \subseteq Handles /\ Size \subseteq Sizes /\ 0 \in Sizes /\ 0 \in Handles
  <2>1. generation \in 0 .. 1
    BY DEF StreamInv, TypeOK
  <2>2. QED
    BY <2>1, SMT DEF Handles, Sizes
<1>2. CASE \E op \in IO, g \in 0 .. generation, n \in Size : Start(r, op, g, n)
  <2>1. PICK op \in IO, g \in 0 .. generation, n \in Size : Start(r, op, g, n)
    BY <1>2
  <2>2. op # "Connect" /\ g \in Handles /\ n \in Sizes
    BY <1>1, <2>1 DEF IO
  <2>3. Arrive(r, op, g, n, g = generation /\ lifecycle \in Open, "waiting")
    BY <2>1 DEF Start
  <2>4. QED
    BY <2>2, <2>3, ArriveStep
<1>3. CASE \E g \in 0 .. generation : StartClose(r, g)
  <2>1. PICK g \in 0 .. generation : StartClose(r, g)
    BY <1>3
  <2>2. Arrive(r, "Close", g, 0, g = generation, "closing") /\ g \in Handles
    BY <1>1, <2>1 DEF StartClose
  <2>3. QED
    BY <1>1, <2>2, ArriveStep
<1>4. CASE \E ok \in BOOLEAN : StartConnect(r, ok)
  <2>1. PICK ok \in BOOLEAN : StartConnect(r, ok)
    BY <1>4
  <2>2. Arrive(r, "Connect", 0, 0, ok /\ Upgradable(0), "checked")
    BY <2>1 DEF StartConnect
  <2>3. QED
    BY <1>1, <2>2, ArriveStep
<1>5. QED
  BY <1>2, <1>3, <1>4 DEF Arrives

LEMMA StreamStep ==
    ASSUME StreamInv, [Next]_vars PROVE StreamInv'
<1>1. ASSUME NEW r \in Request, Arrives(r) \/ Transfers(r) \/ Advances(r)
             \/ GiveUp(r) \/ Interrupt(r) \/ Handshake(r)
      PROVE  StreamInv'
  <2>1. CASE Arrives(r)
    BY <2>1, ArrivesStep
  <2>2. CASE Transfers(r)
    BY <2>2, ReadStep, ReadUntilLimitStep, WriteStep, FlushStep DEF Transfers
  <2>3. CASE Advances(r)
    BY <2>3, AcquireStep, FailedWriteStep, BeginCloseStep, CancelStep, FinishCloseStep,
       BeginUpgradeStep, FinishUpgradeStep, SwitchStep, FailUpgradeStep DEF Advances
  <2>4. QED
    BY <1>1, <2>1, <2>2, <2>3, GiveUpStep, InterruptStep, HandshakeStep
<1>2. QED
  BY <1>1, OwnerSteps, PeerSendsStep, PeerFinishesStep, StutterStep DEF Next

LEMMA StreamInit == Init => StreamInv
<1>1. SUFFICES ASSUME Init PROVE StreamInv
  OBVIOUS
<1>2. NewRequest \in RequestType /\ NewRequest.written = 0 /\ NewRequest.size = 0
      /\ NewRequest.step = "new" /\ NewRequest.op = "Read" /\ NewRequest.body = << >>
  <2>1. << >> \in Bytes /\ 0 \in Handles /\ 0 \in Sizes
    BY SMT DEF Bytes, Handles, Sizes
  <2>2. "new" \in Step /\ "none" \in Answer /\ "Read" \in Operations
    BY DEF Step, Answer, Operations
  <2>3. QED
    BY <2>1, <2>2, SMT DEF NewRequest, RequestType
<1>3. \A r \in Request : request[r] = NewRequest
  BY <1>1 DEF Init
<1>4. RequestsOK
  <2>1. request \in [Request -> RequestType]
    BY <1>1, <1>2, SMT DEF Init
  <2>2. 0 <= 0
    BY SMT
  <2>3. QED
    BY <1>2, <1>3, <2>1, <2>2 DEF RequestsOK
<1>5. SlotOK
  <2>1. generation \in 0 .. 1 /\ wire \in Seq(Request)
    BY <1>1, SMT DEF Init
  <2>2. QED
    BY <1>1, <2>1 DEF Init, SlotOK, StreamLifecycle, Open, ManagedStreamState
<1>6. DataOK
  BY <1>1, BytesEmpty DEF Init, DataOK
<1>7. LockInv
  BY <1>1, <1>2, <1>3, StreamAssumption DEF Init, LockInv
<1>8. UpgradeInv
  <2>1. generation # 1
    BY <1>1, SMT DEF Init
  <2>2. QED
    BY <1>2, <1>3, <2>1 DEF UpgradeInv, Upgrades
<1>9. LifecycleInv
  BY <1>1 DEF Init, LifecycleInv
<1>10. BytesInv
  <2>1. delivered = << >> /\ Held = << >> /\ read_buffer = << >> /\ unread = << >> /\ input = << >>
    BY <1>1 DEF Init, Held
  <2>2. << >> \o << >> = << >>
    BY BytesEmpty
  <2>3. QED
    BY <2>1, <2>2 DEF BytesInv
<1>11. QED
  BY <1>4, <1>5, <1>6, <1>7, <1>8, <1>9, <1>10, TypeParts DEF StreamInv

(* StreamInv holds of every behaviour.                                     *)
LEMMA StreamInvariant == Spec => []StreamInv
BY StreamInit, StreamStep, PTL DEF Spec

(* Whenever the mutex is free, the lifecycle that begin_close changes      *)
(* without it and the connection it guards agree, and a stream that is     *)
(* closing has a request that will finish the close.                       *)
THEOREM StreamLifecycles == Spec => []LifecycleMatchesState
<1>1. StreamInv => LifecycleMatchesState
  <2>1. SUFFICES ASSUME StreamInv PROVE LifecycleMatchesState
    OBVIOUS
  <2>2. ASSUME lock = NoRequest, lifecycle = "OpenTls" PROVE state = "Tls"
    BY <2>1, <2>2, StreamAssumption DEF StreamInv, LockInv, LifecycleInv
  <2>3. QED
    BY <2>1, <2>2 DEF StreamInv, LifecycleInv, LifecycleMatchesState
<1>2. QED
  BY <1>1, StreamInvariant, PTL

(* Whatever reads time out, are cancelled or exceed their limit, and       *)
(* across a TLS upgrade, what was answered, held, put back and left on the *)
(* socket is what the peer sent, in its order.                             *)
THEOREM StreamInput == Spec => []InputPreserved
<1>1. StreamInv => InputPreserved
  BY DEF StreamInv, BytesInv, InputPreserved
<1>2. QED
  BY <1>1, StreamInvariant, PTL

LEMMA ClosedKept ==
    ASSUME StreamInv, [Next]_vars PROVE ClosedStep
<1>1. ASSUME UNCHANGED <<lifecycle, state, delivered, wire>> PROVE ClosedStep
  BY <1>1 DEF ClosedStep
<1>2. ASSUME lifecycle' \in {lifecycle, "Closing", "Closed"}, state' \in {state, "Closed"},
             UNCHANGED <<delivered, wire>>
      PROVE  ClosedStep
  BY <1>2 DEF ClosedStep
<1>3. ASSUME NEW r \in Request, Arrives(r) \/ GiveUp(r) \/ Interrupt(r) \/ Handshake(r)
             \/ Flush(r) \/ Acquire(r) \/ FailedWrite(r) \/ Cancel(r)
      PROVE  ClosedStep
  BY <1>1, <1>3 DEF Arrives, Start, StartClose, StartConnect, Arrive, GiveUp, Interrupt, Handshake,
     Flush, Acquire, FailedWrite, Cancel, slotVars, dataVars
<1>4. ASSUME NEW r \in Request, Read(r) \/ ReadUntilLimit(r) \/ Write(r)
      PROVE  ClosedStep
  <2>1. request[r].step = "io" /\ UNCHANGED <<lifecycle, state>>
    BY <1>4 DEF Read, ReadUntilLimit, Write, At, slotVars
  <2>2. state \in {"Tcp", "Tls"}
    BY <1>4, <2>1 DEF StreamInv, LockInv
  <2>3. QED
    BY <2>1, <2>2 DEF ClosedStep
<1>5. ASSUME NEW r \in Request, BeginClose(r) \/ FinishClose(r) \/ FailUpgrade(r)
      PROVE  ClosedStep
  BY <1>2, <1>5 DEF BeginClose, FinishClose, CloseState, FailUpgrade, dataVars
<1>6. ASSUME NEW r \in Request, BeginUpgrade(r) PROVE ClosedStep
  BY <1>6 DEF BeginUpgrade, Upgradable, ClosedStep
<1>7. ASSUME NEW r \in Request, FinishUpgrade(r) PROVE ClosedStep
  BY <1>7 DEF FinishUpgrade, ClosedStep, dataVars
<1>8. ASSUME NEW r \in Request, Switch(r) PROVE ClosedStep
  <2>1. request[r].step = "switching" /\ UNCHANGED <<lifecycle, delivered, wire>>
    BY <1>8 DEF Switch, At, dataVars
  <2>2. state = "Upgrading"
    BY <2>1, <1>8 DEF StreamInv, UpgradeInv, Upgrades
  <2>3. QED
    BY <2>1, <2>2 DEF ClosedStep
<1>9. CASE OwnerNext
  BY <1>1, <1>2, <1>9 DEF OwnerNext, Own, OwnRefused, Release, OwnerCloses, Remove, CloseState,
     slotVars, ownerOnly
<1>10. CASE PeerSends \/ PeerFinishes \/ UNCHANGED vars
  BY <1>1, <1>10 DEF PeerSends, PeerFinishes, vars, slotVars, dataVars
<1>11. QED
  BY <1>3, <1>4, <1>5, <1>6, <1>7, <1>8, <1>9, <1>10 DEF Next, Transfers, Advances

(* A stream that was asked to close is never opened again, and a closed    *)
(* one answers no read and writes no byte, whatever was under way.         *)
THEOREM StreamStaysClosed == Spec => ClosedForGood
<1>1. StreamInv /\ [Next]_vars => [ClosedStep]_vars
  BY ClosedKept
<1>2. QED
  BY <1>1, StreamInvariant, PTL DEF Spec, ClosedForGood

=============================================================================
