------------------------------ MODULE StreamSlot ------------------------------
(***************************************************************************)
(* One byte stream of etas_host: its slot in ByteStreamStore               *)
(* (stream/store.rs), the requests of LocalStreamClient (stream/local.rs), *)
(* the TLS upgrade (tls/local.rs), and the task that closes the stream     *)
(* when the scope that owns it is released.                                *)
(*                                                                         *)
(* An async mutex guards the connection.  The lifecycle and the generation *)
(* are atomics beside it, which a close changes without the mutex so that  *)
(* it can interrupt whoever holds it.  Requests run as supervised tasks:   *)
(* they are interrupted, never dropped.                                    *)
(***************************************************************************)
EXTENDS Integers, Sequences

CONSTANTS
    Request,    \* requests made with a handle of the stream
    NoRequest,  \* nobody holds the mutex
    Operation,  \* the operations requested: see Operations
    Size,       \* max_bytes, limit_bytes or the length of a body
    InputBound  \* bound on the bytes the peer sends

Operations == {"Read", "ReadUntilLimit", "WriteAll", "Flush", "Close", "Connect"}

ASSUME StreamAssumption ==
    /\ NoRequest \notin Request /\ Operation \subseteq Operations
    /\ Size \subseteq Nat /\ InputBound \in Nat

VARIABLES
    lifecycle,      \* StreamSlot.lifecycle
    generation,     \* StreamSlot.generation
    state,          \* StreamSlot.state: the connection, or why there is none
    read_buffer,    \* ManagedStream.read_buffer
    cancellation,   \* StreamSlot.cancellation
    lock,           \* the request that holds the mutex of state
    listed,         \* ByteStreamStore.streams has the slot
    owner,          \* where own_stream and the task it spawns stand
    input,          \* what the peer has sent as stream data
    unread,         \* the part of it that no read has taken off the socket
    eof,            \* the peer has finished
    delivered,      \* what requests have been answered with
    wire,           \* for each byte written, the request that wrote it
    request         \* the requests

slotVars == <<lifecycle, generation, state, cancellation>>
dataVars == <<read_buffer, input, unread, delivered>>
vars == <<slotVars, dataVars, lock, listed, owner, eof, wire, request>>

Open == {"OpenTcp", "OpenTls"}
StreamLifecycle == Open \cup {"Upgrading", "Closing", "Closed"}
ManagedStreamState == {"Tcp", "Tls", "Upgrading", "Closed"}
Step == {"new", "waiting", "io", "failed", "closing", "cancelling", "finishing",
         "checked", "handshake", "upgraded", "broken", "switching", "done"}
Answer == {"none", "ok", "refused", "interrupted", "LimitExceeded", "Eof"}

NewRequest == [op |-> "Read", handle |-> 0, size |-> 0, step |-> "new", body |-> << >>,
               written |-> 0, answer |-> "none"]

At(r, op, step) == request[r].op \in op /\ request[r].step = step
Goto(r, step) == request' = [request EXCEPT ![r].step = step]
Respond(r, a) ==
    request' = [request EXCEPT ![r].step = "done", ![r].answer = a, ![r].body = << >>]

IO == {"Read", "ReadUntilLimit", "WriteAll", "Flush"}

-----------------------------------------------------------------------------
(* A request arrives *)

(* The handle's token is looked up in the store, and the request goes on   *)
(* to step or is refused.                                                  *)
Arrive(r, op, g, n, ok, step) ==
    /\ op \in Operation /\ request[r].step = "new"
    /\ owner \notin {"owning", "refusing", "refused"}
    /\ request' = [request EXCEPT ![r] =
          [op |-> op, handle |-> g, size |-> n, body |-> << >>, written |-> 0,
           step |-> IF listed /\ ok THEN step ELSE "done",
           answer |-> IF listed /\ ok THEN "none" ELSE "refused"]]
    /\ UNCHANGED <<slotVars, dataVars, lock, listed, owner, eof, wire>>

(* lock_stream_state up to its select.                                     *)
Start(r, op, g, n) ==
    op \in IO /\ Arrive(r, op, g, n, g = generation /\ lifecycle \in Open, "waiting")

(* begin_close up to its loop.                                             *)
StartClose(r, g) == Arrive(r, "Close", g, 0, g = generation, "closing")

(* Mutant of Upgradable: bytes read ahead are no obstacle.                 *)
UpgradableWithBuffer(g) ==
    g = generation /\ lock = NoRequest /\ lifecycle = "OpenTcp" /\ state = "Tcp"

(* try_lock succeeds and the connection is plain TCP with nothing read     *)
(* ahead.                                                                  *)
Upgradable(g) ==
    /\ g = generation /\ lock = NoRequest /\ lifecycle = "OpenTcp"
    /\ state = "Tcp" /\ read_buffer = << >>

(* validate_tls_upgrade, and what else may refuse the request: the server  *)
(* name, the sandbox, an upgrade whose own checks hold the mutex.          *)
StartConnect(r, ok) == Arrive(r, "Connect", 0, 0, ok /\ Upgradable(0), "checked")

-----------------------------------------------------------------------------
(* Reads, writes and flushes.  A poll that began before the slot's token   *)
(* was cancelled may still transfer; the model lets the later ones of a    *)
(* loop do so too.                                                         *)

Acquire(r) ==
    /\ At(r, IO, "waiting") /\ lock = NoRequest
    /\ IF request[r].handle = generation /\ lifecycle \in Open /\ state \in {"Tcp", "Tls"}
       THEN Goto(r, "io") /\ lock' = r
       ELSE Respond(r, "refused") /\ UNCHANGED lock
    /\ UNCHANGED <<slotVars, dataVars, listed, owner, eof, wire>>

(* The scope, the slot's token or a deadline ends the wait for the mutex.  *)
GiveUp(r) ==
    /\ At(r, IO, "waiting")
    /\ Respond(r, "interrupted")
    /\ UNCHANGED <<slotVars, dataVars, lock, listed, owner, eof, wire>>

(* Bytes a read with room for n returns: what is buffered comes first, and *)
(* the socket gives as much as it likes.                                   *)
Chunks(n) ==
    IF read_buffer # << >>
    THEN {SubSeq(read_buffer, 1, IF n < Len(read_buffer) THEN n ELSE Len(read_buffer))}
    ELSE {SubSeq(unread, 1, k) : k \in 1 .. IF n < Len(unread) THEN n ELSE Len(unread)}

Drop(s, k) == SubSeq(s, k + 1, Len(s))

(* What connection.read leaves behind.                                     *)
Taken(c) ==
    /\ read_buffer' = IF read_buffer # << >> THEN Drop(read_buffer, Len(c)) ELSE << >>
    /\ unread' = IF read_buffer # << >> THEN unread ELSE Drop(unread, Len(c))

AtEof == read_buffer = << >> /\ unread = << >> /\ eof

(* The request is answered and the guard of the mutex dropped.             *)
Return(r, a) == Respond(r, a) /\ lock' = NoRequest

Read(r) ==
    /\ At(r, {"Read"}, "io")
    /\ \/ request[r].size = 0 /\ Return(r, "ok") /\ UNCHANGED dataVars
       \/ request[r].size > 0 /\ AtEof /\ Return(r, "Eof") /\ UNCHANGED dataVars
       \/ \E c \in Chunks(request[r].size) :
             /\ c # << >>
             /\ Taken(c) /\ delivered' = delivered \o c
             /\ Return(r, "ok") /\ UNCHANGED input
    /\ UNCHANGED <<slotVars, listed, owner, eof, wire>>

(* One turn of the loop of read_until_limit: it asks for one byte more     *)
(* than it may return, and puts everything back when it gets it.           *)
ReadUntilLimit(r) ==
    /\ At(r, {"ReadUntilLimit"}, "io")
    /\ LET q == request[r]  room == q.size - Len(q.body)
       IN  \/ /\ room = 0 \/ AtEof
              /\ delivered' = delivered \o q.body
              /\ Return(r, IF room > 0 /\ q.body = << >> THEN "Eof" ELSE "ok")
              /\ UNCHANGED <<input, read_buffer, unread>>
           \/ \E c \in Chunks(room + 1) :
                 /\ room > 0 /\ c # << >>
                 /\ IF Len(c) > room
                    THEN /\ read_buffer' = q.body \o c \o
                               (IF read_buffer # << >> THEN Drop(read_buffer, Len(c)) ELSE << >>)
                         /\ unread' = IF read_buffer # << >> THEN unread ELSE Drop(unread, Len(c))
                         /\ Return(r, "LimitExceeded")
                    ELSE /\ Taken(c)
                         /\ request' = [request EXCEPT ![r].body = q.body \o c]
                         /\ UNCHANGED lock
                 /\ UNCHANGED <<input, delivered>>
    /\ UNCHANGED <<slotVars, listed, owner, eof, wire>>

(* One turn of the loop of write_body.                                     *)
Write(r) ==
    /\ At(r, {"WriteAll"}, "io")
    /\ \E k \in 1 .. request[r].size - request[r].written :
          /\ wire' = wire \o [i \in 1 .. k |-> r]
          /\ request' = [request EXCEPT ![r].written = @ + k]
    /\ UNCHANGED <<slotVars, dataVars, lock, listed, owner, eof>>

(* The flush of a Flush, and the one that ends a WriteAll.                 *)
Flush(r) ==
    /\ At(r, {"Flush", "WriteAll"}, "io")
    /\ request[r].op = "WriteAll" => request[r].written = request[r].size
    /\ Return(r, "ok")
    /\ UNCHANGED <<slotVars, dataVars, listed, owner, eof, wire>>

(* await_io fails: the scope, the slot's token, a deadline or the socket.  *)
(* A reader puts back what it has read, a writer goes on to close.  A read *)
(* with no room left does not wait.                                        *)
Interrupt(r) ==
    /\ At(r, IO, "io")
    /\ request[r].op \in {"Read", "ReadUntilLimit"} => Len(request[r].body) < request[r].size
    /\ IF request[r].op = "WriteAll"
       THEN request' = [request EXCEPT ![r].step = "failed", ![r].answer = "interrupted"]
       ELSE Respond(r, "interrupted")
    /\ read_buffer' = request[r].body \o read_buffer
    /\ lock' = NoRequest
    /\ UNCHANGED <<slotVars, input, unread, delivered, listed, owner, eof, wire>>

-----------------------------------------------------------------------------
(* Closing *)

(* A failed write asks for the close itself.  A stale handle and a stream  *)
(* that is closed already are the same to it.                              *)
FailedWrite(r) ==
    /\ At(r, {"WriteAll"}, "failed")
    /\ Goto(r, IF request[r].handle = generation THEN "closing" ELSE "finishing")
    /\ UNCHANGED <<slotVars, dataVars, lock, listed, owner, eof, wire>>

(* The loop of begin_close ends with a compare_exchange that succeeds or   *)
(* with a stream that is closing.  The mutex plays no part.                *)
BeginClose(r) ==
    /\ At(r, {"Close", "WriteAll"}, "closing")
    /\ IF lifecycle \in Open \cup {"Upgrading"}
       THEN lifecycle' = "Closing" /\ Goto(r, "cancelling")
       ELSE /\ UNCHANGED lifecycle
            /\ IF request[r].op = "Close" THEN Respond(r, "refused") ELSE Goto(r, "finishing")
    /\ UNCHANGED <<generation, state, cancellation, dataVars, lock, listed, owner, eof, wire>>

(* Mutant of Cancel: nobody is told.                                       *)
CancelForgotten(r) ==
    /\ At(r, {"Close", "WriteAll"}, "cancelling")
    /\ Goto(r, "finishing")
    /\ UNCHANGED <<slotVars, dataVars, lock, listed, owner, eof, wire>>

(* The token is cancelled once the exchange has succeeded.                 *)
Cancel(r) ==
    /\ At(r, {"Close", "WriteAll"}, "cancelling")
    /\ cancellation' = TRUE
    /\ Goto(r, "finishing")
    /\ UNCHANGED <<lifecycle, generation, state, dataVars, lock, listed, owner, eof, wire>>

(* finish_close: whoever calls it waits for the mutex.                     *)
CloseState ==
    lock = NoRequest /\ state' = "Closed" /\ lifecycle' = "Closed" /\ read_buffer' = << >>

FinishClose(r) ==
    /\ At(r, {"Close", "WriteAll"}, "finishing")
    /\ CloseState
    /\ Respond(r, IF request[r].op = "Close" THEN "ok" ELSE "interrupted")
    /\ UNCHANGED <<generation, cancellation, input, unread, delivered, lock, listed, owner,
                   eof, wire>>

-----------------------------------------------------------------------------
(* The TLS upgrade *)

(* begin_tls_upgrade takes the connection out of the slot.  What is unread *)
(* on the socket belongs to the handshake from here on.  It may be refused *)
(* although the slot is ready: the scope was cancelled, or another upgrade *)
(* holds the mutex for its checks.                                         *)
BeginUpgrade(r) ==
    /\ At(r, {"Connect"}, "checked")
    /\ \/ /\ Upgradable(request[r].handle)
          /\ lifecycle' = "Upgrading" /\ state' = "Upgrading"
          /\ read_buffer' = << >> /\ unread' = << >>
          /\ input' = SubSeq(input, 1, Len(input) - Len(unread))
          /\ Goto(r, "handshake")
       \/ Respond(r, "refused") /\ UNCHANGED <<lifecycle, state, read_buffer, unread, input>>
    /\ UNCHANGED <<generation, cancellation, delivered, lock, listed, owner, eof, wire>>

(* tls_handshake: it succeeds, or the peer, the slot's token, the scope or *)
(* a deadline ends it.                                                     *)
Handshake(r) ==
    /\ At(r, {"Connect"}, "handshake")
    /\ \E step \in {"upgraded", "broken"} : Goto(r, step) /\ (eof => step = "broken")
    /\ UNCHANGED <<slotVars, dataVars, lock, listed, owner, eof, wire>>

(* Mutant of FinishUpgrade: the lifecycle is stored, not exchanged.        *)
FinishUpgradeStores(r) ==
    /\ At(r, {"Connect"}, "upgraded") /\ lock = NoRequest
    /\ lifecycle' = "OpenTls" /\ lock' = r /\ Goto(r, "switching") /\ UNCHANGED state
    /\ UNCHANGED <<generation, cancellation, dataVars, listed, owner, eof, wire>>

(* finish_tls_upgrade up to its exchange, which fails when a close came  *)
(* in between.                                                             *)
FinishUpgrade(r) ==
    /\ At(r, {"Connect"}, "upgraded") /\ lock = NoRequest
    /\ IF lifecycle = "Upgrading"
       THEN lifecycle' = "OpenTls" /\ lock' = r /\ Goto(r, "switching") /\ UNCHANGED state
       ELSE state' = "Closed" /\ Respond(r, "interrupted") /\ UNCHANGED <<lifecycle, lock>>
    /\ UNCHANGED <<generation, cancellation, dataVars, listed, owner, eof, wire>>

(* The rest of it, still under the mutex.                                  *)
Switch(r) ==
    /\ At(r, {"Connect"}, "switching")
    /\ state' = "Tls" /\ generation' = generation + 1
    /\ Return(r, "ok")
    /\ UNCHANGED <<lifecycle, cancellation, dataVars, listed, owner, eof, wire>>

(* Mutant of FailUpgrade: the slot is left as it is.                       *)
FailUpgradeKeepsState(r) ==
    /\ At(r, {"Connect"}, "broken") /\ lock = NoRequest
    /\ lifecycle' = IF lifecycle = "Upgrading" THEN "Closed" ELSE lifecycle
    /\ Respond(r, "interrupted")
    /\ UNCHANGED <<generation, state, cancellation, dataVars, lock, listed, owner, eof, wire>>

(* fail_tls_upgrade leaves a lifecycle that a close has changed alone.     *)
FailUpgrade(r) ==
    /\ At(r, {"Connect"}, "broken") /\ lock = NoRequest
    /\ state' = "Closed"
    /\ lifecycle' = IF lifecycle = "Upgrading" THEN "Closed" ELSE lifecycle
    /\ Respond(r, "interrupted")
    /\ UNCHANGED <<generation, cancellation, dataVars, lock, listed, owner, eof, wire>>

-----------------------------------------------------------------------------
(* The owner and the peer *)

ownerOnly == <<generation, input, unread, delivered, lock, eof, wire, request>>

(* own_stream registers with the scope of the connect, before the handle   *)
(* is given out.                                                           *)
Own ==
    /\ owner = "owning" /\ owner' = "watching"
    /\ UNCHANGED <<slotVars, read_buffer, listed, ownerOnly>>

OwnRefused ==
    /\ owner = "owning" /\ owner' = "refusing"
    /\ cancellation' = TRUE
    /\ UNCHANGED <<lifecycle, state, read_buffer, listed, ownerOnly>>

(* release_requested returns in the task of own_stream.                    *)
Release ==
    /\ owner = "watching" /\ owner' = "releasing"
    /\ cancellation' = TRUE
    /\ UNCHANGED <<lifecycle, state, read_buffer, listed, ownerOnly>>

OwnerCloses ==
    /\ owner \in {"refusing", "releasing"}
    /\ CloseState
    /\ owner' = IF owner = "refusing" THEN "refused" ELSE "removing"
    /\ UNCHANGED <<cancellation, listed, ownerOnly>>

Remove ==
    /\ owner = "removing" /\ owner' = "released"
    /\ listed' = FALSE
    /\ UNCHANGED <<slotVars, read_buffer, ownerOnly>>

PeerSends ==
    /\ ~eof /\ state \in {"Tcp", "Tls"} /\ Len(input) < InputBound
    /\ input' = Append(input, Len(input) + 1)
    /\ unread' = Append(unread, Len(input) + 1)
    /\ UNCHANGED <<slotVars, read_buffer, delivered, lock, listed, owner, eof, wire, request>>

PeerFinishes ==
    /\ ~eof /\ eof' = TRUE
    /\ UNCHANGED <<slotVars, dataVars, lock, listed, owner, wire, request>>

-----------------------------------------------------------------------------
Init ==
    /\ lifecycle = "OpenTcp" /\ generation = 0 /\ state = "Tcp"
    /\ read_buffer = << >> /\ cancellation = FALSE
    /\ lock = NoRequest /\ listed = TRUE
    /\ owner \in {"owning", "unowned"}
    /\ input = << >> /\ unread = << >> /\ eof = FALSE
    /\ delivered = << >> /\ wire = << >>
    /\ request = [r \in Request |-> NewRequest]

Arrives(r) ==
    \/ \E op \in IO, g \in 0 .. generation, n \in Size : Start(r, op, g, n)
    \/ \E g \in 0 .. generation : StartClose(r, g)
    \/ \E ok \in BOOLEAN : StartConnect(r, ok)

Transfers(r) == Read(r) \/ ReadUntilLimit(r) \/ Write(r) \/ Flush(r)

(* Steps that a request takes without waiting for the peer or a deadline.  *)
Advances(r) ==
    \/ Acquire(r)
    \/ FailedWrite(r) \/ BeginClose(r) \/ Cancel(r) \/ FinishClose(r)
    \/ BeginUpgrade(r) \/ FinishUpgrade(r) \/ Switch(r) \/ FailUpgrade(r)

OwnerNext == Own \/ OwnRefused \/ Release \/ OwnerCloses \/ Remove

Next ==
    \/ \E r \in Request :
          \/ Arrives(r) \/ Transfers(r) \/ Advances(r)
          \/ GiveUp(r) \/ Interrupt(r) \/ Handshake(r)
    \/ OwnerNext
    \/ PeerSends \/ PeerFinishes

Spec == Init /\ [][Next]_vars

(* The runtime polls what can go on, and polls the slot's token first: a   *)
(* request that waits is interrupted once the token is cancelled.  Nobody  *)
(* need send, answer or ask for anything.                                  *)
StreamFairness ==
    /\ \A r \in Request :
          /\ WF_vars(Advances(r))
          /\ WF_vars(cancellation /\ (GiveUp(r) \/ Interrupt(r) \/ Handshake(r) \/ Transfers(r)))
    /\ WF_vars(OwnerCloses \/ Remove)

-----------------------------------------------------------------------------
(* Properties *)

(* Every variable has its type, and write_body never counts more bytes     *)
(* than the body has.                                                      *)
TypeOK ==
    /\ lifecycle \in StreamLifecycle /\ generation \in 0 .. 1
    /\ state \in ManagedStreamState /\ cancellation \in BOOLEAN
    /\ lock \in Request \cup {NoRequest} /\ listed \in BOOLEAN /\ eof \in BOOLEAN
    /\ owner \in {"unowned", "owning", "watching", "releasing", "removing", "released",
                  "refusing", "refused"}
    /\ {read_buffer, input, unread, delivered} \subseteq Seq(1 .. InputBound)
    /\ wire \in Seq(Request)
    /\ request \in [Request -> [op : Operations, handle : 0 .. 1, size : Size \cup {0},
                       step : Step, body : Seq(1 .. InputBound), written : Nat, answer : Answer]]
    /\ \A r \in Request : request[r].written <= request[r].size

(* The atomic lifecycle and the guarded connection tell the same story     *)
(* whenever the mutex is free, although begin_close changes the one        *)
(* without the other; and a stream in Closing has somebody who is on the   *)
(* way to finish_close.                                                    *)
LifecycleMatchesState ==
    /\ TypeOK
    /\ lock = NoRequest =>
          /\ lifecycle = "OpenTcp" => state = "Tcp"
          /\ lifecycle = "OpenTls" => state = "Tls"
          /\ lifecycle = "Upgrading" => state = "Upgrading"
    /\ lifecycle = "Closed" => state = "Closed"
    /\ lifecycle = "Closing" =>
          \E r \in Request : request[r].step \in {"cancelling", "finishing"}

(* Reads that time out, are cancelled or hit their limit lose nothing and  *)
(* reorder nothing: what was answered, what a running read_until_limit     *)
(* holds, what was put back and what is on the socket are what the peer    *)
(* sent, across a TLS upgrade too.                                         *)
Held == IF lock = NoRequest THEN << >> ELSE request[lock].body
InputPreserved ==
    state \in {"Tcp", "Tls"} => delivered \o Held \o read_buffer \o unread = input

(* A stream that was asked to close is never opened again, and a closed    *)
(* one transfers nothing, whatever upgrade, read or write was under way.   *)
ClosedStep ==
    /\ lifecycle \in {"Closing", "Closed"} => lifecycle' \in {"Closing", "Closed"}
    /\ state = "Closed" => state' = "Closed" /\ wire' = wire /\ delivered' = delivered
ClosedForGood == [][ClosedStep]_vars

(* A close that was accepted, and the release of the owning scope, get the *)
(* connection closed, although a read that waits for the peer holds the    *)
(* mutex or a handshake has the socket.                                    *)
CloseCompletes ==
    /\ \A r \in Request : At(r, {"Close"}, "cancelling") ~> state = "Closed" /\ lifecycle = "Closed"
    /\ owner = "releasing" ~> owner = "released" /\ state = "Closed"

(* LocalStreamClient says of a failed WriteAll: "A partially written frame *)
(* cannot be reused."  So no byte of another request follows it.           *)
FramesAreWhole ==
    \A i \in 1 .. Len(wire) - 1 : wire[i] # wire[i + 1] =>
        Len(SelectSeq(wire, LAMBDA w : w = wire[i])) = request[wire[i]].size

=============================================================================
